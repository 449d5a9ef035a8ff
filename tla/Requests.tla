------------------------------- MODULE Requests -------------------------------
(***************************************************************************)
(* Requests to the music indexer, one in each thread of a server process:  *)
(* music_indexer_query of indexers/music/music_query.c reads the words,    *)
(* db_query_run of database/db_query.c takes a connection and runs the     *)
(* statement that database/db_config.c makes, and the rows are printed, or *)
(* the first of them is handed to pull_song or to transcode_audio.         *)
(*                                                                         *)
(* The words after the noun are pairs of a name and a value; an odd last   *)
(* word is never looked at.  Values of cells are natural numbers, 0 being  *)
(* NULL.  The database is modelled from the statements sent to it.         *)
(*                                                                         *)
(* Words are put into the statement as they are.  Those that are more to   *)
(* the database than a value are modelled for the pair "1,2" only.         *)
(***************************************************************************)
EXTENDS QueryConfig, FiniteSetsExt

CONSTANTS
  Threads,      \* the threads of the process
  Inputs,       \* the requests: [noun, pairs], noun NULL if there are no words
  Documents,    \* what the configuration may say of queries
  TableRows,    \* the rows of each table, functions from its columns
  Connections,  \* how many connections are in the list
  Faults        \* a subset of {"select", "lost", "open"}

\* A value as a number, a text, a list of numbers or a pair of them, the first of which
\* is skip, and as the list of keys it is if it is for sort_by.
Sorts == {"number", "pair", "list", "text", "unprintable"}
Values == [sort : Sorts, n : Nat, skip : Nat, keys : Seq([fname : STRING, desc : BOOLEAN])]

ASSUME ThreadsAssumption == NULL \notin Threads
ASSUME ConnectionsAssumption == Connections \in Nat
ASSUME InputsAssumption ==
  Inputs \subseteq [noun : Attribute, pairs : Seq([name : STRING, value : Values])]
ASSUME DocumentsAssumption == Documents \subseteq Seq(QueryElem)
\* The ids of the columns pull_song looks for are ids.  (They are in STRING; the provers
\* know no string to be in it.)
ASSUME IdsAssumption == NULL \notin {"path", "type"}
\* A count has no id: a search that comes to one reads at NULL, which is not modelled.
ASSUME CountsAssumption ==
  \A d \in Documents : \A i \in DOMAIN d : d[i].id \in {"pull", "transcode"} =>
    \A j \in DOMAIN d[i].children : d[i].children[j].kind # "count"

VARIABLES
  up,         \* the process lives
  queries,    \* db_queries, as generate_app_queries left them
  document,   \* what it read
  pc, input,  \* where a thread is, and with which request
  db_query, parameters, errors,  \* of music_query: query, parameters, something was reported
  node,       \* the node of the list a thread has read, or its connection
  results,    \* db_query_results
  head,       \* db_conn_list->head; behind the last node it is NULL
  mutex,      \* who holds the mutex of a connection
  cursor,     \* the rows of the last statement on a connection
  db_errors,  \* something was reported to db_config->error_messages
  answer,
  cut         \* whose rows were cut short by a lost connection (history)

query == <<input, db_query, parameters>>
database == <<head, mutex, cursor, db_errors>>
fixed == <<queries, document>>
vars == <<up, fixed, pc, query, errors, node, results, database, answer, cut>>

Conns == 1 .. Connections

Goto(r, label) == pc' = [pc EXCEPT ![r] = label]

\* output_status_json: the reports and nothing else.
StatusAnswer == [kind |-> "status", rows |-> << >>, errors |-> TRUE]

Answers(r, a) == answer' = [answer EXCEPT ![r] = a] /\ Goto(r, "done")

Init ==
  /\ up = TRUE
  /\ document \in Documents
  /\ queries = generate_app_queries(document).queries
  /\ pc = [r \in Threads |-> "idle"]
  /\ input \in [Threads -> Inputs]
  /\ db_query = [r \in Threads |-> NULL]
  /\ parameters = [r \in Threads |-> NULL]
  /\ errors = [r \in Threads |-> FALSE]
  /\ node = [r \in Threads |-> 0]
  /\ results = [r \in Threads |-> NULL]
  /\ head = 1
  /\ mutex = [c \in Conns |-> NULL]
  /\ cursor = [c \in Conns |-> << >>]
  /\ db_errors = FALSE
  /\ answer = [r \in Threads |-> NULL]
  /\ cut = {}

-----------------------------------------------------------------------------
(* get_music_query: what is made of the words *)

\* What each noun asks for; anything else is no type.
Type == [songs |-> "rows", albums |-> "rows", artists |-> "rows", sources |-> "rows",
         pull |-> "pull", transcode |-> "transcode", status |-> "sync"]

Name(column) == <<column.table, column.id>>

\* Texts and lists are copied to a pool that is never set.
db_query_parameter_add_where(p, column, value) ==
  CASE column.type = "varchar" /\ value.sort = "unprintable" -> [p EXCEPT !.errors = TRUE]
    [] column.type = "varchar" /\ value.sort # "unprintable" -> [p EXCEPT !.falls = TRUE]
    [] column.type \in {"int", "bigint"} /\ value.sort \in {"pair", "list"} -> [p EXCEPT !.falls = TRUE]
    [] column.type \in {"int", "bigint"} /\ value.sort \in {"text", "unprintable"} ->
         [p EXCEPT !.errors = TRUE]
    [] OTHER -> [p EXCEPT !.where = Append(@, [name |-> Name(column), value |-> value])]

\* Mutated: a new key of a sort_by replaces those before in the statement.
SortKey_Replaces(q, p, key) ==
  LET column == find_column_from_query_by_friendly_name(q, key.fname)
  IN IF column = NULL THEN [p EXCEPT !.errors = TRUE]
     ELSE [p EXCEPT !.order_by = <<[name |-> Name(column), desc |-> key.desc]>>]

\* A key that is found is appended.
SortKey(q, p, key) ==
  LET column == find_column_from_query_by_friendly_name(q, key.fname)
  IN IF column = NULL THEN [p EXCEPT !.errors = TRUE]
     ELSE [p EXCEPT !.order_by = Append(@, [name |-> Name(column), desc |-> key.desc])]

\* Each name is looked for by itself.
SortBy(q, p, value) == ForEach(LAMBDA s, key : SortKey(q, s, key), p, value.keys)

\* A column of the query makes a condition, the name of a clause sets it; another
\* word ends the reading.  The custom parameters are never looked at.
ReadPair(q, p, pair) ==
  LET column == find_column_from_query_by_friendly_name(q, pair.name) IN
  CASE p.falls \/ p.aborted -> p
    [] ~(p.falls \/ p.aborted) /\ column # NULL -> db_query_parameter_add_where(p, column, pair.value)
    [] ~(p.falls \/ p.aborted) /\ column = NULL ->
         CASE pair.name = "limit" -> [p EXCEPT !.limit = pair.value]
           [] pair.name = "offset" -> [p EXCEPT !.offset = pair.value]
           [] pair.name = "sort_by" -> SortBy(q, p, pair.value)
           [] OTHER -> [p EXCEPT !.aborted = TRUE]

db_query_parameters_init ==
  [where |-> << >>, order_by |-> << >>, limit |-> NULL, offset |-> NULL,
   errors |-> FALSE, falls |-> FALSE, aborted |-> FALSE]

ReadPairs(q, pairs) == ForEach(LAMBDA p, pair : ReadPair(q, p, pair), db_query_parameters_init, pairs)

\* "Not enough info", "not supported by API", "not supported by Database" or by
\* the server: the answer is the report.
Refused(q, p) == IF q = NULL THEN TRUE ELSE p.aborted

\* The query of a noun, if it is a type and the database has it.
Query(noun) == IF noun \in DOMAIN Type THEN find_query_by_id(queries, noun) ELSE NULL
Read(r) == IF Query(input[r].noun) = NULL THEN NULL
           ELSE ReadPairs(Query(input[r].noun), input[r].pairs)
Deadly(r) == IF Query(input[r].noun) = NULL THEN FALSE ELSE Read(r).falls

\* A request comes in and its words are read.
Receive(r) ==
  LET q == Query(input[r].noun)
      p == Read(r) IN
  /\ up /\ pc[r] = "idle" /\ ~Deadly(r)
  /\ IF Refused(q, p)
     THEN Answers(r, StatusAnswer) /\ UNCHANGED <<db_query, parameters, errors>>
     ELSE /\ db_query' = [db_query EXCEPT ![r] = q]
          /\ parameters' = [parameters EXCEPT ![r] = p]
          /\ errors' = [errors EXCEPT ![r] = p.errors]
          /\ Goto(r, "connect") /\ UNCHANGED answer
  /\ UNCHANGED <<up, fixed, input, node, results, database, cut>>

\* The process dies of what it reads, and all its threads with it.
Falls(r) ==
  /\ up /\ pc[r] = "idle" /\ Deadly(r)
  /\ up' = FALSE
  /\ UNCHANGED <<fixed, pc, query, errors, node, results, database, answer, cut>>

-----------------------------------------------------------------------------
(* db_query_generate_sql_statement, and what the database makes of the statement *)

db_query_generate_sql_statement(q, p) ==
  [select |-> q.select_columns_string, from |-> q.tables, group_by |-> q.group_by,
   where |-> p.where, order_by |-> p.order_by, limit |-> p.limit,
   offset |-> IF p.limit = NULL THEN NULL ELSE p.offset]

Table(id) == FindById(Tables, id)

\* Every table after the first is joined by its foreign key to one before it.
Joinable(from) ==
  \A i \in 2 .. Len(from) :
    LET key == Table(from[i]).foreign_key
    IN key # NULL /\ \E j \in 1 .. (i - 1) : from[j] = key.to[1]

\* LIMIT takes a number, and a number may follow with OFFSET, or a pair.
PageIsValid(limit, offset) ==
  limit # NULL =>
    \/ limit.sort = "number" /\ (offset # NULL => offset.sort = "number")
    \/ limit.sort = "pair" /\ offset = NULL

Valid(stmt) ==
  /\ stmt.select # << >> \/ stmt.from # << >>
  /\ Joinable(stmt.from)
  /\ \A c \in Range(stmt.where) : c.value.sort = "number"
  /\ PageIsValid(stmt.limit, stmt.offset)

\* A row of a join is a function from the names of columns.
Named(id, row) == [name \in {<<id, c>> : c \in DOMAIN row} |-> row[name[2]]]
Empty(id) == [name \in {Name(Table(id).columns[j]) : j \in DOMAIN Table(id).columns} |-> 0]

Both(f, g) == [x \in DOMAIN f \cup DOMAIN g |-> IF x \in DOMAIN f THEN f[x] ELSE g[x]]

\* LEFT JOIN: the row with that key, or one of NULLs.
LeftJoin(rows, id) ==
  LET key == Table(id).foreign_key
      match(row) == SelectSeq(TableRows[id], LAMBDA x : x[key.from[2]] = row[key.to])
  IN [i \in DOMAIN rows |->
        Both(rows[i], IF match(rows[i]) = << >> THEN Empty(id) ELSE Named(id, Head(match(rows[i]))))]

Join(from) ==
  IF from = << >> THEN << << >> >>
  ELSE FoldLeft(LeftJoin, [i \in DOMAIN TableRows[from[1]] |-> Named(from[1], TableRows[from[1]][i])], Tail(from))

\* One row is kept for each group, whichever comes first.
Grouped(rows, names) ==
  IF names = << >> THEN rows
  ELSE FoldLeft(LAMBDA kept, row :
         IF \E i \in DOMAIN kept : \A j \in DOMAIN names : kept[i][names[j]] = row[names[j]]
         THEN kept ELSE Append(kept, row), << >>, rows)

\* By the first key in which they differ.
Precedes(a, b, keys) ==
  \E i \in DOMAIN keys :
    /\ \A j \in 1 .. (i - 1) : a[keys[j].name] = b[keys[j].name]
    /\ IF keys[i].desc THEN a[keys[i].name] > b[keys[i].name] ELSE a[keys[i].name] < b[keys[i].name]

\* Behind all rows it does not precede.
Insert(rows, row, keys) ==
  LET before == SelectSeq(rows, LAMBDA x : ~Precedes(row, x, keys))
      after == SelectSeq(rows, LAMBDA x : Precedes(row, x, keys))
  IN before \o <<row>> \o after

Ordered(rows, keys) == FoldLeft(LAMBDA s, row : Insert(s, row, keys), << >>, rows)

\* LIMIT and OFFSET.
Skip(limit, offset) ==
  IF limit.sort = "pair" THEN limit.skip ELSE IF offset = NULL THEN 0 ELSE offset.n
Paged(rows, limit, offset) ==
  IF limit = NULL THEN rows
  ELSE SubSeq(rows, Skip(limit, offset) + 1, Min({Skip(limit, offset) + limit.n, Len(rows)}))

Cell(row, name) == IF name[2] = NULL THEN Len(TableRows[name[1]]) ELSE row[name]

\* The rows of the joined tables that fulfil all conditions.
Found(from, conditions) ==
  SelectSeq(Join(from), LAMBDA row : \A c \in conditions : row[c.name] = c.value.n)

\* Of each group of those one, by their keys, and the page of that.
RowsOf(from, conditions, group_by, keys, limit, offset) ==
  Paged(Ordered(Grouped(Found(from, conditions), group_by), keys), limit, offset)

\* "*" is selected while there are no columns; nobody looks at those results.
Execute(stmt) ==
  LET rows == RowsOf(stmt.from, Range(stmt.where), stmt.group_by, stmt.order_by,
                     stmt.limit, stmt.offset)
  IN [i \in DOMAIN rows |-> [j \in DOMAIN stmt.select |-> Cell(rows[i], stmt.select[j])]]

-----------------------------------------------------------------------------
(* db_config_get_connection, db_query_run *)

\* The run failed: the report of the request joins that of the database.
Failed(r) ==
  /\ db_errors' = TRUE
  /\ Answers(r, StatusAnswer)

\* The head of the list is read, without a lock; no connection is ever put back.
ReadHead(r) ==
  /\ up /\ pc[r] = "connect" /\ head \in Conns
  /\ node' = [node EXCEPT ![r] = head]
  /\ Goto(r, "take")
  /\ UNCHANGED <<up, fixed, query, errors, results, database, answer, cut>>

NoConnection(r) ==
  /\ up /\ pc[r] = "connect" /\ head \notin Conns
  /\ Failed(r)
  /\ UNCHANGED <<up, fixed, query, errors, node, results, head, mutex, cursor, cut>>

\* The head is set behind the node, whatever others have made of it meanwhile.
TakeConnection(r) ==
  /\ up /\ pc[r] = "take"
  /\ head' = node[r] + 1
  /\ Goto(r, "lock")
  /\ UNCHANGED <<up, fixed, query, errors, node, results, mutex, cursor, db_errors, answer, cut>>

\* The mutex of the connection keeps those apart that took the same one.
Lock(r) ==
  /\ up /\ pc[r] = "lock" /\ mutex[node[r]] = NULL
  /\ mutex' = [mutex EXCEPT ![node[r]] = r]
  /\ Goto(r, "select")
  /\ UNCHANGED <<up, fixed, query, errors, node, results, head, cursor, db_errors, answer, cut>>

Unlock(r) == mutex' = [mutex EXCEPT ![node[r]] = NULL]

Statement(r) == db_query_generate_sql_statement(db_query[r], parameters[r])

\* The connection runs one statement; its rows wait there to be read.
Select(r) ==
  /\ up /\ pc[r] = "select" /\ Valid(Statement(r))
  /\ cursor' = [cursor EXCEPT ![node[r]] = Execute(Statement(r))]
  /\ Goto(r, "fetch")
  /\ UNCHANGED <<up, fixed, query, errors, node, results, head, mutex, db_errors, answer, cut>>

\* Mutated: the return after a failed statement leaves the mutex locked.
SelectFails_Locked(r) ==
  /\ up /\ pc[r] = "select" /\ (~Valid(Statement(r)) \/ "select" \in Faults)
  /\ Failed(r)
  /\ UNCHANGED <<up, fixed, query, errors, node, results, head, mutex, cursor, cut>>

SelectFails(r) ==
  /\ up /\ pc[r] = "select" /\ (~Valid(Statement(r)) \/ "select" \in Faults)
  /\ Failed(r) /\ Unlock(r)
  /\ UNCHANGED <<up, fixed, query, errors, node, results, head, cursor, cut>>

\* The rows before the n-th.
Before(rows, n) == Restrict(rows, {i \in DOMAIN rows : i < n})

\* Mutated: the row that the start of the loop gets is not copied.
Fetch_SkipsFirst(r) ==
  /\ up /\ pc[r] = "fetch"
  /\ LET all == cursor[node[r]]
     IN /\ results' = [results EXCEPT ![r] = SubSeq(all, 2, Len(all))]
        /\ cut' = cut
  /\ Unlock(r)
  /\ Goto(r, "answer")
  /\ UNCHANGED <<up, fixed, query, errors, node, head, cursor, db_errors, answer>>

\* apr_dbd_get_row until it returns no row, be it that there are no more or that the
\* connection is lost.
Fetch(r) ==
  /\ up /\ pc[r] = "fetch"
  /\ LET all == cursor[node[r]]
     IN \/ results' = [results EXCEPT ![r] = all] /\ cut' = cut
        \/ /\ "lost" \in Faults /\ cut' = cut \cup {r}
           /\ \E n \in DOMAIN all : results' = [results EXCEPT ![r] = Before(all, n)]
  /\ Unlock(r)
  /\ Goto(r, "answer")
  /\ UNCHANGED <<up, fixed, query, errors, node, head, cursor, db_errors, answer>>

-----------------------------------------------------------------------------
(* The answer *)

\* get_column_results_for_row for the first row: where the column is in the list
\* there is its value in the results.
get_column_results_for_row(r, column) ==
  results[r][1][CHOOSE i \in DOMAIN db_query[r].select_columns : db_query[r].select_columns[i] = column]

\* output_db_result_json: each value under the name its column has for people.
output_db_result_json(r) ==
  [j \in DOMAIN results[r] |-> [i \in DOMAIN db_query[r].select_columns |->
     [label |-> db_query[r].select_columns[i].fname, value |-> results[r][j][i]]]]

Kind(r) == Type[input[r].noun]

\* output_db_query_json and output_dirsync_status; the first shows what was ever
\* reported to the database too.
PrintRows(r) ==
  /\ up /\ pc[r] = "answer" /\ Kind(r) \in {"rows", "sync"}
  /\ Answers(r, [kind |-> Kind(r), rows |-> output_db_result_json(r),
                 errors |-> errors[r] \/ (Kind(r) = "rows" /\ db_errors)])
  /\ UNCHANGED <<up, fixed, query, errors, node, results, database, cut>>

\* The columns pull_song and transcode_audio look for in the query.
PullColumns == <<<<"sources", "path">>, <<"sources", "type">>>>
Needed(r) ==
  IF Kind(r) = "pull" THEN PullColumns
  ELSE PullColumns \o <<<<"links", "songid">>, <<"links", "artistid">>, <<"links", "albumid">>>>

Selected(r, name) ==
  find_select_column_from_query_by_table_id_and_query_id(db_query[r], name[1], name[2])

Usable(r) ==
  /\ \A i \in DOMAIN Needed(r) : Selected(r, Needed(r)[i]) # NULL
  /\ 1 \in DOMAIN results[r]
  /\ get_column_results_for_row(r, Selected(r, Needed(r)[IF Kind(r) = "pull" THEN 1 ELSE 2])) # 0

\* pull_song sends the file of the first row, and nothing else: what was reported is
\* not shown.
HandRow(r) ==
  /\ up /\ pc[r] = "answer" /\ Kind(r) = "pull" /\ Usable(r)
  /\ Answers(r, [kind |-> "pull", errors |-> FALSE, rows |-> <<
        [i \in DOMAIN PullColumns |-> get_column_results_for_row(r, Selected(r, PullColumns[i]))] >>])
  /\ UNCHANGED <<up, fixed, query, errors, node, results, database, cut>>

\* There is no such column or row, or no such file.  For a job there are no parameters,
\* or none that gives the type of the output: the custom ones are never set.
HandFails(r) ==
  /\ up /\ pc[r] = "answer"
  /\ Kind(r) = "transcode" \/ (Kind(r) = "pull" /\ (~Usable(r) \/ "open" \in Faults))
  /\ Answers(r, StatusAnswer)
  /\ UNCHANGED <<up, fixed, query, errors, node, results, database, cut>>

\* Or transcode_audio looks for the type of the output in a list that is NULL.
LooksForOutputType(r) ==
  /\ up /\ pc[r] = "answer" /\ Kind(r) = "transcode" /\ Usable(r) /\ input[r].pairs # << >>
  /\ up' = FALSE
  /\ UNCHANGED <<fixed, pc, query, errors, node, results, database, answer, cut>>

Serve(r) ==
  \/ Receive(r) \/ Falls(r) \/ ReadHead(r) \/ NoConnection(r) \/ TakeConnection(r) \/ Lock(r)
  \/ Select(r) \/ SelectFails(r) \/ Fetch(r) \/ PrintRows(r) \/ HandRow(r) \/ HandFails(r)
  \/ LooksForOutputType(r)

Stopped == ~up \/ \A r \in Threads : pc[r] = "done"

Next == (\E r \in Threads : Serve(r)) \/ (Stopped /\ UNCHANGED vars)

Spec == Init /\ [][Next]_vars

-----------------------------------------------------------------------------
(* Properties *)

\* What the document names for a query, read as it is written; of several group_by
\* the last one counts.
TablesNamed(elem) ==
  FlattenSeq([i \in DOMAIN elem.children |->
    IF elem.children[i].kind = "table" THEN <<elem.children[i].id>> ELSE << >>])
NamesIn(child) ==
  CASE child.kind = "table" -> [j \in DOMAIN child.columns |-> <<child.id, child.columns[j]>>]
    [] child.kind = "count" -> [j \in DOMAIN child.tables |-> CountName(child.tables[j])]
    [] OTHER -> << >>
ColumnsNamed(elem) == FlattenSeq([i \in DOMAIN elem.children |-> NamesIn(elem.children[i])])
GroupNamed(elem) ==
  LET places == {i \in DOMAIN elem.children : elem.children[i].kind = "group_by"}
  IN IF places = {} THEN << >> ELSE elem.children[Max(places)].columns

Label(name) == IF name[2] = NULL THEN <<name[1], "Count">>
               ELSE FindById(Table(name[1]).columns, name[2]).fname

\* Every table and column named is there.
WellFormedChild(child) ==
  /\ child.kind = "table" =>
       /\ Table(child.id) # NULL
       /\ \A j \in DOMAIN child.columns : FindById(Table(child.id).columns, child.columns[j]) # NULL
  /\ child.kind = "count" => \A j \in DOMAIN child.tables : Table(child.tables[j]) # NULL
WellFormed(elem) ==
  elem # NULL /\ \A i \in DOMAIN elem.children : WellFormedChild(elem.children[i])

\* What the words ask for, read as they are said: a name of a column makes a condition
\* and they all hold, the sort keys count in their order, and of limit and offset the
\* last one does, of offset only if there is a limit.  A pair is a limit with its offset.
Meant(elem, fname) ==
  find_column_from_query_by_friendly_name([tables |-> TablesNamed(elem)], fname)
IsClause(elem, pair, name) == pair.name = name /\ Meant(elem, name) = NULL
LastSaid(elem, pairs, name) ==
  LET places == {i \in DOMAIN pairs : IsClause(elem, pairs[i], name)}
  IN IF places = {} THEN NULL ELSE pairs[Max(places)].value
KeysIn(elem, pair) ==
  IF IsClause(elem, pair, "sort_by")
  THEN [j \in DOMAIN pair.value.keys |->
          [name |-> Name(Meant(elem, pair.value.keys[j].fname)), desc |-> pair.value.keys[j].desc]]
  ELSE << >>
KeysSaid(elem, pairs) == FlattenSeq([i \in DOMAIN pairs |-> KeysIn(elem, pairs[i])])
ConditionsSaid(elem, pairs) ==
  {[name |-> Name(Meant(elem, pairs[i].name)), value |-> pairs[i].value] :
     i \in {i \in DOMAIN pairs : Meant(elem, pairs[i].name) # NULL}}

\* No word asks for what is not there, or in a way that is not supported.
Sensible(elem, pairs) ==
  /\ Joinable(TablesNamed(elem))
  /\ \A i \in DOMAIN pairs :
       /\ Meant(elem, pairs[i].name) # NULL \/ pairs[i].name \in {"limit", "offset", "sort_by"}
       /\ IsClause(elem, pairs[i], "sort_by") =>
            \A j \in DOMAIN pairs[i].value.keys : Meant(elem, pairs[i].value.keys[j].fname) # NULL
  /\ \A c \in ConditionsSaid(elem, pairs) : c.value.sort = "number"
  /\ LET limit == LastSaid(elem, pairs, "limit")
         offset == LastSaid(elem, pairs, "offset")
     IN limit # NULL => IF limit.sort = "pair" THEN offset = NULL
                        ELSE \A v \in {limit, offset} : v # NULL => v.sort = "number"

RowsAsked(elem, pairs) ==
  RowsOf(TablesNamed(elem), ConditionsSaid(elem, pairs), GroupNamed(elem), KeysSaid(elem, pairs),
         LastSaid(elem, pairs, "limit"), LastSaid(elem, pairs, "offset"))

\* For each document and each request to it, whether it makes sense, and the rows asked
\* for then.  Of a query whose element names a table or column that is not there, or of
\* none, nothing is said.
Asked == [d \in Documents |-> [i \in Inputs |->
  LET elem == FindById(d, i.noun)
      known == WellFormed(elem)
      sensible == IF known THEN Sensible(elem, i.pairs) ELSE FALSE
  IN [known |-> known, sensible |-> sensible,
      names |-> IF known THEN ColumnsNamed(elem) ELSE << >>,
      rows |-> IF sensible THEN RowsAsked(elem, i.pairs) ELSE << >>]]]

\* The rows of an answer: each value under its own name; of a song that is pulled, what
\* the first of them says of its file.
RowsShown(r, asked) ==
  IF Kind(r) \in {"rows", "sync"}
  THEN [j \in DOMAIN asked.rows |-> [i \in DOMAIN asked.names |->
         [label |-> Label(asked.names[i]), value |-> Cell(asked.rows[j], asked.names[i])]]]
  ELSE <<[i \in DOMAIN PullColumns |-> asked.rows[1][PullColumns[i]]]>>

\* An answer that reports no error is the answer to its request, whichever requests
\* share the connection: the rows asked for, in the order and of the page asked
\* for.  What makes no sense is never answered without an error.  Excepted are the file
\* of the first row, which is sent without the report if a condition could not be added
\* to the query, and rows after the one at which the connection was lost (db_query.c):
\* those before it are right.
AnswerFits ==
  \A r \in Threads :
    LET asked == Asked[document][input[r]]
        shown == RowsShown(r, asked)
    IN answer[r] # NULL /\ ~answer[r].errors /\ asked.known /\ (answer[r].kind = "pull" => ~errors[r]) =>
         /\ asked.sensible
         /\ \/ answer[r].rows = shown
            \/ r \in cut /\ \E n \in DOMAIN shown : answer[r].rows = Before(shown, n)

\* Every return of db_query_run unlocks: a mutex is held by a thread that runs a
\* statement on that connection, so that no request waits for one that is answered.
LockReleased ==
  \A c \in Conns : mutex[c] # NULL =>
    pc[mutex[c]] \in {"select", "fetch"} /\ node[mutex[c]] = c

=============================================================================
