------------------------------- MODULE Servers ------------------------------
(***************************************************************************)
(* The servers in front of the core: duckdb-wasm-httpd (httpd.rs,          *)
(* handler.rs), the SQL console and the DuckDB UI (ui_server.rs), and the  *)
(* quack RPC server (quack_server.rs).  Each is one loop that accepts a    *)
(* connection, reads one request, asks its one core, answers and closes.   *)
(*                                                                         *)
(* A request arrives in pieces, and a client can stop after any of them,   *)
(* close its side or stay silent.  External: the kernel's queue, GLOB and  *)
(* SQL, of which a statement's effect on the routes table is left, the     *)
(* bridged handlers inside the core, the files and the site of the UI.     *)
(* Transactions that a request leaves open are not modelled.               *)
(***************************************************************************)
EXTENDS HttpRoutes

CONSTANTS
  Clients,
  Setups,      \* the command lines, each with the database file and the clients' requests
  Results,     \* what SELECT returns
  Sayings,     \* what a handler component returns
  Seed,        \* the row of the demo route
  Added,       \* the row that an INSERT of an operator adds
  MaxStarts    \* bound: starts of the server

Schemas == {"none", "legacy", "current"}

(* A row is the demo route at most once in the file, and no INSERT of an   *)
(* operator adds it.                                                       *)
ASSUME ServersAssumption ==
  /\ None \notin Clients
  /\ {Seed, Added} \subseteq Rows /\ Seed # Added
  /\ MaxStarts \in Nat
  /\ \A s \in Setups :
       /\ s.server \in {"httpd", "console", "ui", "quack"} /\ s.requests \subseteq Requests
       /\ s.file.schema \in Schemas /\ s.file.rows \in Seq(Rows)
       /\ s.file = [schema |-> s.file.schema, rows |-> s.file.rows]
       /\ \A i, j \in DOMAIN s.file.rows :
            s.file.rows[i] = Seed /\ s.file.rows[j] = Seed => i = j

VARIABLES
  setup,       \* server, routes options, handlers, the file, the adapter's form of a blob
  up,          \* "down", "created", "seeded" or "listening"
  starts,      \* uses of the bound
  table,       \* the routes table
  core,        \* "ok" or "trapped", and then for good
  queue,       \* connections that are not accepted yet
  serving,     \* the connection that was accepted, until it is over
  stage,       \* its request is being "read" or "run", or its answer written ("write")
  asked,       \* what a client wants, until it is answered
  sent,        \* how many pieces of it have arrived
  closed,      \* the client has closed its side
  last         \* history: what the loop did in the last step

process == <<setup, up, starts, core>>
wire == <<asked, sent, closed>>
vars == <<process, table, queue, serving, stage, wire, last>>

NoTable == [schema |-> "none", rows |-> <<>>]
Server == setup.server
Listening == up = "listening"

-----------------------------------------------------------------------------
(* Reading a request.                                                      *)

Pieces(req) ==
  IF req.body = None THEN <<"half", "line", "blank">>
  ELSE <<"half", "line", "length", "rest">>

Arrived(c, piece) == \E k \in 1..sent[c] : Pieces(asked[c])[k] = piece
Complete(c) == sent[c] = Len(Pieces(asked[c]))

(* Faulty variant: a request goes on to the end of the stream.             *)
ReadToEnd(c) == closed[c]

(* Reading ends with the request, or with the stream.                      *)
Finished(c) == Complete(c) \/ closed[c]

(* A request line that is cut is taken as it is: of a target with a query  *)
(* the end of the query is missing, of another the end of the path.        *)
Cut(req) ==
  IF req.query = <<>> THEN [req EXCEPT !.path = "cut", !.body = None]
  ELSE [req EXCEPT !.query = Append(Front(@), <<Last(@)[1], "cut">>), !.body = None]

(* Faulty variant: as much of the body as there is.                        *)
ReadSome(c) ==
  IF sent[c] = 0 THEN None
  ELSE IF Complete(c) THEN asked[c]
  ELSE IF Arrived(c, "length") THEN [asked[c] EXCEPT !.body = "part"]
  ELSE IF Arrived(c, "line") THEN [asked[c] EXCEPT !.body = None]
  ELSE Cut(asked[c])

(* The end of the stream ends the request line and the headers, but not a  *)
(* body whose length is known. Nothing is answered if there is no request. *)
read_request(c) ==
  IF Complete(c) THEN asked[c]
  ELSE IF sent[c] = 0 \/ Arrived(c, "length") THEN None
  ELSE IF Arrived(c, "line") THEN [asked[c] EXCEPT !.body = None]
  ELSE Cut(asked[c])

-----------------------------------------------------------------------------
(* The core. A statement is accepted with a result and an effect on the    *)
(* table, or refused, or the core traps, before or after the statement has *)
(* taken effect; a trapped core refuses for ever. A text is one statement. *)

Accepted(r, t) ==
  [done |-> TRUE, ok |-> TRUE, unread |-> FALSE, result |-> r, table |-> t, core |-> "ok"]
Refused(t) ==
  [done |-> FALSE, ok |-> FALSE, unread |-> FALSE, result |-> None, table |-> t, core |-> "ok"]
Trapped(done, t) ==
  [done |-> done, ok |-> FALSE, unread |-> FALSE, result |-> None, table |-> t, core |-> "trapped"]

Nothing == CHOOSE r \in Results : r.rows = 0

Edited(rows) ==
  IF table.schema = "none" THEN {Refused(table)}
  ELSE {Accepted(Nothing, [table EXCEPT !.rows = rows])}

Effects(st) ==
  CASE st \in {"select", "catalog", "handler"} -> {Accepted(r, table) : r \in Results}
    [] st = "insert" ->
         Edited(IF Contains(table.rows, Added) THEN table.rows ELSE Append(table.rows, Added))
    [] st = "delete" -> Edited(<<>>)
    [] st = "cut" -> {Refused(table)} \cup Edited(<<>>)
    [] OTHER -> {Refused(table)}

(* A result that the host cannot read is an error, after the fact.         *)
Lifted(e) ==
  IF e.ok /\ e.result.blob /\ setup.bytes THEN [e EXCEPT !.ok = FALSE, !.unread = TRUE] ELSE e

db_query(st) ==
  LET before == Trapped(FALSE, table)
      after == {Trapped(e.done, e.table) : e \in Effects(st)}
  IN {before} \cup (IF core = "trapped" THEN {} ELSE after \cup {Lifted(e) : e \in Effects(st)})

-----------------------------------------------------------------------------
(* What a server makes of a request: its reply, what it ran, and what is   *)
(* left of the table and the core.                                         *)

Outcome(reply, did, t, c) == [reply |-> reply, did |-> did, table |-> t, core |-> c]
Fixed(reply) == {Outcome(reply, None, table, core)}
Did(text, e) ==
  [text |-> text, done |-> e.done, unread |-> e.unread, names |-> <<>>, params |-> <<>>]
Handled(m, req, e) ==
  [text |-> "handler", done |-> e.done, unread |-> e.unread, names |-> m.names,
   params |-> ordered_handler_params(m.names, req)]

(* The admin's SQL, and the console's, which says 200 in any case. Nothing *)
(* is run for an empty text.                                               *)
run_sql(st, failed) ==
  IF st = None THEN Fixed(Reply(200, "rows"))
  ELSE {Outcome(IF e.ok THEN Reply(200, "rows") ELSE Reply(failed, "error"),
                Did(st, e), e.table, e.core) : e \in db_query(st)}

run_query(st) == run_sql(st, 200)

(* Faulty variant: a handler that fails has no rows.                       *)
SwallowError(m, req) ==
  {Outcome(build_route_response(m, IF e.ok THEN e.result ELSE Nothing),
           Handled(m, req, e), e.table, e.core) : e \in db_query("handler")}

(* A handler of kind sql or blob is a prepared statement.                  *)
execute_sql(m, req) ==
  LET response(e) == IF ~e.ok THEN Reply(500, "error")
                     ELSE IF m.kind = "blob" THEN blob_response(m, e.result)
                     ELSE build_route_response(m, e.result)
  IN {Outcome(response(e), Handled(m, req, e), e.table, e.core) : e \in db_query("handler")}

execute_route(m, req) ==
  CASE m.kind = "static" -> Fixed(Reply(clamp_status(m.status), "body"))
    [] m.kind = "wasm" -> UNION {Fixed(execute_wasm(m, setup.handlers, s)) : s \in Sayings}
    [] OTHER -> execute_sql(m, req)

(* The first q decides; one without "=" is none.                           *)
parse_q(query) ==
  LET qs == {i \in DOMAIN query : query[i][1] = "q"}
  IN IF qs = {} THEN None ELSE query[Min(qs)][2]

(* The router, and "no such route" if it finds nothing or fails.           *)
route(req) ==
  LET unknown == Reply(404, "no such route")
      failed == {Outcome(unknown, None, table, "trapped")}
  IN IF ~setup.safe THEN Fixed(unknown)
     ELSE IF core = "trapped" THEN failed
     ELSE failed \cup
          UNION {IF m = None THEN Fixed(unknown) ELSE execute_route(m, req) :
                   m \in lookup(table, req)}

Admin(req) ==
  CASE <<req.method, req.path>> = <<"GET", "/health">> -> Fixed(Reply(200, "text"))
    [] <<req.method, req.path>> = <<"GET", "/tables">> -> run_sql("catalog", 422)
    [] <<req.method, req.path>> = <<"POST", "/sql">> ->
         IF req.body = "binary" THEN Fixed(Reply(400, "error")) ELSE run_sql(req.body, 422)
    [] <<req.method, req.path>> = <<"GET", "/sql">> ->
         IF parse_q(req.query) = None THEN Fixed(Reply(400, "error"))
         ELSE run_sql(parse_q(req.query), 422)
    [] OTHER -> Fixed(Reply(404, "no such route"))

Schema(req) ==
  IF req.method # "GET" THEN Fixed(Reply(404, "no such route"))
  ELSE IF req.path = "/schema/" THEN Fixed(Reply(400, "error"))
  ELSE run_sql("catalog", 422)

handle(req) ==
  IF req.path \in {"/schema/", "/schema/t"} THEN Schema(req)
  ELSE IF <<req.method, req.path>> \in Builtin THEN Admin(req)
  ELSE route(req)

-----------------------------------------------------------------------------
(* The other servers. Both bridges hand the core the whole request; a      *)
(* handler that traps, or that was not started, is "unbridged".            *)

Bridgings ==
  {Refused(table), Trapped(FALSE, table)}
    \cup (IF core = "ok" THEN {Accepted(Nothing, table), Trapped(TRUE, table)} ELSE {})

Bridged(st) ==
  {Outcome(IF e.ok THEN Reply(200, "body") ELSE Reply(503, "unbridged"),
           Did(IF st = None THEN "nothing" ELSE st, e),
           table, IF core = "trapped" THEN core ELSE e.core) : e \in Bridgings}

console(req) ==
  CASE <<req.method, req.path>> = <<"GET", "/">> -> Fixed(Reply(200, "page"))
    [] <<req.method, req.path>> = <<"POST", "/api/query">> ->
         run_query(IF req.body = "binary" THEN None ELSE req.body)
    [] <<req.method, req.path>> = <<"GET", "/favicon.ico">> -> Fixed(Reply(204, "empty"))
    [] OTHER -> Fixed(Reply(404, "not found"))

(* An asset is in the directory, or the page stands in for it, or not; the *)
(* site answers, or curl fails.                                            *)
Assets == {Reply(200, "body"), Reply(200, "page"), Reply(404, "not found"), Reply(502, "failed")}

ui(req) ==
  IF req.path = "/ddb/run" THEN Bridged(req.body)
  ELSE IF req.method = "GET" THEN UNION {Fixed(asset) : asset \in Assets}
  ELSE Fixed(Reply(404, "not found"))

quack(req) ==
  CASE <<req.method, req.path>> = <<"GET", "/">> -> Fixed(Reply(200, "text"))
    [] <<req.method, req.path>> = <<"OPTIONS", "/quack">> -> Fixed(Reply(204, "empty"))
    [] <<req.method, req.path>> = <<"POST", "/quack">> -> Bridged(req.body)
    [] OTHER -> Fixed(Reply(404, "not found"))

Dispatch(req) ==
  CASE Server = "httpd" -> handle(req)
    [] Server = "console" -> console(req)
    [] Server = "ui" -> ui(req)
    [] Server = "quack" -> quack(req)

-----------------------------------------------------------------------------
Init ==
  /\ setup \in Setups
  /\ up = "down" /\ starts = 0 /\ table = setup.file /\ core = "ok"
  /\ queue = <<>> /\ serving = None /\ stage = "read"
  /\ asked = [c \in Clients |-> None] /\ sent = [c \in Clients |-> 0]
  /\ closed = [c \in Clients |-> FALSE] /\ last = None

(* The server starts: a new core opens the database. Nothing is served     *)
(* under a name of the routes table that is none, if it is to be made; the *)
(* core's own server, which the bridges ask, is started before listening.  *)
Starts(next) ==
  /\ up = "down" /\ starts < MaxStarts
  /\ up' = next /\ starts' = starts + 1
  /\ core' = "ok" /\ last' = None
  /\ UNCHANGED <<setup, table, queue, serving, stage, wire>>

serve_httpd ==
  /\ Server = "httpd" /\ (setup.init => setup.safe)
  /\ Starts(IF setup.init THEN "opened" ELSE "ready")

serve_ui == Server \in {"console", "ui"} /\ Starts("ready")
serve_quack == Server = "quack" /\ Starts("ready")

Goes(from, to) ==
  /\ up = from /\ up' = to
  /\ UNCHANGED <<setup, starts, core, queue, serving, stage, wire, last>>

(* init_routes_table: CREATE TABLE IF NOT EXISTS, and a row if it has none; *)
(* a table without kinds refuses the row, and the server does not start.   *)
CreateTable ==
  /\ Goes("opened", "created")
  /\ table' = (IF table.schema = "none" THEN [schema |-> "current", rows |-> <<>>] ELSE table)

(* Faulty variant: the rows are not counted.                               *)
SeedAlways ==
  /\ Goes("created", "ready")
  /\ table.schema = "current"
  /\ table' = [table EXCEPT !.rows = Append(@, Seed)]

SeedTable ==
  /\ Goes("created", "ready")
  /\ table.rows = <<>> => table.schema = "current"
  /\ table' = (IF table.rows = <<>> THEN [table EXCEPT !.rows = <<Seed>>] ELSE table)

Listen == Goes("ready", "listening") /\ UNCHANGED table

Waits(c) == asked[c] # None

(* The connections of these clients are over.                              *)
Leave(C) ==
  /\ asked' = [c \in Clients |-> IF c \in C THEN None ELSE asked[c]]
  /\ sent' = [c \in Clients |-> IF c \in C THEN 0 ELSE sent[c]]
  /\ closed' = [c \in Clients |-> c \notin C /\ closed[c]]

(* A step of starting fails, or the process is killed.                     *)
Stop ==
  /\ up # "down"
  /\ up' = "down"
  /\ table' = (IF setup.durable THEN table ELSE NoTable)
  /\ queue' = <<>> /\ serving' = None /\ stage' = "read" /\ last' = None
  /\ Leave(Clients)
  /\ UNCHANGED <<setup, starts, core>>

-----------------------------------------------------------------------------
(* Clients.                                                                *)

Connect(c) ==
  /\ Listening /\ ~Waits(c)
  /\ \E req \in setup.requests : asked' = [asked EXCEPT ![c] = req]
  /\ queue' = Append(queue, c) /\ last' = None
  /\ UNCHANGED <<process, table, serving, stage, sent, closed>>

Send(c) ==
  /\ Waits(c) /\ ~closed[c] /\ ~Complete(c)
  /\ sent' = [sent EXCEPT ![c] = @ + 1] /\ last' = None
  /\ UNCHANGED <<process, table, queue, serving, stage, asked, closed>>

CloseSide(c) ==
  /\ Waits(c) /\ ~closed[c]
  /\ closed' = [closed EXCEPT ![c] = TRUE] /\ last' = None
  /\ UNCHANGED <<process, table, queue, serving, stage, asked, sent>>

-----------------------------------------------------------------------------
(* The loop.                                                               *)

Accept ==
  /\ Listening /\ serving = None /\ queue # <<>>
  /\ serving' = Head(queue) /\ queue' = Tail(queue) /\ last' = None
  /\ UNCHANGED <<process, table, stage, wire>>

(* An error of accept, or of the TLS setup: the next one's turn.           *)
AcceptFails ==
  /\ Listening /\ serving = None /\ queue # <<>>
  /\ queue' = Tail(queue) /\ last' = None
  /\ Leave({Head(queue)})
  /\ UNCHANGED <<process, table, serving, stage>>

Reads == serving # None /\ stage = "read" /\ Finished(serving)

Done ==
  /\ serving' = None /\ stage' = "read" /\ last' = None
  /\ Leave({serving})
  /\ UNCHANGED <<process, table, queue>>

(* There is no request: the connection is closed without an answer.        *)
Drop == Reads /\ read_request(serving) = None /\ Done

(* The request goes to its handler.                                        *)
Begin ==
  /\ Reads /\ read_request(serving) # None
  /\ stage' = "run" /\ last' = None
  /\ UNCHANGED <<process, table, queue, serving, wire>>

(* The handler returns. Nothing limits how long a statement, a component   *)
(* or curl takes.                                                          *)
Serve ==
  /\ serving # None /\ stage = "run"
  /\ stage' = "write"
  /\ \E o \in Dispatch(read_request(serving)) :
       /\ last' = [asked |-> asked[serving], whole |-> Complete(serving),
                   reply |-> o.reply, did |-> o.did]
       /\ table' = o.table /\ core' = o.core
  /\ UNCHANGED <<setup, up, starts, queue, serving, wire>>

(* The answer is written, or the client is gone; a client that stays and   *)
(* does not read can keep the server writing.                              *)
Write == serving # None /\ stage = "write" /\ Done

Loop == Accept \/ AcceptFails \/ Drop \/ Begin

Next ==
  \/ serve_httpd \/ serve_ui \/ serve_quack
  \/ CreateTable \/ SeedTable \/ Listen \/ Stop \/ Loop \/ Serve \/ Write
  \/ \E c \in Clients : Connect(c) \/ Send(c) \/ CloseSide(c)

Spec == Init /\ [][Next]_vars /\ WF_vars(Loop)

-----------------------------------------------------------------------------
(* Properties.                                                             *)

(* The loop waits for one client or one handler: a connection that is read *)
(* stays open without a whole request, a handler runs, or an answer is     *)
(* written. None of them has a timeout.                                    *)
Stalled ==
  /\ serving # None
  /\ stage = "read" => ~Complete(serving) /\ ~closed[serving]

(* No client is forgotten, whatever becomes of the others' requests: who   *)
(* connected is answered or dropped, unless the loop waits for one of them *)
(* for ever.                                                               *)
Served == []<>~Stalled => \A c \in Clients : Waits(c) ~> ~Waits(c)

Executed == IF last = None THEN None ELSE last.did

(* Of a client that is cut off while it sends the body of a request, no    *)
(* part of the body is executed or bound to a handler's parameter: what is *)
(* executed is the server's own, or comes from the target of the request.  *)
WholeBody ==
  Executed # None /\ last.asked.body # None /\ ~last.whole =>
    /\ \/ Executed.text \in {"catalog", "handler", "nothing", "cut"}
       \/ \E pair \in ToSet(last.asked.query) : Executed.text = pair[2]
    /\ \A field \in ToSet(Executed.params) : field # None /\ field[1] = "body" => field[2] = None

(* Each `$name` of a handler is bound to that field of the client's own    *)
(* request, however often and in whatever order the names occur, as far as *)
(* the names before it are the server's.                                   *)
Bound ==
  Executed # None /\ last.whole =>
    \A i \in DOMAIN Executed.names :
      (\A j \in 1..i : Executed.names[j] \in Names) =>
        BoundTo(Executed.names, Executed.params, i) = Field(last.asked, Executed.names[i])

(* However often the server is started, stopped and killed on the way, and *)
(* whatever is done to the routes, there is one demo route at most.        *)
SeededOnce ==
  \A i, j \in DOMAIN table.rows : table.rows[i] = Seed /\ table.rows[j] = Seed => i = j

(* An answer other than an error means that the core did what was asked of *)
(* it. An error means that it did not, or that its result holds a blob in  *)
(* the form that the host does not read, or that the core is trapped: then *)
(* the client cannot know, and every later statement is refused.           *)
Told ==
  Executed # None =>
    IF last.reply.form \in Errors THEN ~Executed.done \/ Executed.unread \/ core = "trapped"
    ELSE Executed.done
=============================================================================
