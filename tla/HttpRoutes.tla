----------------------------- MODULE HttpRoutes -----------------------------
(* How duckdb-wasm-httpd chooses the handler of a request from the routes  *)
(* table, what it binds to the handler's parameters, and what it makes of  *)
(* the handler's result (httpd.rs). SQL is a statement's effect on the     *)
(* table; a handler's text is its kind and the `$names` in it, in order.   *)
EXTENDS Integers, Sequences, SequencesExt

CONSTANTS
  None,
  Matching   \* the pairs <<pattern, path>> that GLOB accepts

Text == STRING \cup {None}
Requests == [method : STRING, path : STRING, query : Seq(STRING \X Text), body : Text, remote : STRING]
Rows == [method : STRING, pattern : STRING, handler : STRING, names : Seq(STRING), kind : STRING,
         status : [arm : STRING, num : Int], priority : Int]

ASSUME RoutesAssumption == None \notin STRING /\ None \notin Requests

Names == {"method", "path", "query", "body", "remote"}
Builtin == {<<"GET", "/health">>, <<"GET", "/sql">>, <<"POST", "/sql">>, <<"GET", "/tables">>}

Reply(status, form) == [status |-> status, form |-> form]
Errors == {"error", "unbridged"}

clamp_status(s) == IF s \in 100..599 THEN s ELSE 200
RouteKind(k) == IF k \in {"static", "wasm", "blob"} THEN k ELSE "sql"

(* A status column counts if its value is a 64-bit integer.                *)
dv_as_i64(v) == IF v.arm \in {"int64", "uint64"} THEN v.num ELSE None
StatusOr(v, status) == IF dv_as_i64(v) = None THEN status ELSE clamp_status(dv_as_i64(v))

-----------------------------------------------------------------------------
(* lookup: the rows that one query returns, and its LIMIT 1.               *)

Matches(row, req) ==
  row.method \in {req.method, "*"} /\ <<row.pattern, req.path>> \in Matching

Length(pattern) == IF pattern = "*" THEN 1 ELSE 2

Before(p, q) ==
  \/ p.priority > q.priority
  \/ p.priority = q.priority /\ Length(p.pattern) > Length(q.pattern)

(* The routes it may return: with a table from before there were kinds,    *)
(* the query is repeated without the kind. Nothing is found in a table     *)
(* that is missing, and a row without a handler ends the search.           *)
lookup(table, req) ==
  LET rows == {row \in ToSet(table.rows) : Matches(row, req)}
      best == {p \in rows : \A q \in rows : ~Before(q, p)}
      kinds == [p \in best |-> IF table.schema = "legacy" THEN "sql" ELSE RouteKind(p.kind)]
  IN IF best = {} THEN {None}
     ELSE {IF p.handler = "" THEN None
           ELSE [p EXCEPT !.kind = kinds[p],
                          !.status = IF dv_as_i64(@) = None THEN 200 ELSE dv_as_i64(@)] : p \in best}

-----------------------------------------------------------------------------
(* The parameters of a handler. A body that is absent is the empty text.   *)

Field(req, name) ==
  CASE name = "query" -> IF req.query = <<>> THEN None ELSE <<name, req.query>>
    [] name = "body" -> IF req.body = "binary" THEN None ELSE <<name, req.body>>
    [] name = "remote" -> <<name, req.remote>>
    [] name = "method" -> <<name, req.method>>
    [] name = "path" -> <<name, req.path>>

(* Faulty variant: each occurrence of a name counts.                       *)
ParamsOfEachName(names, req) ==
  LET known == SelectSeq(names, LAMBDA name : name \in Names)
  IN [k \in DOMAIN known |-> Field(req, known[k])]

(* The known names, each where it appears first; the fields in that order. *)
Firsts(names) ==
  {i \in DOMAIN names : names[i] \in Names /\ \A j \in 1..(i - 1) : names[j] # names[i]}

Rank(names, i) == Cardinality({j \in Firsts(names) : j <= i})

ordered_handler_params(names, req) ==
  [k \in 1..Cardinality(Firsts(names)) |->
     Field(req, names[CHOOSE i \in Firsts(names) : Rank(names, i) = k])]

(* DuckDB's number of the i-th name: every name counts, once.              *)
Number(names, i) ==
  LET at == CHOOSE j \in DOMAIN names :
              names[j] = names[i] /\ \A k \in 1..(j - 1) : names[k] # names[i]
  IN Cardinality({names[j] : j \in 1..at})

(* What is bound to it: the parameters are cut or padded with NULL.        *)
BoundTo(names, params, i) ==
  IF Number(names, i) \in DOMAIN params THEN params[Number(names, i)] ELSE None

-----------------------------------------------------------------------------
(* Responses. A result has rows, columns, and in its first row a status.   *)

build_route_response(m, r) ==
  LET status == clamp_status(m.status)
      structured == r.rows = 1 /\ r.cols \cap {"body", "status", "ctype", "content_type"} # {}
  IN IF r.rows = 0 THEN Reply(204, "empty")
     ELSE IF structured THEN
       Reply(IF "status" \in r.cols THEN StatusOr(r.status, status) ELSE status,
             IF "body" \in r.cols THEN "body" ELSE "empty")
     ELSE Reply(status, IF r.rows > 1 THEN "array"
                        ELSE IF Cardinality(r.cols) = 1 THEN "value" ELSE "object")

(* The first column of the first row, or 404.                              *)
blob_response(m, r) ==
  IF r.rows = 0 THEN Reply(404, "not found") ELSE Reply(clamp_status(m.status), "value")

(* What a component returns: an error, text, or an object with a status.   *)
parse_handler_response(m, said) ==
  CASE said.kind = "error" -> Reply(500, "error")
    [] said.kind = "text" -> Reply(clamp_status(m.status), "value")
    [] said.kind = "object" -> Reply(StatusOr(said.status, clamp_status(m.status)), "body")

(* A name that was not loaded is an error like the component's own.        *)
invoke(registry, name, said) ==
  IF name \in registry THEN said ELSE [kind |-> "error"]

execute_wasm(m, registry, said) ==
  IF registry = None THEN Reply(501, "error")
  ELSE parse_handler_response(m, invoke(registry, m.handler, said))
=============================================================================
