----------------------------- MODULE MCServers ------------------------------
(* A small world for the servers.                                          *)
EXTENDS Servers

Request(method, path, query, body) ==
  [method |-> method, path |-> path, query |-> query, body |-> body, remote |-> "peer"]

Asks(method, path) == Request(method, path, <<>>, None)
Posts(path, body) == Request("POST", path, <<>>, body)

Num(arm, n) == [arm |-> arm, num |-> n]

Route(method, pattern, handler, names, kind, status, priority) ==
  [method |-> method, pattern |-> pattern, handler |-> handler, names |-> names,
   kind |-> kind, status |-> status, priority |-> priority]

Sql(names) == Route("*", "*", "sql", names, "sql", Num("int32", 201), 0)

SeedRow == Route("GET", "/hello", "sql", <<>>, "sql", Num("int32", 200), 0)
AddedRow == Route("POST", "/a", "sql", <<"body", "path", "body">>, "sql", Num("int64", 700), 1)

Table(schema, rows) == [schema |-> schema, rows |-> rows]

Setup(server, requests, init, handlers, durable, bytes, file) ==
  [server |-> server, requests |-> requests, init |-> init, safe |-> TRUE,
   handlers |-> handlers, durable |-> durable, bytes |-> bytes, file |-> file]

Plain(server, requests) == Setup(server, requests, FALSE, None, FALSE, FALSE, NoTable)

Memory == Setup("httpd", {Asks("GET", "/hello"), Posts("/sql", "insert")},
                TRUE, None, FALSE, FALSE, NoTable)

AllSetups ==
  {Plain("console", {Asks("GET", "/"), Posts("/api/query", "select"), Asks("GET", "/favicon.ico"),
                     Asks("GET", "/hello")}),
   Plain("ui", {Asks("GET", "/"), Posts("/ddb/run", "select"), Posts("/", "select")}),
   Plain("quack", {Asks("GET", "/"), Asks("OPTIONS", "/quack"), Posts("/quack", "select"),
                   Asks("GET", "/quack")}),
   Memory, [Memory EXCEPT !.init = FALSE, !.safe = FALSE],
   Setup("httpd", {Posts("/sql", "insert"), Posts("/sql", "delete"), Posts("/a", "text")},
         TRUE, None, TRUE, FALSE, NoTable),
   Setup("httpd", {Asks("GET", "/health"), Asks("GET", "/schema/t"), Asks("GET", "/schema/"),
                   Asks("GET", "/tables"), Posts("/schema/t", "binary"), Posts("/sql", "binary")},
         FALSE, None, TRUE, TRUE, NoTable),
   Setup("httpd", {Request("GET", "/sql", <<<<"x", "1">>, <<"q", "select">>>>, None),
                   Request("GET", "/sql", <<<<"q", None>>, <<"q", "select">>>>, None),
                   Request("GET", "/sql", <<<<"q", "select">>>>, "text"),
                   Request("GET", "/a", <<<<"x", "1">>>>, None)},
         TRUE, {"up"}, TRUE, TRUE,
         Table("legacy", <<Sql(<<"query", "method", "query", "remote">>)>>)),
   Setup("httpd", {Asks("GET", "/a"), Posts("/hello", "binary")}, TRUE, {"up"}, TRUE, FALSE,
         Table("current", <<Sql(<<"path", "other", "body">>),
                            Route("GET", "/a", "up", <<>>, "wasm", Num("int32", 200), 0)>>)),
   Setup("httpd", {Asks("GET", "/a"), Asks("GET", "/hello"), Posts("/a", "text")},
         TRUE, {"down"}, TRUE, TRUE,
         Table("current", <<Route("GET", "/a", "text", <<>>, "static", Num("int64", 404), 4),
                            Route("GET", "*", "up", <<>>, "wasm", Num("int64", 200), 3),
                            Route("POST", "*", "sql", <<"body">>, "blob", Num("int64", 200), 3)>>))}

Result(rows, cols, status, blob) == [rows |-> rows, cols |-> cols, status |-> status, blob |-> blob]

AllResults ==
  {Result(0, {"x"}, Num("null", 0), FALSE), Result(1, {"x"}, Num("null", 0), TRUE),
   Result(1, {"status", "body"}, Num("int64", 418), FALSE),
   Result(2, {"x", "y"}, Num("null", 0), FALSE)}

AllSayings ==
  {[kind |-> "error", status |-> Num("null", 0)], [kind |-> "text", status |-> Num("null", 0)],
   [kind |-> "object", status |-> Num("int64", 201)]}

Globbed == {<<"*", p>> : p \in {"/a", "/hello", "cut"}} \cup {<<"/a", "/a">>, <<"/hello", "/hello">>}
=============================================================================
