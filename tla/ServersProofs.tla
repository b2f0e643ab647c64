---------------------------- MODULE ServersProofs ---------------------------
(* Theorems about Servers and HttpRoutes: what a server makes of a request *)
(* is the client's own, whole and told truly, for any clients, requests,   *)
(* routes and results, and any number of starts.                           *)
EXTENDS Servers, FiniteSetTheorems, WellFoundedInduction, TLAPS

Tables == [schema : Schemas, rows : Seq(Rows)]

TypeOK ==
  /\ setup \in Setups
  /\ table \in Tables
  /\ core \in {"ok", "trapped"}
  /\ up \in {"down", "opened", "created", "ready", "listening"}
  /\ starts \in Nat
  /\ queue \in Seq(Clients)
  /\ serving \in Clients \cup {None} /\ stage \in {"read", "run", "write"}
  /\ asked \in [Clients -> Requests \cup {None}]
  /\ sent \in [Clients -> Nat]
  /\ closed \in [Clients -> BOOLEAN]

(* A client is at most once in the queue or being served, and has asked.   *)
InLine ==
  /\ \A i \in DOMAIN queue : Waits(queue[i]) /\ queue[i] # serving
  /\ \A i, j \in DOMAIN queue : queue[i] = queue[j] => i = j
  /\ serving # None => Waits(serving)

(* What runs is a request that was read to its end.                        *)
Running ==
  stage = "run" => serving # None /\ Finished(serving) /\ read_request(serving) # None

(* A table with the demo route once at most.                               *)
One(t) == \A i, j \in DOMAIN t.rows : t.rows[i] = Seed /\ t.rows[j] = Seed => i = j

(* What the text of an execution may be: a handler of the routes table, a  *)
(* fixed text, the body or a value of the target.                          *)
Sourced(did, req) ==
  \/ did.text = "handler" /\ did.names \in Seq(STRING)
     /\ did.params = ordered_handler_params(did.names, req)
  \/ did.names = <<>> /\ did.params = <<>>
     /\ \/ did.text \in {"catalog", "nothing"}
        \/ did.text = req.body /\ req.body # None
        \/ did.text = parse_q(req.query) /\ parse_q(req.query) # None

(* The reply says of what was asked of the core whether it was done.       *)
Honest(reply, did, after) ==
  IF reply.form \in Errors THEN ~did.done \/ did.unread \/ after = "trapped" ELSE did.done

(* What every outcome of a request keeps.                                  *)
Sound(o, req) ==
  /\ o.table \in Tables /\ One(o.table)
  /\ o.core \in {"ok", "trapped"}
  /\ o.did # None => Honest(o.reply, o.did, o.core) /\ Sourced(o.did, req)

IInv == TypeOK /\ InLine /\ Running /\ SeededOnce /\ WholeBody /\ Bound /\ Told

-----------------------------------------------------------------------------
(* The parameters of a handler.                                            *)

(* A set of numbers that is not empty has a least one.                     *)
LEMMA Least ==
  ASSUME NEW S \in SUBSET Nat, S # {}
  PROVE  \E m \in S : \A n \in S : m <= n
<1>1. \E x \in S : \A y \in S : ~(<<y, x>> \in OpToRel(<, Nat))
  BY WFMin, NatLessThanWellFounded, Zenon
<1>2. PICK x \in S : \A y \in S : ~(<<y, x>> \in OpToRel(<, Nat))
  BY <1>1, Zenon
<1>3. \A y \in S : ~(y < x)
  BY <1>2, Zenon DEF OpToRel
<1> QED BY <1>3

(* Min finds it.                                                           *)
LEMMA MinIsLeast ==
  ASSUME NEW S \in SUBSET Nat, S # {}
  PROVE  Min(S) \in S
<1>1. \E m \in S : \A n \in S : m <= n
  BY Least
<1> QED BY <1>1 DEF Min

(* The names that come first are finitely many, as are those up to any.    *)
LEMMA FirstsFinite ==
  ASSUME NEW names \in Seq(STRING)
  PROVE  /\ IsFiniteSet(Firsts(names)) /\ Cardinality(Firsts(names)) \in Nat
         /\ \A i \in Firsts(names) :
              /\ IsFiniteSet({j \in Firsts(names) : j <= i})
              /\ Rank(names, i) \in 1..Cardinality(Firsts(names))
<1>1. IsFiniteSet(1..Len(names)) /\ Firsts(names) \in SUBSET (1..Len(names))
  <2>1. Len(names) \in Int /\ 1 \in Int /\ DOMAIN names = 1..Len(names)
    OBVIOUS
  <2> QED BY <2>1, FS_Interval, Zenon DEF Firsts
<1>2. IsFiniteSet(Firsts(names))
  BY <1>1, FS_Subset
<1>3. Cardinality(Firsts(names)) \in Nat
  BY <1>2, FS_CardinalityType
<1>4. ASSUME NEW i \in Firsts(names)
      PROVE  /\ IsFiniteSet({j \in Firsts(names) : j <= i})
             /\ Rank(names, i) \in 1..Cardinality(Firsts(names))
  <2> DEFINE S == {j \in Firsts(names) : j <= i}
  <2>1. S \in SUBSET Firsts(names)
    OBVIOUS
  <2>2. IsFiniteSet(S) /\ Cardinality(S) <= Cardinality(Firsts(names))
    BY <1>2, <2>1, FS_Subset
  <2>3. i \in S
    BY <1>1
  <2>4. Cardinality(S) \in Nat /\ Cardinality(S) # 0
    BY <2>2, <2>3, FS_CardinalityType, FS_EmptySet
  <2> QED BY <2>2, <2>4, <1>3 DEF Rank
<1> QED BY <1>2, <1>3, <1>4

(* Two names that come first have different ranks.                         *)
LEMMA RanksDiffer ==
  ASSUME NEW names \in Seq(STRING), NEW i \in Firsts(names), NEW h \in Firsts(names),
         Rank(names, i) = Rank(names, h)
  PROVE  i = h
<1>1. ASSUME NEW a \in Firsts(names), NEW b \in Firsts(names), a < b,
             Rank(names, a) = Rank(names, b)
      PROVE  FALSE
  <2> DEFINE A == {j \in Firsts(names) : j <= a}
             B == {j \in Firsts(names) : j <= b}
  <2>1. a \in Int /\ b \in Int /\ Firsts(names) \subseteq Int
    BY DEF Firsts
  <2>2. A \in SUBSET B /\ b \in B /\ b \notin A
    BY <1>1, <2>1
  <2>3. IsFiniteSet(B) /\ Cardinality(A) = Cardinality(B)
    BY <1>1, FirstsFinite DEF Rank
  <2>4. A = B
    BY <2>2, <2>3, FS_Subset
  <2> QED BY <2>2, <2>4
<1>2. i \in Int /\ h \in Int
  BY DEF Firsts
<1> QED BY <1>1, <1>2

(* Every number up to their count is the rank of one of them.              *)
LEMMA RanksCover ==
  ASSUME NEW names \in Seq(STRING), NEW k \in 1..Cardinality(Firsts(names))
  PROVE  \E i \in Firsts(names) : Rank(names, i) = k
<1> DEFINE S == Firsts(names)
           n == Cardinality(S)
           f == [i \in S |-> Rank(names, i)]
<1>1. n \in Nat /\ IsFiniteSet(S)
  BY FirstsFinite
<1>2. f \in Injection(S, 1..n)
  <2>1. f \in [S -> 1..n]
    BY FirstsFinite
  <2>2. \A a, b \in S : f[a] = f[b] => a = b
    BY RanksDiffer
  <2> QED BY <2>1, <2>2 DEF Injection, IsInjective
<1>3. IsFiniteSet(1..n) /\ Cardinality(1..n) = n
  BY <1>1, FS_Interval
<1>4. f \in Surjection(S, 1..n)
  <2> HIDE DEF f, n, S
  <2>1. Cardinality(S) = Cardinality(1..n)
    BY <1>3 DEF n
  <2> QED BY <1>2, <1>3, <2>1, FS_Injection
<1>5. \E i \in S : f[i] = k
  BY <1>4 DEF Surjection
<1> QED BY <1>5

(* Each parameter is a field of the request.                               *)
LEMMA ParamsAreFields ==
  ASSUME NEW names \in Seq(STRING), NEW req,
         NEW param \in ToSet(ordered_handler_params(names, req))
  PROVE  \E name \in Names : param = Field(req, name)
<1>1. PICK k \in 1..Cardinality(Firsts(names)) :
        param = Field(req, names[CHOOSE i \in Firsts(names) : Rank(names, i) = k])
  BY DEF ToSet, ordered_handler_params
<1> DEFINE i == CHOOSE i \in Firsts(names) : Rank(names, i) = k
<1>2. i \in Firsts(names)
  BY RanksCover
<1>3. names[i] \in Names
  BY <1>2 DEF Firsts
<1> QED BY <1>1, <1>3
(* Where a name of a handler is first.                                     *)
LEMMA FirstPlace ==
  ASSUME NEW names \in Seq(STRING), NEW i \in DOMAIN names
  PROVE  \E a \in DOMAIN names :
           /\ a <= i /\ names[a] = names[i]
           /\ \A k \in 1..(a - 1) : names[k] # names[i]
<1> DEFINE S == {j \in DOMAIN names : names[j] = names[i]}
<1>1. S \in SUBSET Nat /\ i \in S
  OBVIOUS
<1>2. PICK a \in S : \A n \in S : a <= n
  BY <1>1, Least
<1>3. \A k \in 1..(a - 1) : k \in DOMAIN names /\ ~(a <= k)
  BY <1>1, <1>2
<1> QED BY <1>1, <1>2, <1>3

(* A name's number at DuckDB is its rank here, if all names up to it are   *)
(* the server's: both count the different names up to its first place.     *)
LEMMA NumberIsRank ==
  ASSUME NEW names \in Seq(STRING), NEW i \in DOMAIN names,
         \A j \in 1..i : names[j] \in Names
  PROVE  \E a \in Firsts(names) : names[a] = names[i] /\ Number(names, i) = Rank(names, a)
<1> DEFINE First(j) == names[j] = names[i] /\ \A k \in 1..(j - 1) : names[k] # names[i]
           at == CHOOSE j \in DOMAIN names : First(j)
<1>1. \E j \in DOMAIN names : First(j)
  BY FirstPlace
<1>2. at \in DOMAIN names /\ First(at)
  BY <1>1
<1>3. at <= i /\ at \in Nat /\ i \in Nat
  BY <1>2
<1> HIDE DEF at
<1>4. at \in Firsts(names)
  BY <1>2, <1>3 DEF Firsts
<1> DEFINE S == {j \in Firsts(names) : j <= at}
           T == {names[j] : j \in 1..at}
           f == [j \in S |-> names[j]]
<1>5. f \in [S -> T]
  BY <1>3 DEF Firsts
<1>6. \A p, q \in S : f[p] = f[q] => p = q
  <2> SUFFICES ASSUME NEW p \in S, NEW q \in S, names[p] = names[q], p < q PROVE FALSE
    BY DEF Firsts
  <2> QED BY DEF Firsts
<1>7. \A t \in T : \E p \in S : f[p] = t
  <2> SUFFICES ASSUME NEW j \in 1..at PROVE \E p \in S : names[p] = names[j]
    OBVIOUS
  <2>1. j \in DOMAIN names
    BY <1>2, <1>3
  <2>2. PICK p \in DOMAIN names : /\ p <= j /\ names[p] = names[j]
                                 /\ \A k \in 1..(p - 1) : names[k] # names[j]
    BY <2>1, FirstPlace
  <2>3. names[p] \in Names
    BY <2>2, <1>3
  <2> QED BY <2>2, <2>3, <1>3 DEF Firsts
<1>8. f \in Bijection(S, T)
  BY <1>5, <1>6, <1>7 DEF Bijection, Injection, Surjection, IsInjective
<1>9. IsFiniteSet(S)
  BY <1>4, FirstsFinite
<1>10. Cardinality(T) = Cardinality(S)
  <2> HIDE DEF S, T, f
  <2>1. ExistsBijection(S, T)
    BY <1>8 DEF ExistsBijection
  <2> QED BY <1>9, <2>1, FS_Bijection
<1>11. Number(names, i) = Cardinality(T)
  BY DEF Number, at
<1> QED BY <1>2, <1>4, <1>10, <1>11 DEF Rank

(* Each `$name` is bound to its own field of the request, as far as the    *)
(* names up to it are the server's.                                        *)
LEMMA ParamsAreBound ==
  ASSUME NEW names \in Seq(STRING), NEW req, NEW i \in DOMAIN names,
         \A j \in 1..i : names[j] \in Names
  PROVE  BoundTo(names, ordered_handler_params(names, req), i) = Field(req, names[i])
<1>1. PICK a \in Firsts(names) : names[a] = names[i] /\ Number(names, i) = Rank(names, a)
  BY NumberIsRank
<1> DEFINE k == Rank(names, a)
           b == CHOOSE b \in Firsts(names) : Rank(names, b) = k
<1>2. k \in 1..Cardinality(Firsts(names))
  BY FirstsFinite
<1>3. b \in Firsts(names) /\ Rank(names, b) = k
  BY <1>2, RanksCover
<1>4. b = a
  BY <1>3, RanksDiffer
<1>5. ordered_handler_params(names, req)[k] = Field(req, names[b])
  BY <1>2 DEF ordered_handler_params
<1>6. DOMAIN ordered_handler_params(names, req) = 1..Cardinality(Firsts(names))
  BY DEF ordered_handler_params
<1> QED BY <1>1, <1>2, <1>4, <1>5, <1>6 DEF BoundTo
-----------------------------------------------------------------------------
(* The core and the handlers.                                              *)

(* The core's answer says whether the statement was executed, except for a *)
(* blob that cannot be read and a trap; the demo route stays single.       *)
LEMMA Answers ==
  ASSUME TypeOK, One(table), NEW st, NEW e \in db_query(st)
  PROVE  /\ e.table \in Tables /\ One(e.table)
         /\ e.core \in {"ok", "trapped"}
         /\ IF e.ok THEN e.done ELSE ~e.done \/ e.unread \/ e.core = "trapped"
<1> DEFINE Fine(x) == /\ x.table \in Tables /\ One(x.table)
                      /\ x.core \in {"ok", "trapped"}
                      /\ IF x.ok THEN x.done ELSE ~x.done \/ x.core = "trapped"
<1>1. table \in Tables
  BY DEF TypeOK
<1>2. Fine(Refused(table)) /\ Fine(Trapped(FALSE, table))
  BY <1>1 DEF Refused, Trapped
<1>3. \A r : Fine(Accepted(r, table))
  BY <1>1 DEF Accepted
<1>4. ASSUME NEW rows \in Seq(Rows), One([table EXCEPT !.rows = rows]), NEW x \in Edited(rows)
      PROVE  Fine(x)
  <2>1. [table EXCEPT !.rows = rows] \in Tables
    BY <1>1 DEF Tables
  <2> QED BY <1>2, <1>4, <2>1 DEF Edited, Accepted
<1>5. One([table EXCEPT !.rows = <<>>]) /\ <<>> \in Seq(Rows)
  BY <1>1 DEF One, Tables
<1>6. ASSUME NEW x \in Effects(st) PROVE Fine(x)
  <2> DEFINE added == IF Contains(table.rows, Added) THEN table.rows ELSE Append(table.rows, Added)
  <2>1. added \in Seq(Rows) /\ One([table EXCEPT !.rows = added])
    <3>1. table.rows \in Seq(Rows) /\ Added \in Rows /\ Added # Seed
      BY <1>1, ServersAssumption DEF Tables
    <3>2. One([table EXCEPT !.rows = Append(table.rows, Added)])
      BY <1>1, <3>1 DEF One, Tables
    <3>3. One([table EXCEPT !.rows = table.rows])
      BY <1>1 DEF One, Tables
    <3> QED BY <3>1, <3>2, <3>3
  <2>2. CASE st \in {"select", "catalog", "handler"}
    BY <2>2, <1>3 DEF Effects
  <2>3. CASE st = "insert"
    BY <2>3, <2>1, <1>4 DEF Effects
  <2>4. CASE st = "delete"
    BY <2>4, <1>5, <1>4 DEF Effects
  <2>5. CASE st = "cut"
    BY <2>5, <1>5, <1>4, <1>2 DEF Effects
  <2> HIDE DEF Fine
  <2>6. CASE st \notin {"select", "catalog", "handler", "insert", "delete", "cut"}
    BY <2>6, <1>2 DEF Effects
  <2> QED BY <2>2, <2>3, <2>4, <2>5, <2>6
<1>7. CASE e = Trapped(FALSE, table)
  BY <1>7, <1>2
<1>8. ASSUME NEW x \in Effects(st), e = Trapped(x.done, x.table)
      PROVE  Fine(e)
  <2>1. x.table \in Tables /\ One(x.table)
    BY <1>6
  <2> QED BY <1>8, <2>1 DEF Trapped
<1>9. ASSUME NEW x \in Effects(st), e = Lifted(x)
      PROVE  Fine(e) \/ (Fine(x) /\ e.table = x.table /\ e.core = x.core /\ ~e.ok /\ e.unread)
  <2>1. CASE e = x
    BY <1>6, <2>1
  <2>2. CASE e # x
    <3>1. e = [x EXCEPT !.ok = FALSE, !.unread = TRUE]
      BY <1>9, <2>2 DEF Lifted
    <3>2. \E ok, r, t, c, d, u :
            x = [done |-> d, ok |-> ok, unread |-> u, result |-> r, table |-> t, core |-> c]
      BY DEF Effects, Edited, Accepted, Refused
    <3> QED BY <3>1, <3>2, <1>6
  <2> QED BY <2>1, <2>2
<1>10. \/ e = Trapped(FALSE, table)
       \/ \E x \in Effects(st) : e = Trapped(x.done, x.table) \/ e = Lifted(x)
  BY DEF db_query
<1> QED BY <1>7, <1>2, <1>8, <1>9, <1>10

(* A reply without the core.                                               *)
LEMMA FixedSound ==
  ASSUME TypeOK, One(table), NEW reply, NEW req, NEW o \in Fixed(reply)
  PROVE  Sound(o, req)
BY DEF TypeOK, Fixed, Outcome, Sound

(* The SQL of a request, or of the server.                                 *)
LEMMA SqlSound ==
  ASSUME TypeOK, One(table), NEW req, NEW st, NEW failed,
         st # None => \/ st \in {"catalog", "nothing"} \/ st = req.body \/ st = parse_q(req.query),
         NEW o \in run_sql(st, failed)
  PROVE  Sound(o, req)
<1>1. CASE st = None
  BY <1>1, FixedSound DEF run_sql
<1>2. CASE st # None
  <2>1. PICK e \in db_query(st) :
          o = Outcome(IF e.ok THEN Reply(200, "rows") ELSE Reply(failed, "error"),
                      Did(st, e), e.table, e.core)
    BY <1>2 DEF run_sql
  <2>2. Honest(o.reply, o.did, o.core)
    BY <2>1, Answers DEF Honest, Outcome, Did, Reply, Errors
  <2>3. Sourced(o.did, req)
    BY <2>1, <1>2 DEF Sourced, Outcome, Did
  <2> QED BY <2>1, <2>2, <2>3, Answers DEF Sound, Outcome
<1> QED BY <1>1, <1>2

(* A handler of the routes table.                                          *)
LEMMA HandlerSound ==
  ASSUME TypeOK, One(table), NEW req, NEW m, m.names \in Seq(STRING),
         NEW o \in execute_route(m, req)
  PROVE  Sound(o, req)
<1>1. CASE m.kind = "static"
  BY <1>1, FixedSound DEF execute_route
<1>2. CASE m.kind = "wasm"
  BY <1>2, FixedSound DEF execute_route
<1>3. CASE m.kind \notin {"static", "wasm"}
  <2> DEFINE response(e) == IF ~e.ok THEN Reply(500, "error")
                            ELSE IF m.kind = "blob" THEN blob_response(m, e.result)
                            ELSE build_route_response(m, e.result)
  <2>1. PICK e \in db_query("handler") :
          o = Outcome(response(e), Handled(m, req, e), e.table, e.core)
    BY <1>3 DEF execute_route, execute_sql
  <2>2. ~e.ok => response(e).form \in Errors
    BY DEF Reply, Errors
  <2>3. e.ok => response(e).form \notin Errors
    BY DEF Reply, Errors, blob_response, build_route_response
  <2> HIDE DEF response
  <2>4. Honest(o.reply, o.did, o.core)
    BY <2>1, <2>2, <2>3, Answers DEF Honest, Outcome, Handled
  <2>5. Sourced(o.did, req)
    BY <2>1 DEF Sourced, Outcome, Handled
  <2> QED BY <2>1, <2>4, <2>5, Answers DEF Sound, Outcome
<1> QED BY <1>1, <1>2, <1>3
(* The router: what is found in the table is a row of it.                  *)
LEMMA RouteSound ==
  ASSUME TypeOK, One(table), NEW req, NEW o \in route(req)
  PROVE  Sound(o, req)
<1> DEFINE unknown == Reply(404, "no such route")
           failed == {Outcome(unknown, None, table, "trapped")}
<1>1. CASE o \in Fixed(unknown)
  BY <1>1, FixedSound
<1>2. CASE o \in failed
  <2>1. PICK reply : o = Outcome(reply, None, table, "trapped")
    BY <1>2, Zenon
  <2>2. o.table = table /\ o.core = "trapped" /\ o.did = None
    BY <2>1 DEF Outcome
  <2> QED BY <2>2 DEF TypeOK, Sound
<1>3. CASE \E m \in lookup(table, req) : m # None /\ o \in execute_route(m, req)
  <2>1. PICK m \in lookup(table, req) : m # None /\ o \in execute_route(m, req)
    BY <1>3
  <2>2. m.names \in Seq(STRING)
    <3>1. ToSet(table.rows) \subseteq Rows
      BY DEF TypeOK, Tables, ToSet
    <3> DEFINE rows == {row \in ToSet(table.rows) : Matches(row, req)}
               best == {p \in rows : \A q \in rows : ~Before(q, p)}
               kinds == [p \in best |-> IF table.schema = "legacy" THEN "sql" ELSE RouteKind(p.kind)]
               status(p) == IF dv_as_i64(p.status) = None THEN 200 ELSE dv_as_i64(p.status)
    <3>2. PICK p \in best : m = [p EXCEPT !.kind = kinds[p], !.status = status(p)]
      BY <2>1 DEF lookup
    <3>3. p \in Rows
      BY <3>1
    <3> HIDE DEF best, kinds, status
    <3>4. m.names = p.names
      BY <3>2, <3>3 DEF Rows
    <3> QED BY <3>3, <3>4 DEF Rows
  <2> QED BY <2>1, <2>2, HandlerSound
<1>4. \/ o \in Fixed(unknown) \/ o \in failed
      \/ \E m \in lookup(table, req) : m # None /\ o \in execute_route(m, req)
  <2>1. \/ o \in Fixed(unknown) \/ o \in failed
        \/ o \in UNION {IF m = None THEN Fixed(unknown) ELSE execute_route(m, req) :
                          m \in lookup(table, req)}
    BY DEF route
  <2> HIDE DEF unknown, failed
  <2> QED BY <2>1
<1> HIDE DEF unknown, failed
<1> QED BY <1>1, <1>2, <1>3, <1>4

(* Both bridges.                                                           *)
LEMMA BridgedSound ==
  ASSUME TypeOK, One(table), NEW req, NEW o \in Bridged(req.body)
  PROVE  Sound(o, req)
<1>1. PICK e \in Bridgings :
        o = Outcome(IF e.ok THEN Reply(200, "body") ELSE Reply(503, "unbridged"),
                    Did(IF req.body = None THEN "nothing" ELSE req.body, e),
                    table, IF core = "trapped" THEN core ELSE e.core)
  BY DEF Bridged
<1>2. e.core \in {"ok", "trapped"} /\ IF e.ok THEN e.done ELSE ~e.done \/ e.core = "trapped"
  BY DEF Bridgings, Refused, Trapped, Accepted
<1>3. Honest(o.reply, o.did, o.core)
  BY <1>1, <1>2 DEF Honest, Outcome, Did, Reply, Errors
<1>4. Sourced(o.did, req)
  BY <1>1 DEF Sourced, Outcome, Did
<1>5. o.table = table /\ o.core \in {"ok", "trapped"}
  BY <1>1, <1>2 DEF Outcome
<1> QED BY <1>3, <1>4, <1>5 DEF Sound, TypeOK

(* Every server, every request: the outcome is sound.                      *)
LEMMA DispatchSound ==
  ASSUME TypeOK, One(table), NEW req, NEW o \in Dispatch(req)
  PROVE  Sound(o, req)
<1>1. CASE \E reply : o \in Fixed(reply)
  BY <1>1, FixedSound
<1>2. CASE \E st, failed :
             /\ st # None => \/ st \in {"catalog", "nothing"}
                             \/ st = req.body \/ st = parse_q(req.query)
             /\ o \in run_sql(st, failed)
  BY <1>2, SqlSound
<1>3. CASE o \in route(req)
  BY <1>3, RouteSound
<1>4. CASE o \in Bridged(req.body)
  BY <1>4, BridgedSound
<1>5. CASE o \in handle(req)
  <2>1. CASE o \in Schema(req)
    <3>1. \/ o \in Fixed(Reply(404, "no such route")) \/ o \in Fixed(Reply(400, "error"))
          \/ o \in run_sql("catalog", 422)
      BY <2>1 DEF Schema
    <3>2. CASE o \in run_sql("catalog", 422)
      <4>1. \E st, failed : st = "catalog" /\ o \in run_sql(st, failed)
        BY <3>2
      <4> QED BY <4>1, <1>2
    <3> QED BY <3>1, <3>2, <1>1
  <2>2. CASE o \in Admin(req)
    <3>1. CASE <<req.method, req.path>> = <<"GET", "/health">>
      BY <2>2, <3>1, <1>1 DEF Admin
    <3>2. CASE <<req.method, req.path>> = <<"GET", "/tables">>
      <4>1. o \in run_sql("catalog", 422)
        BY <2>2, <3>2 DEF Admin
      <4> QED BY <4>1, <1>2
    <3>3. CASE <<req.method, req.path>> = <<"POST", "/sql">>
      <4>1. o \in Fixed(Reply(400, "error")) \/ o \in run_sql(req.body, 422)
        BY <2>2, <3>3 DEF Admin
      <4> QED BY <4>1, <1>1, <1>2
    <3>4. CASE <<req.method, req.path>> = <<"GET", "/sql">>
      <4>1. o \in Fixed(Reply(400, "error")) \/ o \in run_sql(parse_q(req.query), 422)
        BY <2>2, <3>4 DEF Admin
      <4> QED BY <4>1, <1>1, <1>2
    <3>5. CASE <<req.method, req.path>> \notin Builtin
      <4>1. o \in Fixed(Reply(404, "no such route"))
        BY <2>2, <3>5 DEF Admin, Builtin
      <4> QED BY <4>1, <1>1
    <3> QED BY <3>1, <3>2, <3>3, <3>4, <3>5 DEF Builtin
  <2> QED BY <1>5, <1>3, <2>1, <2>2 DEF handle
<1>6. CASE o \in console(req)
  <2>1. \/ \E reply : o \in Fixed(reply)
        \/ o \in run_sql(None, 200) \/ o \in run_sql(req.body, 200)
    BY <1>6 DEF console, run_query
  <2> QED BY <2>1, <1>1, <1>2
<1>7. CASE o \in ui(req)
  BY <1>7, <1>1, <1>4 DEF ui
<1>8. CASE o \in quack(req)
  BY <1>8, <1>1, <1>4 DEF quack
<1> QED BY <1>5, <1>6, <1>7, <1>8, ServersAssumption DEF Dispatch, TypeOK, Server
-----------------------------------------------------------------------------
(* The request that is read.                                               *)

(* What parse_q finds is a value of the query.                             *)
LEMMA QueryValue ==
  ASSUME NEW query, DOMAIN query \in SUBSET Nat, parse_q(query) # None
  PROVE  \E pair \in ToSet(query) : parse_q(query) = pair[2]
<1> DEFINE qs == {i \in DOMAIN query : query[i][1] = "q"}
<1>1. qs # {} /\ parse_q(query) = query[Min(qs)][2]
  BY DEF parse_q
<1>2. qs \in SUBSET Nat
  OBVIOUS
<1>3. Min(qs) \in qs
  BY <1>1, <1>2, MinIsLeast
<1> QED BY <1>1, <1>3 DEF ToSet

(* A request that is not whole has no body; the end of its query is new.   *)
LEMMA CutShort ==
  ASSUME TypeOK, NEW c \in Clients, Waits(c), read_request(c) # None, ~Complete(c)
  PROVE  /\ read_request(c).body = None
         /\ DOMAIN read_request(c).query \in SUBSET Nat
         /\ \A pair \in ToSet(read_request(c).query) :
              pair[2] = "cut" \/ pair \in ToSet(asked[c].query)
<1>1. asked[c] \in Requests
  BY DEF TypeOK, Waits
<1> DEFINE req == asked[c]
           query == asked[c].query
<1>2. query \in Seq(STRING \X Text)
  BY <1>1 DEF Requests
<1>3. CASE read_request(c) = [req EXCEPT !.body = None]
  BY <1>1, <1>2, <1>3 DEF Requests
<1>4. CASE read_request(c) = Cut(req)
  <2>1. CASE query = <<>>
    BY <1>1, <1>2, <1>4, <2>1 DEF Cut, Requests
  <2>2. CASE query # <<>>
    <3> DEFINE final == <<Last(query)[1], "cut">>
               new == Append(Front(query), final)
               S == (STRING \X Text) \cup {final}
    <3>1. read_request(c) = [req EXCEPT !.query = new, !.body = None]
      BY <1>4, <2>2 DEF Cut
    <3>2. Len(query) \in Nat /\ Len(query) # 0
      BY <1>2, <2>2
    <3>3. Front(query) \in Seq(S)
          /\ \A i \in DOMAIN Front(query) : i \in DOMAIN query /\ Front(query)[i] = query[i]
      BY <1>2, <3>2 DEF Front
    <3>4. DOMAIN new \in SUBSET Nat
          /\ \A i \in DOMAIN new : new[i] = final \/ new[i] \in ToSet(query)
      <4> HIDE DEF final
      <4> QED BY <3>3 DEF ToSet
    <3>5. \A pair \in ToSet(new) : pair[2] = "cut" \/ pair \in ToSet(query)
      BY <3>4 DEF ToSet
    <3> HIDE DEF new
    <3> QED BY <1>1, <3>1, <3>4, <3>5 DEF Requests
  <2> QED BY <2>1, <2>2
<1> QED BY <1>3, <1>4 DEF read_request
-----------------------------------------------------------------------------
(* The steps.                                                              *)

(* What was done in the last step is what it was, or was not there.        *)
LEMMA Untold ==
  ASSUME WholeBody, Bound, Told, last' = None \/ (last' = last /\ core' = core)
  PROVE  WholeBody' /\ Bound' /\ Told'
<1>1. CASE last' = None
  BY <1>1 DEF WholeBody, Bound, Told, Executed
<1>2. CASE last' = last /\ core' = core
  BY <1>2 DEF WholeBody, Bound, Told, Executed
<1> QED BY <1>1, <1>2

(* The table may start empty, and a table with one row has it once.        *)
LEMMA OneRow ==
  /\ \A t : t.rows = <<>> => One(t)
  /\ \A t : t.rows = <<Seed>> => One(t)
BY DEF One

(* A request that runs stays the one that was read.                        *)
LEMMA StillRunning ==
  ASSUME Running, stage' = stage, serving' = serving,
         serving # None => asked'[serving] = asked[serving] /\ sent'[serving] = sent[serving]
                           /\ closed'[serving] = closed[serving]
  PROVE  Running'
<1>1. ASSUME serving # None
      PROVE  /\ Finished(serving) => Finished(serving)'
             /\ read_request(serving)' = read_request(serving)
  BY <1>1 DEF Finished, Complete, read_request, Arrived, Pieces
<1> QED BY <1>1 DEF Running

LEMMA Start == Init => IInv
<1> SUFFICES ASSUME Init PROVE IInv
  OBVIOUS
<1>1. setup.file \in Tables /\ One(setup.file)
  <2>1. setup.file = [schema |-> setup.file.schema, rows |-> setup.file.rows]
        /\ setup.file.schema \in Schemas /\ setup.file.rows \in Seq(Rows)
    BY ServersAssumption DEF Init
  <2>2. One(setup.file)
    BY ServersAssumption DEF Init, One
  <2>3. \A s \in Schemas, r \in Seq(Rows) : [schema |-> s, rows |-> r] \in Tables
    BY DEF Tables
  <2> QED BY <2>1, <2>2, <2>3, Zenon
<1>2. TypeOK
  BY <1>1 DEF Init, TypeOK
<1>3. InLine /\ Running
  BY DEF Init, InLine, Running
<1>4. SeededOnce
  BY <1>1 DEF Init, SeededOnce, One
<1>5. WholeBody /\ Bound /\ Told
  BY DEF Init, WholeBody, Bound, Told, Executed
<1> QED BY <1>2, <1>3, <1>4, <1>5 DEF IInv

(* Starting and stopping.                                                  *)
LEMMA ProcessSteps ==
  ASSUME IInv,
         serve_httpd \/ serve_ui \/ serve_quack \/ CreateTable \/ SeedTable \/ Listen \/ Stop
  PROVE  IInv'
<1> USE DEF IInv
<1>1. CASE serve_httpd \/ serve_ui \/ serve_quack
  <2>1. PICK next \in {"opened", "ready"} : Starts(next)
    BY <1>1 DEF serve_httpd, serve_ui, serve_quack
  <2>2. TypeOK'
    BY <2>1 DEF Starts, TypeOK, wire
  <2>3. InLine' /\ SeededOnce'
    BY <2>1 DEF Starts, InLine, SeededOnce, Waits, wire
  <2>4. Running'
    BY <2>1, StillRunning DEF Starts, wire
  <2> QED BY <2>1, <2>2, <2>3, <2>4, Untold DEF Starts
<1>2. CASE CreateTable \/ SeedTable \/ Listen
  <2>1. PICK from, to \in {"opened", "created", "ready", "listening"} : Goes(from, to)
    BY <1>2 DEF CreateTable, SeedTable, Listen
  <2>2. table' \in Tables /\ One(table')
    <3>0. table \in Tables /\ One(table) /\ Seed \in Rows
      BY ServersAssumption DEF TypeOK, SeededOnce, One
    <3>1. CASE CreateTable
      <4>1. [schema |-> "current", rows |-> <<>>] \in Tables
            /\ One([schema |-> "current", rows |-> <<>>])
        BY OneRow DEF Tables, Schemas
      <4> QED BY <3>0, <3>1, <4>1 DEF CreateTable
    <3>2. CASE SeedTable
      <4>0. <<Seed>> \in Seq(Rows) /\ [table EXCEPT !.rows = <<Seed>>].rows = <<Seed>>
        BY <3>0 DEF Tables
      <4>1. [table EXCEPT !.rows = <<Seed>>] \in Tables
            /\ One([table EXCEPT !.rows = <<Seed>>])
        BY <3>0, <4>0, OneRow DEF Tables
      <4> QED BY <3>0, <3>2, <4>1 DEF SeedTable
    <3>3. CASE Listen
      BY <3>0, <3>3 DEF Listen
    <3> QED BY <1>2, <3>1, <3>2, <3>3
  <2>3. TypeOK'
    BY <2>1, <2>2 DEF Goes, TypeOK, wire
  <2>4. InLine' /\ SeededOnce'
    BY <2>1, <2>2 DEF Goes, InLine, SeededOnce, One, Waits, wire
  <2>5. Running'
    BY <2>1, StillRunning DEF Goes, wire
  <2> QED BY <2>1, <2>3, <2>4, <2>5, Untold DEF Goes
<1>3. CASE Stop
  <2>1. NoTable \in Tables /\ One(NoTable)
    BY OneRow DEF Tables, NoTable, Schemas
  <2>2. table' \in Tables /\ One(table')
    BY <1>3, <2>1 DEF Stop, TypeOK, SeededOnce, One
  <2>3. TypeOK'
    BY <1>3, <2>2 DEF Stop, TypeOK, Leave
  <2>4. InLine' /\ Running' /\ SeededOnce'
    BY <1>3, <2>2 DEF Stop, InLine, Running, SeededOnce, One
  <2> QED BY <1>3, <2>3, <2>4, Untold DEF Stop
<1> QED BY <1>1, <1>2, <1>3

(* The clients.                                                            *)
LEMMA ClientSteps ==
  ASSUME IInv, NEW c \in Clients, Connect(c) \/ Send(c) \/ CloseSide(c)
  PROVE  IInv'
<1> USE DEF IInv
<1>1. CASE Connect(c)
  <2>1. PICK req \in setup.requests : asked' = [asked EXCEPT ![c] = req]
    BY <1>1 DEF Connect
  <2>2. req \in Requests /\ req # None
    <3>1. setup.requests \subseteq Requests
      BY ServersAssumption DEF TypeOK
    <3> QED BY <3>1, RoutesAssumption
  <2>3. TypeOK'
    BY <1>1, <2>1, <2>2 DEF Connect, TypeOK, process
  <2>4. InLine'
    <3>1. asked[c] = None /\ queue \in Seq(Clients) /\ serving' = serving
          /\ asked \in [Clients -> Requests \cup {None}] /\ queue' = Append(queue, c)
      BY <1>1 DEF Connect, TypeOK, Waits
    <3>2. c # serving /\ \A i \in DOMAIN queue : queue[i] # c
      BY <3>1, ServersAssumption DEF InLine, Waits
    <3>3. DOMAIN queue' = 1..(Len(queue) + 1) /\ DOMAIN queue = 1..Len(queue) /\ Len(queue) \in Nat
          /\ queue'[Len(queue) + 1] = c /\ \A i \in DOMAIN queue : queue'[i] = queue[i]
      BY <3>1
    <3>4. \A i \in DOMAIN queue' : i \in DOMAIN queue \/ i = Len(queue) + 1
      BY <3>3
    <3>5. \A i, j \in DOMAIN queue' : queue'[i] = queue'[j] => i = j
      BY <3>2, <3>3, <3>4 DEF InLine
    <3>6. \A d \in Clients : asked[d] # None \/ d = c => asked'[d] # None
      BY <3>1, <2>1, <2>2
    <3>7. \A i \in DOMAIN queue' : asked'[queue'[i]] # None /\ queue'[i] # serving
      BY <3>1, <3>2, <3>3, <3>4, <3>6 DEF InLine, Waits
    <3>8. serving # None => serving \in Clients /\ asked'[serving] # None
      BY <3>6 DEF InLine, TypeOK, Waits
    <3> QED BY <3>1, <3>5, <3>7, <3>8 DEF InLine, Waits
  <2>5. SeededOnce'
    BY <1>1 DEF Connect, SeededOnce
  <2>6. Running'
    <3>1. serving # None => c # serving /\ serving \in Clients /\ asked \in [Clients -> Requests \cup {None}]
      BY <1>1 DEF Connect, InLine, TypeOK
    <3> QED BY <1>1, <2>1, <3>1, StillRunning DEF Connect
  <2> QED BY <1>1, <2>3, <2>4, <2>5, <2>6, Untold DEF Connect
<1>2. CASE Send(c)
  <2>1. TypeOK'
    BY <1>2 DEF Send, TypeOK, process
  <2>2. InLine' /\ SeededOnce'
    BY <1>2 DEF Send, InLine, SeededOnce, Waits
  <2>3. CASE stage = "run"
    <3>1. serving # None /\ c # serving
      BY <1>2, <2>3 DEF Send, Running, Finished
    <3>2. Running'
      BY <1>2, <3>1, StillRunning DEF Send, TypeOK
    <3> QED BY <1>2, <2>1, <2>2, <3>2, Untold DEF Send
  <2>4. CASE stage # "run"
    <3>1. Running'
      BY <1>2, <2>4 DEF Send, Running
    <3> QED BY <1>2, <2>1, <2>2, <3>1, Untold DEF Send
  <2> QED BY <2>3, <2>4
<1>3. CASE CloseSide(c)
  <2>1. TypeOK'
    BY <1>3 DEF CloseSide, TypeOK, process
  <2>2. InLine' /\ SeededOnce'
    BY <1>3 DEF CloseSide, InLine, SeededOnce, Waits
  <2>3. ASSUME stage = "run"
        PROVE  serving # None /\ Finished(serving)' /\ read_request(serving)' = read_request(serving)
    <3>1. /\ serving \in Clients /\ asked' = asked /\ sent' = sent
          /\ closed[serving] => closed'[serving]
      BY <1>3, <2>3, ServersAssumption DEF CloseSide, TypeOK, Running
    <3>2. Complete(serving)' <=> Complete(serving)
      BY <1>3, <3>1 DEF CloseSide, Complete, Pieces
    <3>3. serving # None /\ (Complete(serving) \/ closed[serving])
      BY <2>3 DEF Running, Finished
    <3>4. Finished(serving)'
      BY <1>3, <3>1, <3>2, <3>3 DEF CloseSide, Finished
    <3>5. read_request(serving)' = read_request(serving)
      BY <1>3, <3>1 DEF CloseSide, read_request, Arrived, Complete, Pieces
    <3> QED BY <3>3, <3>4, <3>5
  <2>4. Running'
    BY <1>3, <2>3 DEF CloseSide, Running
  <2> QED BY <1>3, <2>1, <2>2, <2>4, Untold DEF CloseSide
<1> QED BY <1>1, <1>2, <1>3
(* A connection that leaves takes nobody else out of the line.             *)
LEMMA LeaveOne ==
  ASSUME TypeOK, InLine, NEW c \in Clients, Leave({c}),
         NEW line \in Seq(Clients),
         \A i \in DOMAIN line : Waits(line[i]) /\ line[i] # c
  PROVE  /\ asked' \in [Clients -> Requests \cup {None}] /\ sent' \in [Clients -> Nat]
         /\ closed' \in [Clients -> BOOLEAN]
         /\ \A i \in DOMAIN line : Waits(line[i])'
         /\ \A d \in Clients \ {c} : Waits(d) => Waits(d)'
BY DEF TypeOK, Leave, Waits

(* The head of the queue and the rest of it.                               *)
LEMMA HeadAndTail ==
  ASSUME TypeOK, InLine, queue # <<>>
  PROVE  /\ Head(queue) \in Clients /\ Tail(queue) \in Seq(Clients)
         /\ Waits(Head(queue)) /\ Head(queue) # serving
         /\ \A i \in DOMAIN Tail(queue) :
              /\ Waits(Tail(queue)[i])
              /\ Tail(queue)[i] # Head(queue) /\ Tail(queue)[i] # serving
         /\ \A i, j \in DOMAIN Tail(queue) : Tail(queue)[i] = Tail(queue)[j] => i = j
<1>1. queue \in Seq(Clients) /\ Len(queue) \in Nat \ {0}
  BY DEF TypeOK
<1>2. Head(queue) = queue[1] /\ 1 \in DOMAIN queue
  BY <1>1
<1>3. Tail(queue) \in Seq(Clients)
      /\ \A i \in DOMAIN Tail(queue) : i + 1 \in DOMAIN queue /\ i + 1 # 1 /\ Tail(queue)[i] = queue[i + 1]
  BY <1>1
<1>4. DOMAIN Tail(queue) \subseteq Int
  BY <1>3
<1>5. \A i, j \in DOMAIN Tail(queue) : Tail(queue)[i] = Tail(queue)[j] => i = j
  BY <1>3, <1>4 DEF InLine
<1> QED BY <1>1, <1>2, <1>3, <1>5 DEF InLine

(* Nothing is executed in a step of the loop but Serve.                    *)
LEMMA LoopSteps ==
  ASSUME IInv, Loop \/ Write
  PROVE  IInv'
<1> USE DEF IInv
<1>1. CASE Accept
  <2>1. TypeOK'
    BY <1>1, HeadAndTail DEF Accept, TypeOK, process, wire
  <2>2. InLine'
    BY <1>1, HeadAndTail DEF Accept, InLine, Waits, wire
  <2>3. SeededOnce'
    BY <1>1 DEF Accept, SeededOnce
  <2>4. Running'
    BY <1>1 DEF Accept, Running
  <2> QED BY <1>1, <2>1, <2>2, <2>3, <2>4, Untold DEF Accept
<1>2. CASE AcceptFails
  <2>0. PICK c, line : c = Head(queue) /\ line = Tail(queue)
    OBVIOUS
  <2>1. /\ c \in Clients /\ line \in Seq(Clients) /\ Leave({c}) /\ serving' = serving
        /\ queue' = line /\ serving \in Clients \cup {None} /\ c # serving
    BY <1>2, <2>0, HeadAndTail DEF AcceptFails, TypeOK
  <2>2. \A i \in DOMAIN line : Waits(line[i]) /\ line[i] # c /\ line[i] # serving
    BY <1>2, <2>0, HeadAndTail DEF AcceptFails
  <2>3. \A i, j \in DOMAIN line : line[i] = line[j] => i = j
    BY <1>2, <2>0, HeadAndTail DEF AcceptFails
  <2>4. /\ asked' \in [Clients -> Requests \cup {None}] /\ sent' \in [Clients -> Nat]
        /\ closed' \in [Clients -> BOOLEAN]
        /\ \A i \in DOMAIN line : Waits(line[i])'
        /\ \A d \in Clients \ {c} : Waits(d) => Waits(d)'
    BY <2>1, <2>2, LeaveOne
  <2>5. TypeOK'
    BY <1>2, <2>1, <2>4 DEF AcceptFails, TypeOK, process
  <2>6. serving # None => asked'[serving] # None
    BY <2>1, <2>4 DEF InLine, Waits
  <2>7. InLine'
    BY <2>1, <2>2, <2>3, <2>4, <2>6 DEF InLine, Waits
  <2>8. SeededOnce'
    BY <1>2 DEF AcceptFails, SeededOnce
  <2>9. Running'
    BY <1>2 DEF AcceptFails, Running
  <2> QED BY <1>2, <2>5, <2>7, <2>8, <2>9, Untold DEF AcceptFails
<1>3. CASE Drop \/ Write
  <2>1. Done /\ serving \in Clients
    BY <1>3 DEF Drop, Write, Reads, TypeOK
  <2>2. Leave({serving}) /\ queue' = queue /\ serving' = None /\ queue \in Seq(Clients)
        /\ \A i \in DOMAIN queue : Waits(queue[i]) /\ queue[i] # serving
    BY <2>1 DEF Done, TypeOK, InLine
  <2>3. /\ asked' \in [Clients -> Requests \cup {None}] /\ sent' \in [Clients -> Nat]
        /\ closed' \in [Clients -> BOOLEAN]
        /\ \A i \in DOMAIN queue : Waits(queue[i])'
    BY <2>1, <2>2, LeaveOne
  <2>4. TypeOK'
    BY <2>1, <2>3 DEF Done, TypeOK, process
  <2>5. None \notin Clients
    BY ServersAssumption
  <2>6. InLine'
    BY <2>2, <2>3, <2>5 DEF InLine, Waits
  <2>7. SeededOnce' /\ Running'
    BY <2>1 DEF Done, SeededOnce, Running
  <2> QED BY <2>1, <2>4, <2>6, <2>7, Untold DEF Done
<1>4. CASE Begin
  <2>1. TypeOK'
    BY <1>4 DEF Begin, TypeOK, process, wire
  <2>2. InLine' /\ SeededOnce'
    BY <1>4 DEF Begin, InLine, SeededOnce, Waits, wire
  <2>3. /\ serving # None /\ Finished(serving) /\ read_request(serving) # None
        /\ serving' = serving /\ UNCHANGED wire
    BY <1>4 DEF Begin, Reads
  <2>4. Finished(serving)' /\ read_request(serving)' = read_request(serving)
    BY <2>3 DEF Finished, Complete, read_request, Arrived, Pieces, wire
  <2>5. Running'
    BY <2>3, <2>4 DEF Running
  <2> QED BY <1>4, <2>1, <2>2, <2>5, Untold DEF Begin
<1> QED BY <1>1, <1>2, <1>3, <1>4 DEF Loop

(* An answer tells what was done, with the client's own fields.            *)
LEMMA ServeStep ==
  ASSUME IInv, Serve
  PROVE  IInv'
<1> USE DEF IInv
<1> DEFINE c == serving
           req == read_request(c)
<1>1. c \in Clients /\ Waits(c) /\ req # None /\ asked[c] \in Requests
  BY DEF Serve, TypeOK, InLine, Waits, Running
<1>2. PICK o \in Dispatch(req) :
        /\ last' = [asked |-> asked[c], whole |-> Complete(c), reply |-> o.reply, did |-> o.did]
        /\ table' = o.table /\ core' = o.core
  BY DEF Serve
<1>3. Sound(o, req)
  <2>1. One(table)
    BY DEF SeededOnce, One
  <2> QED BY <2>1, DispatchSound
<1>4. UNCHANGED <<setup, up, starts, queue, serving, wire>> /\ stage' = "write"
  BY DEF Serve
<1>5. Executed' # None => Executed' = o.did
  BY <1>2 DEF Executed
<1>6. WholeBody'
  <2> SUFFICES ASSUME Executed' # None, asked[c].body # None, ~Complete(c)
               PROVE  /\ \/ o.did.text \in {"catalog", "handler", "nothing", "cut"}
                         \/ \E pair \in ToSet(asked[c].query) : o.did.text = pair[2]
                      /\ \A field \in ToSet(o.did.params) :
                           field # None /\ field[1] = "body" => field[2] = None
    BY <1>2, <1>5 DEF WholeBody
  <2>1. Sourced(o.did, req)
    BY <1>3, <1>5 DEF Sound
  <2>2. /\ req.body = None /\ DOMAIN req.query \in SUBSET Nat
        /\ \A pair \in ToSet(req.query) : pair[2] = "cut" \/ pair \in ToSet(asked[c].query)
    BY <1>1, CutShort
  <2>3. CASE o.did.text = "handler" /\ o.did.names \in Seq(STRING)
             /\ o.did.params = ordered_handler_params(o.did.names, req)
    <3>1. ASSUME NEW field \in ToSet(o.did.params), field # None, field[1] = "body"
          PROVE  field[2] = None
      <4>1. PICK name \in Names : field = Field(req, name)
        BY <2>3, ParamsAreFields
      <4>2. CASE name = "body"
        BY <2>2, <3>1, <4>1, <4>2 DEF Field
      <4>3. CASE name \in {"method", "path", "query", "remote"}
        BY <3>1, <4>1, <4>3 DEF Field
      <4> QED BY <4>2, <4>3 DEF Names
    <3> QED BY <2>3, <3>1
  <2>4. CASE o.did.names = <<>> /\ o.did.params = <<>>
             /\ \/ o.did.text \in {"catalog", "nothing"}
                \/ o.did.text = req.body /\ req.body # None
                \/ o.did.text = parse_q(req.query) /\ parse_q(req.query) # None
    <3>1. ToSet(o.did.params) = {}
      BY <2>4 DEF ToSet
    <3>2. parse_q(req.query) # None =>
            parse_q(req.query) = "cut" \/ \E pair \in ToSet(asked[c].query) : parse_q(req.query) = pair[2]
      BY <2>2, QueryValue
    <3> QED BY <2>2, <2>4, <3>1, <3>2
  <2> QED BY <2>1, <2>3, <2>4 DEF Sourced
<1>7. Bound'
  <2> SUFFICES ASSUME Executed' # None, Complete(c), NEW i \in DOMAIN o.did.names,
                      \A j \in 1..i : o.did.names[j] \in Names
               PROVE  BoundTo(o.did.names, o.did.params, i) = Field(asked[c], o.did.names[i])
    BY <1>2, <1>5 DEF Bound
  <2>1. Sourced(o.did, req) /\ req = asked[c]
    BY <1>3, <1>5 DEF Sound, read_request
  <2>2. o.did.names # <<>>
    OBVIOUS
  <2> QED BY <2>1, <2>2, ParamsAreBound DEF Sourced
<1>8. Told'
  BY <1>2, <1>3, <1>5 DEF Told, Sound, Honest
<1>9. SeededOnce'
  BY <1>2, <1>3 DEF SeededOnce, Sound, One
<1>10. TypeOK'
  <2>1. table' \in Tables /\ core' \in {"ok", "trapped"}
    BY <1>2, <1>3 DEF Sound
  <2> QED BY <1>4, <2>1 DEF TypeOK, wire
<1>11. InLine' /\ Running'
  BY <1>4 DEF InLine, Running, Waits, wire
<1> QED BY <1>6, <1>7, <1>8, <1>9, <1>10, <1>11

(* The invariant holds in every reachable state.                           *)
THEOREM ServersInvariance == Spec => []IInv
<1>1. IInv /\ [Next]_vars => IInv'
  <2>1. ASSUME IInv, Next PROVE IInv'
    <3>1. CASE serve_httpd \/ serve_ui \/ serve_quack \/ CreateTable \/ SeedTable \/ Listen \/ Stop
      BY <2>1, <3>1, ProcessSteps
    <3>2. CASE \E c \in Clients : Connect(c) \/ Send(c) \/ CloseSide(c)
      BY <2>1, <3>2, ClientSteps
    <3>3. CASE Loop \/ Serve \/ Write
      BY <2>1, <3>3, LoopSteps, ServeStep
    <3> QED BY <2>1, <3>1, <3>2, <3>3 DEF Next
  <2>2. ASSUME IInv, UNCHANGED vars PROVE IInv'
    <3> USE <2>2 DEF IInv, vars, process, wire
    <3>1. TypeOK'
      BY DEF TypeOK
    <3>2. InLine' /\ SeededOnce'
      BY DEF InLine, SeededOnce, Waits
    <3>3. Running'
      BY StillRunning
    <3> QED BY <3>1, <3>2, <3>3, Untold
  <2> QED BY <2>1, <2>2
<1> QED BY <1>1, Start, PTL DEF Spec

(* The state of the servers, their connections and the routes table is     *)
(* well typed.                                                             *)
THEOREM ServersTyping == Spec => []TypeOK
<1>1. IInv => TypeOK
  BY DEF IInv
<1> QED BY <1>1, ServersInvariance, PTL

(* No part of the body of a request that was cut off is executed or bound: *)
(* read_request ends a body whose length is known with the whole or not at *)
(* all, and everything that runs comes from the request it returns.        *)
THEOREM BodiesWhole == Spec => []WholeBody
<1>1. IInv => WholeBody
  BY DEF IInv
<1> QED BY <1>1, ServersInvariance, PTL

(* Each `$name` of a handler gets its own field of the client's request,   *)
(* as far as the names before it are the server's, for any handler text.   *)
THEOREM FieldsBound == Spec => []Bound
<1>1. IInv => Bound
  BY DEF IInv
<1> QED BY <1>1, ServersInvariance, PTL

(* There is one demo route at most, however often the server is started    *)
(* and stopped at any step of starting.                                    *)
THEOREM SeedsOnce == Spec => []SeededOnce
<1>1. IInv => SeededOnce
  BY DEF IInv
<1> QED BY <1>1, ServersInvariance, PTL

(* The answers tell what was done, but for a blob that cannot be read and  *)
(* a trap, which may come before or after.                                 *)
THEOREM TellsTrue == Spec => []Told
<1>1. IInv => Told
  BY DEF IInv
<1> QED BY <1>1, ServersInvariance, PTL
=============================================================================
