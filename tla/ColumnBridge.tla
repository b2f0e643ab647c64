---------------------------- MODULE ColumnBridge ----------------------------
(* A callback's way from the core to the extension and back: the handlers  *)
(* of callback-dispatch, the rows in between, the columns the extension is *)
(* called with, and its answer (lib.rs, ducklink-runtime extension.rs and  *)
(* export_marshal.rs). Which extension is called is Callbacks' subject.    *)
EXTENDS Integers, Sequences

CONSTANTS
  Arms,       \* the types of values in use
  RowCounts,  \* the lengths of a vector
  NullRows,   \* the rows that may be NULL together
  NoValue

Wide == {"hugeint", "uhugeint"}
Nested == {"list-col", "struct-col", "map-col", "array-col"}

ErrorKinds == {"invalidargument", "unsupported", "invalidstate", "io", "internal"}

VARIABLES
  bytes,    \* the adapter, which is not in this repository, lifts a list<u8> as Bytes
  call,     \* the core's call: its method and the values it means, row by row
  given,    \* what the extension is called with
  rest,     \* call-cast-col: the values still to cast
  casts,    \* call-cast-col: the values cast so far
  answers,  \* what the extension answered, row by row
  reply     \* what the core gets

bridgeVars == <<bytes, call, given, rest, casts, answers, reply>>

\* What is sent, by its type; NULL is a value and not a type, and NoValue is
\* nothing that is sent.
Types == Arms \cup {"null", "complex", "int64"}
Payloads == (Arms \cup {"raw", "row", "bytes", "filler", "junk"}) \X Nat
DuckValues == [arm : Types, val : Payloads]
ColVecs == [arm : Types, data : Seq(Payloads), validity : Seq(SUBSET (0..7)), rows : Nat]
Methods == {"call-scalar", "call-table", "call-pragma", "call-cast",
            "call-scalar-batch-col", "call-aggregate-col", "call-cast-col"}
Requests == [method : Methods, rows : Seq(Seq(DuckValues))]

ASSUME BridgeAssumption ==
  /\ "null" \notin Arms /\ RowCounts \subseteq Nat
  /\ NoValue \notin DuckValues /\ NoValue \notin ColVecs /\ NoValue \notin Requests

-----------------------------------------------------------------------------
(* Values and columns. A colvec has an arm, a list of data, a bitmap with a *)
(* bit per row (a byte is the set of its bits), and a number of rows.      *)

Filler == <<"filler", 0>>
Null == [arm |-> "null", val |-> Filler]
Value(arm, tag, n) == [arm |-> arm, val |-> <<tag, n>>]

Bytes(n) == (n + 7) \div 8

\* Faulty variant: the bits of a byte are counted from its other end.
ValidReversed(c, r) ==
  Bytes(r) > Len(c.validity) \/ 7 - ((r - 1) % 8) \in c.validity[Bytes(r)]

\* A row has a value unless a byte of the bitmap clears its bit.
Valid(c, r) ==
  \/ Bytes(r) > Len(c.validity)
  \/ (r - 1) % 8 \in c.validity[Bytes(r)]

\* A row of one of the core's columns. Of a nested one, whose payload is one
\* byte string for the whole vector, only the row's number and sizes are left.
core_colvec_value_at(c, r) ==
  IF ~Valid(c, r) THEN Null
  ELSE IF c.arm \in Nested THEN Value("complex", "row", r)
  ELSE [arm |-> c.arm, val |-> c.data[r]]

core_colvecs_to_ext_rows(cols) ==
  LET n == IF cols = <<>> THEN 0 ELSE cols[1].rows
  IN [r \in 1..n |-> [j \in DOMAIN cols |-> core_colvec_value_at(cols[j], r)]]

\* The first value that is not NULL chooses the arm; whatever has another arm
\* is NULL like the NULLs, and the bitmap is made at the first of them.
column_from_values(vals) ==
  LET n == Len(vals)
      live == {r \in 1..n : vals[r] # Null}
      arm == IF live = {} THEN "int64"
             ELSE vals[CHOOSE r \in live : \A q \in live : r <= q].arm
      kept == {r \in live : vals[r].arm = arm}
  IN [arm |-> arm,
      data |-> [r \in 1..n |-> IF r \in kept THEN vals[r].val ELSE Filler],
      validity |-> IF kept = 1..n THEN <<>>
                   ELSE [b \in 1..Bytes(n) |->
                           {k \in 0..7 : 8 * (b - 1) + k + 1 \notin (1..n) \ kept}],
      rows |-> n]

\* As many columns as the first row has values.
rows_to_colvecs(rows) ==
  IF rows = <<>> THEN <<>>
  ELSE [j \in DOMAIN rows[1] |-> column_from_values([r \in DOMAIN rows |-> rows[r][j]])]

\* Faulty variant: the bitmap is not looked at.
colvec_to_data(c) == [r \in DOMAIN c.data |-> [arm |-> c.arm, val |-> c.data[r]]]

\* Of a nested column every row is the whole vector's bytes.
colvec_to_values(c) ==
  LET value(r) == IF c.arm \in Nested THEN Value("complex", "bytes", 0)
                  ELSE [arm |-> c.arm, val |-> c.data[r]]
      rows == IF c.arm \in Nested THEN 1..c.rows ELSE DOMAIN c.data
  IN [r \in rows |-> IF Valid(c, r) THEN value(r) ELSE Null]

\* A 128-bit integer becomes its decimal text, labelled with its type.
convert_extension_duckvalue_to_core(v) ==
  IF v.arm \in Wide THEN [arm |-> "complex", val |-> <<v.arm, v.val[2]>>] ELSE v

ext_values_to_core_colvec(vals) ==
  column_from_values([r \in DOMAIN vals |-> convert_extension_duckvalue_to_core(vals[r])])

-----------------------------------------------------------------------------
(* What goes over the adapter. Both sides write a list<u8> as a List; which *)
(* form it has when it arrives is the adapter's choice.                    *)

duckvalue_to_value(v) == [form |-> IF v.arm = "blob" THEN "octets" ELSE "plain", v |-> v]

column_to_value(c) ==
  [form |-> IF c.arm = "uint8" THEN "octets" ELSE IF c.arm \in Nested THEN "record" ELSE "list",
   v |-> c]

core_column_to_value(c) == column_to_value(c)

\* As the adapter hands it to its reader.
Lifted(w) == IF w.form = "octets" /\ bytes THEN [w EXCEPT !.form = "bytes"] ELSE w

\* The core's values: a blob in the form of Bytes is refused.
value_to_core_duckvalue(w) == IF w.form = "bytes" THEN NoValue ELSE w.v

\* The extension's values and the core's columns: either form.
value_to_duckvalue(w) == w.v
value_to_core_column(w) == w.v

\* The extension's columns: UTINYINT in the form of Bytes is refused.
value_to_column(w) == IF w.form = "bytes" THEN NoValue ELSE w.v

Trapping == [kind |-> "trap"]
Failed(e) == [kind |-> "error", error |-> e]
Values(rows) == [kind |-> "values", rows |-> rows]
Column(c) == [kind |-> "column", col |-> core_column_to_value(c).v]

-----------------------------------------------------------------------------
(* What the core and the extension mean by what they send. A shape is a    *)
(* column before it is encoded; base tells its values from other columns'. *)

Shapes(n) ==
  [arm : Arms, nulls : {N \cap (1..n) : N \in NullRows}, long : BOOLEAN,
   base : {0}, rows : {n}]

\* A producer need not send a bitmap, nor the bytes that clear nothing.
Encoded(s) ==
  LET size == IF s.long THEN Bytes(s.rows)
              ELSE IF s.nulls = {} THEN 0
              ELSE Bytes(CHOOSE r \in s.nulls : \A q \in s.nulls : q <= r)
  IN [arm |-> s.arm,
      data |-> IF s.arm \in Nested THEN <<>>
               ELSE [r \in 1..s.rows |->
                       IF r \in s.nulls THEN <<"junk", 0>> ELSE <<"raw", s.base + r>>],
      validity |-> [b \in 1..size |-> {k \in 0..7 : 8 * (b - 1) + k + 1 \notin s.nulls}],
      rows |-> s.rows]

\* opaque is all that is left of a row of a nested column.
Meant(s, r, opaque) ==
  IF r \in s.nulls THEN Null
  ELSE IF s.arm \in Nested THEN opaque
  ELSE Value(s.arm, "raw", s.base + r)

\* What somebody reads who has the column and its bitmap.
Reads(c, r) ==
  IF \E b \in DOMAIN c.validity, k \in 0..7 :
       r = 8 * (b - 1) + k + 1 /\ k \notin c.validity[b]
    THEN Null ELSE [arm |-> c.arm, val |-> c.data[r]]

-----------------------------------------------------------------------------
BridgeInit ==
  /\ bytes \in BOOLEAN
  /\ call = NoValue /\ given = NoValue /\ reply = NoValue
  /\ rest = <<>> /\ casts = <<>> /\ answers = <<>>

(* The core's calls. The arguments are values, or columns that are turned  *)
(* into rows; the extension is called unless no callback of the kind has   *)
(* the handle.                                                             *)

Begin(method, rows) ==
  /\ call' = [method |-> method, rows |-> rows]
  /\ UNCHANGED <<bytes, casts, answers>>

Dispatch(arguments) ==
  \/ given' = arguments /\ reply' = NoValue
  \/ given' = NoValue /\ reply' = Failed("invalidstate")

Scalars(j) == {Null} \cup {Value(a, "raw", j) : a \in Arms \ Nested}
Arguments == {<<>>} \cup {<<v>> : v \in Scalars(1)} \cup (Scalars(1) \X Scalars(2))

AsValues(vals) == [j \in DOMAIN vals |-> duckvalue_to_value(vals[j])]
AsColumn(vals) == <<column_to_value(column_from_values(vals))>>

\* An argument that cannot be read makes the call trap.
WithValues(method, vals, column) ==
  LET read == [j \in DOMAIN vals |->
                 value_to_core_duckvalue(Lifted(duckvalue_to_value(vals[j])))]
  IN /\ Begin(method, <<vals>>)
     /\ IF \E j \in DOMAIN read : read[j] = NoValue
          THEN given' = NoValue /\ reply' = Trapping
          ELSE Dispatch(IF column THEN AsColumn(read) ELSE AsValues(read))
     /\ UNCHANGED rest

call_scalar == \E vals \in Arguments : WithValues("call-scalar", vals, FALSE)
call_table == \E vals \in Arguments : WithValues("call-table", vals, FALSE)
call_pragma == \E vals \in Arguments : WithValues("call-pragma", vals, FALSE)

\* The cast of a value is the cast of a column of one row.
call_cast == \E v \in Scalars(1) : WithValues("call-cast", <<v>>, TRUE)

Shaped(n, count) ==
  {[j \in 1..count |-> [s[j] EXCEPT !.base = 100 * j]] : s \in [1..count -> Shapes(n)]}

MeantRows(n, shapes) ==
  [r \in 1..n |-> [j \in DOMAIN shapes |-> Meant(shapes[j], r, Value("complex", "row", r))]]

RowsOf(shapes) ==
  core_colvecs_to_ext_rows(
    [j \in DOMAIN shapes |->
       value_to_core_column(Lifted(core_column_to_value(Encoded(shapes[j]))))])

AsColumns(rows) ==
  LET cols == rows_to_colvecs(rows) IN [j \in DOMAIN cols |-> column_to_value(cols[j])]

WithColumns(method) ==
  \E n \in RowCounts, count \in 0..2 : \E shapes \in Shaped(n, count) :
    /\ Begin(method, MeantRows(n, shapes))
    /\ Dispatch(AsColumns(RowsOf(shapes)))
    /\ UNCHANGED rest

call_scalar_batch_col == WithColumns("call-scalar-batch-col")
call_aggregate_col == WithColumns("call-aggregate-col")

\* The rows are cast one by one; without rows nobody is asked.
call_cast_col ==
  \E n \in RowCounts : \E shapes \in Shaped(n, 1) :
    LET rows == RowsOf(shapes)
    IN /\ Begin("call-cast-col", MeantRows(n, shapes))
       /\ IF rows = <<>>
            THEN /\ given' = NoValue /\ reply' = Column(ext_values_to_core_colvec(<<>>))
                 /\ UNCHANGED rest
            ELSE Dispatch(AsColumn(rows[1])) /\ rest' = Tail(rows)

-----------------------------------------------------------------------------
(* The extension's answers and the rest of the core's call. A function has *)
(* one type of results.                                                    *)

Asked(methods) == given # NoValue /\ call.method \in methods

Replies(r) ==
  /\ reply' = r /\ given' = NoValue
  /\ UNCHANGED <<bytes, call, rest, casts>>

\* The values that are lifted from the extension's are the core's.
AnswerWith(rows) ==
  /\ answers' = rows
  /\ Replies(Values([i \in DOMAIN rows |->
       [j \in DOMAIN rows[i] |->
          convert_extension_duckvalue_to_core(
            value_to_duckvalue(Lifted(duckvalue_to_value(rows[i][j]))))]]))

Results == Scalars(900)

dispatch_scalar == Asked({"call-scalar"}) /\ \E v \in Results : AnswerWith(<<<<v>>>>)
dispatch_aggregate == Asked({"call-aggregate-col"}) /\ \E v \in Results : AnswerWith(<<<<v>>>>)

\* Nothing, or a value.
dispatch_pragma ==
  Asked({"call-pragma"}) /\ \E rows \in {<<>>} \cup {<<<<v>>>> : v \in Results} : AnswerWith(rows)

dispatch_table ==
  /\ Asked({"call-table"})
  /\ \E v \in Results : \E rows \in {<<>>, <<<<v>>>>, <<<<v, Null>>, <<Null, v>>>>} : AnswerWith(rows)

\* A column of the extension's, as the host reads it.
Answered(s) == value_to_column(Lifted(column_to_value(Encoded(s))))
Answer(s) == [r \in 1..s.rows |-> <<Meant(s, r, Value("complex", "bytes", 0))>>]

\* As many rows as it was given; one, or none, if it was given no column.
dispatch_scalar_batch ==
  /\ Asked({"call-scalar-batch-col"})
  /\ \E n \in IF given = <<>> THEN {0, 1} ELSE {given[1].v.rows} :
     \E s \in Shapes(n) :
       /\ answers' = Answer(s)
       /\ Replies(IF Answered(s) = NoValue THEN Failed("internal")
                  ELSE Column(ext_values_to_core_colvec(colvec_to_values(Answered(s)))))

Typed(s) == IF s.arm \in Nested THEN "complex" ELSE s.arm

\* The first row of the answer, NULL if it has none, and the next row's turn.
dispatch_cast ==
  /\ Asked({"call-cast", "call-cast-col"})
  /\ \E n \in 0..1 : \E s \in Shapes(n) :
       LET vals == colvec_to_values(Answered(s))
           v == IF vals = <<>> THEN Null ELSE vals[1]
           all == Append(casts, v)
       IN /\ \A i \in DOMAIN casts : casts[i].arm \in {"null", Typed(s)}
          /\ answers' = Append(answers, IF n = 0 THEN <<Null>> ELSE Answer(s)[1])
          /\ IF Answered(s) = NoValue THEN Replies(Failed("internal"))
             ELSE IF call.method = "call-cast" THEN
               Replies(Values(<<<<convert_extension_duckvalue_to_core(v)>>>>))
             ELSE IF rest = <<>> THEN Replies(Column(ext_values_to_core_colvec(all)))
             ELSE /\ given' = AsColumn(rest[1]) /\ rest' = Tail(rest) /\ casts' = all
                  /\ UNCHANGED <<bytes, call, reply>>

\* An error is passed on; a trap in the extension is an "internal" one.
Fails ==
  /\ given # NoValue
  /\ \E e \in ErrorKinds : Replies(Failed(e))
  /\ answers' = NoValue

\* The core takes the reply.
TakeReply ==
  /\ reply # NoValue
  /\ call' = NoValue /\ given' = NoValue /\ reply' = NoValue
  /\ rest' = <<>> /\ casts' = <<>> /\ answers' = <<>>
  /\ UNCHANGED bytes

Calls ==
  /\ call = NoValue
  /\ \/ call_scalar \/ call_table \/ call_pragma \/ call_cast
     \/ call_scalar_batch_col \/ call_aggregate_col \/ call_cast_col

Answers == \/ dispatch_scalar \/ dispatch_aggregate \/ dispatch_pragma \/ dispatch_table
           \/ dispatch_scalar_batch \/ dispatch_cast \/ Fails

BridgeNext == Calls \/ Answers \/ TakeReply

BridgeSpec == BridgeInit /\ [][BridgeNext]_bridgeVars

-----------------------------------------------------------------------------
(* Properties.                                                             *)

\* What the extension reads is what the core meant: each argument in its
\* place and each row in its own, NULL where and only where it was NULL, in
\* spite of two changes of representation and of bitmaps that are left out or
\* shorter than the rows. Of a nested row only its number arrives.
Conveyed ==
  given # NoValue =>
    CASE call.method \in {"call-scalar", "call-table", "call-pragma"} ->
           [j \in DOMAIN given |-> given[j].v] = call.rows[1]
      [] call.method \in {"call-cast", "call-cast-col"} ->
           Len(given) = 1 /\ Reads(given[1].v, 1) = call.rows[Len(casts) + 1][1]
      [] OTHER ->
           call.rows # <<>> =>
             /\ Len(given) = Len(call.rows[1])
             /\ \A j \in DOMAIN given :
                  /\ given[j].v.rows = Len(call.rows)
                  /\ \A r \in DOMAIN call.rows : Reads(given[j].v, r) = call.rows[r][j]

\* Text for a 128-bit integer, everything else as it is.
Told(v) == IF v.arm \in Wide THEN Value("complex", v.arm, v.val[2]) ELSE v

\* What the core reads is what the extension answered, row by row; and it is
\* refused only if the extension refused, or has no such callback, or if the
\* adapter's form of a list of bytes is one that its reader does not take.
Delivered ==
  reply # NoValue =>
    CASE reply.kind = "values" ->
           reply.rows = [i \in DOMAIN answers |->
                           [j \in DOMAIN answers[i] |-> Told(answers[i][j])]]
      [] reply.kind = "column" ->
           /\ reply.col.rows = Len(answers)
           /\ \A r \in DOMAIN answers : Reads(reply.col, r) = Told(answers[r][1])
      [] reply.kind = "error" ->
           \/ answers = NoValue
           \/ answers = <<>> /\ reply.error = "invalidstate"
           \/ /\ bytes /\ reply.error = "internal"
              /\ \A i \in DOMAIN answers : answers[i][1].arm \in {"null", "uint8"}
      [] OTHER ->
           bytes /\ \E j \in DOMAIN call.rows[1] : call.rows[1][j].arm = "blob"
=============================================================================
