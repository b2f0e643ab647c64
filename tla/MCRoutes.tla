------------------------------ MODULE MCRoutes ------------------------------
(* Statements and batches for TLC. Literals hold what could be taken for   *)
(* code: semicolons, commas, parentheses, comment marks, keywords, markers.*)
EXTENDS WriteRoutes

Far == <<"far", ".", "t">>
Near == <<"near", ".", "t">>

Str(body) == [is |-> "string", of |-> body]
Num(n) == [is |-> "number", of |-> <<n>>]
Null == [is |-> "null", of |-> <<>>]
Blob == [is |-> "blob", of |-> <<"ff">>]
Raw(text) == [is |-> "raw", of |-> text]

\* Literals that look like code, and one with a quote in it.
Tricky == {Str(<<atom>>) : atom \in {";", ",", ")", "(", "--", "/*", "?", "WHERE", "=", "\""}}
Escaped == Str(<<"a", Quote, "b">>)
Plain == {Num("1"), Null, Blob, Str(<<"a">>)}
Refused == {Str(<<"RETURNING">>), Raw(<<"?">>), Raw(<<"now", "(", ")">>), Raw(<<"a">>)}
Cells == Tricky \cup Plain \cup Refused \cup {Escaped}

InsertOf(name, columns, rows) ==
  [op |-> "insert", to |-> IF Len(name) = 3 THEN <<name[1], name[3]>> ELSE <<>>, name |-> name,
   or |-> <<>>, columns |-> columns, rows |-> rows, tail |-> <<>>]

Inserts ==
  {InsertOf(Far, columns, rows) :
     columns \in {<<>>, <<"a">>},
     rows \in {<<<<c>>>> : c \in Cells} \cup {<<<<c>>, <<d>>>> : c \in Plain, d \in Cells}
              \cup {<<<<c, Num("2")>>>> : c \in Cells} \cup {<<<<c, d>>>> : c, d \in Tricky}}
  \cup {InsertOf(Near, <<>>, <<<<Num("1")>>>>), InsertOf(<<"t">>, <<"a">>, <<<<Escaped>>>>)}
  \cup {[InsertOf(Far, <<>>, <<>>) EXCEPT !.tail = tail] : tail \in {<<"SELECT", "1">>, <<"DEFAULT", "VALUES">>}}
  \cup {[InsertOf(Far, <<>>, <<<<Num("1")>>>>) EXCEPT !.or = <<"OR", "REPLACE">>],
        [InsertOf(Far, <<>>, <<<<Num("1")>>>>) EXCEPT !.tail = <<"RETURNING", "a">>]}

UpdateOf(name, sets, where) ==
  [op |-> "update", to |-> <<name[1], name[3]>>, name |-> name, sets |-> sets, where |-> where, tail |-> <<>>]

Conditions == {<<>>, <<"a", "=", "1">>, <<"a", "=", Quote, "WHERE", Quote>>, <<"(", "a", "=", "b", ")">>}

Updates ==
  {UpdateOf(Far, sets, where) :
     where \in Conditions,
     sets \in {<<[column |-> "a", value |-> c]>> : c \in Cells}
              \cup {<<[column |-> "a", value |-> c], [column |-> "b", value |-> Num("1")]>> : c \in Cells}}
  \cup {UpdateOf(Near, <<[column |-> "a", value |-> Escaped]>>, <<>>)}

Deletes ==
  {[op |-> "delete", to |-> <<name[1], name[3]>>, name |-> name, where |-> where, tail |-> tail] :
     name \in {Far, Near}, where \in Conditions, tail \in {<<>>, <<"RETURNING", "a">>}}

\* Names as a statement may quote them.
MCQuoted == {"\"far\"", "\"a\""}

MCTypes == << <<"INTEGER">>, <<"DOUBLE", "PRECISION">>, <<"VARCHAR">>, <<"DECIMAL">> >>
MCLogical == [t \in {MCTypes[k] : k \in 1..4} |->
  CASE t = MCTypes[1] -> "int32" [] t = MCTypes[2] -> "float64" [] t = MCTypes[3] -> "text" [] OTHER -> "decimal"]

Column(type, means, constraint) == [column |-> "a", type |-> type, means |-> means, constraint |-> constraint]

Columns ==
  {Column(<<"INTEGER">>, <<"int32">>, c) :
     c \in {<<>>, <<"PRIMARY", "KEY">>, <<"DEFAULT", Quote, "NOT", Quote>>, <<"CHECK", "(", "a", "=", "1", ",", "2", ")">>}}
  \cup {Column(<<"VARCHAR", "(", "2", ")">>, <<"text">>, <<"NOT", "NULL">>),
        Column(<<"DOUBLE", "PRECISION">>, <<"float64">>, <<"DEFAULT", "1">>),
        Column(<<"DECIMAL">>, <<"decimal", "18", "3">>, <<>>),
        Column(<<"DECIMAL", "(", "2", ",", "1", ")">>, <<"decimal", "2", "1">>, <<"UNIQUE">>),
        Column(<<"DECIMAL", "(", "2", ")">>, <<"decimal", "2", "0">>, <<>>),
        Column(<<"POINT">>, <<"unrecognized">>, <<>>)}

CreateOf(name, columns) ==
  [op |-> "create", to |-> <<name[1], name[3]>>, name |-> name, or |-> <<>>, absent |-> FALSE,
   columns |-> columns, tail |-> <<>>]

Creates ==
  {CreateOf(Far, columns) : columns \in {<<c>> : c \in Columns} \cup {<<c, d>> : c, d \in Columns}}
  \cup {[CreateOf(Far, <<Column(<<"INTEGER">>, <<"int32">>, <<>>)>>) EXCEPT !.absent = TRUE],
        [CreateOf(Far, <<Column(<<"INTEGER">>, <<"int32">>, <<>>)>>) EXCEPT !.or = <<"OR", "REPLACE">>],
        [CreateOf(Far, <<Column(<<"INTEGER">>, <<"int32">>, <<>>)>>) EXCEPT !.tail = <<"x">>],
        CreateOf(Near, <<Column(<<"INTEGER">>, <<"int32">>, <<>>)>>)}

AttachOf(dsn, absent, options, means) ==
  [op |-> "attach", to |-> <<"far">>, name |-> <<"far">>, dsn |-> dsn, absent |-> absent, options |-> options, means |-> means]

Attaches ==
  {AttachOf(dsn, absent, <<<<"TYPE", "x">>>>, {<<"type", <<"x">>>>}) :
     dsn \in {<<"f">>, <<"f", ";", "--">>, <<Quote, "f">>, <<")">>}, absent \in BOOLEAN}
  \cup {AttachOf(<<"f">>, FALSE, <<<<"READ_ONLY">>, <<"TYPE", "=", "x">>>>, {<<"type", <<"x">>>>, <<"read_only", <<"true">>>>}),
        AttachOf(<<"f">>, FALSE, <<<<"k", "=", Quote, ",", Quote>>, <<"TYPE", Quote, "x", Quote>>>>,
                 {<<"k", <<",">>>>, <<"type", <<"x">>>>})}

Others ==
  {[op |-> "other", to |-> <<>>, text |-> text] :
     text \in {<<"SELECT", Quote, ";", Quote>>, <<"SELECT", "\"", ";", "\"">>, <<"BEGIN">>,
               <<"ATTACH", Quote, "f", Quote, "AS", "near">>,
               <<"CREATE", "VIEW", "v", "AS", "SELECT", "1">>,
               <<"WITH", "c", "AS", "(", "SELECT", "1", ")", "INSERT", "INTO", "far", ".", "t", "SELECT", "1">>,
               <<"WITH", "c", "AS", "(", "SELECT", "1", ")", "SELECT", "far", ".", "t">>}}

WrittenStatements == Inserts \cup Updates \cup Deletes \cup Creates \cup Attaches \cup Others

Leads == {<<>>, <<"--", ";", Quote, "nl">>, <<"/*", ";", "--", "*/">>}

\* A statement of each kind, for batches of several.
Sample ==
  {InsertOf(Far, <<>>, <<<<Str(<<";">>), Str(<<"--">>)>>, <<Num("1"), Null>>>>),
   InsertOf(Near, <<>>, <<<<Escaped>>>>),
   UpdateOf(Far, <<[column |-> "a", value |-> Str(<<"/*">>)]>>, <<"a", "=", "1">>),
   [op |-> "delete", to |-> <<"far", "t">>, name |-> Far, where |-> <<>>, tail |-> <<>>],
   CreateOf(Far, <<Column(<<"INTEGER">>, <<"int32">>, <<"DEFAULT", Quote, "NOT", Quote>>)>>),
   AttachOf(<<"f", ";", "--">>, FALSE, <<<<"TYPE", "x">>>>, {<<"type", <<"x">>>>})}
  \cup Others

\* A comment in front of CREATE TABLE is left out: the statement would reach
\* the core, which creates the table in memory.
Leading(s) == IF s.op = "create" THEN {<<>>} ELSE Leads

Closing == {<<>>, <<";">>}

MCBatches ==
  {[asked |-> <<s>>, text |-> Written(s) \o end] : s \in WrittenStatements, end \in Closing}
  \cup UNION {{[asked |-> <<s>>, text |-> lead \o Written(s) \o end] : lead \in Leading(s), end \in Closing} : s \in Sample}
  \cup UNION {{[asked |-> <<s1, s2>>, text |-> l1 \o Written(s1) \o <<";">> \o l2 \o Written(s2) \o end] :
                 l1 \in Leading(s1), l2 \in Leading(s2), end \in Closing} : s1 \in Sample, s2 \in Sample}
=============================================================================
