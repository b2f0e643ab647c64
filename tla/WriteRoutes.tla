----------------------------- MODULE WriteRoutes -----------------------------
(* A session executes batches of SQL text (lib.rs, execute and             *)
(* execute_single_statement): a batch is split into statements; ATTACH     *)
(* with a TYPE and writes to an attached alias are recognized by their     *)
(* text and never reach the core (at5_intercept.rs); all else does. What   *)
(* the writes do to the foreign database is AttachedStorage's subject.     *)
(*                                                                         *)
(* A batch is given as the statements its author means, and the text they  *)
(* are written in; the session sees the text only.                         *)
EXTENDS SqlText

CONSTANTS
  Batches,  \* [asked : statements, text : their text]
  TypeNames     \* type names of CREATE TABLE -> logical types

VARIABLES
  aliases,  \* attached_aliases: the aliases whose writes are intercepted
  script,    \* the statements the batch's author means
  waiting,     \* the texts still to execute
  done      \* how the statements of the batch ended, so far

routeVars == <<aliases, script, waiting, done>>

-----------------------------------------------------------------------------
(* Recognizing statements. A route is what is done instead of passing the  *)
(* text on, ToCore that it goes to the core.                                 *)

ToCore == [kind |-> "core"]
Unsupported == [kind |-> "refused"]

split_alias_table(ident) ==
  IF Len(ident) = 3 /\ ident[2] = "." /\ is_bare_ident(<<ident[1]>>) /\ is_bare_ident(<<ident[3]>>)
  THEN <<ident[1], ident[3]>> ELSE <<>>

Attached(to, known) == to # <<>> /\ to[1] \in known

parse_attach_option(part) ==
  LET eq == First({i \in DOMAIN part : part[i] = "="})
      value == IF IsPrefix(<<"TYPE", "=">>, part) THEN After(part, 2) ELSE After(part, 1)
  IN IF part = <<>> THEN <<"ignored", <<>>>>
     ELSE IF part[1] = "TYPE" THEN <<"type", strip_quotes(value)>>
     ELSE IF part[1] = "READ_ONLY" THEN <<"read_only", <<"true">>>>
     ELSE IF eq > 0 THEN <<part[1], strip_quotes(After(part, eq))>>
     ELSE <<"ignored", <<>>>>

parse_attach_options(inside) ==
  LET parts == split_top_level_commas(inside)
  IN {parse_attach_option(Trim(parts[k])) : k \in DOMAIN parts}

parse_attach(text) ==
  LET t == strip_trailing_semicolon(text)
      named == strip_optional_if_not_exists(After(t, 1))
      end == parse_single_quoted_string(named)
      rest == After(named, end)              \* AS <alias> ( ... )
      close == SelectLastInSeq(rest, LAMBDA atom : atom = ")")
      options == parse_attach_options(SubSeq(rest, 4, close - 1))
  IN IF \/ ~starts_with_kw_ci(t, "ATTACH") \/ end = 0
        \/ ~(Len(rest) > 3 /\ rest[1] = "AS" /\ is_bare_ident(<<rest[2]>>) /\ rest[3] = "(" /\ close > 0)
        \/ ~\E o \in options : o[1] = "type"
     THEN ToCore
     ELSE [kind |-> "attach", alias |-> rest[2], dsn |-> strip_quotes(SubSeq(named, 1, end)),
           options |-> options, absent |-> named # After(t, 1)]

any_write_touches_attached(t, known) ==
  /\ \E i \in DOMAIN t : t[i] \in {"INSERT", "UPDATE", "DELETE"}
  /\ \E i \in DOMAIN t : i < Len(t) /\ t[i] \in known /\ t[i + 1] = "."

\* The rows of VALUES. What follows a row and is neither a comma nor another
\* row ends them, whatever it is.
Unclosed == <<[is |-> "unclosed", of |-> <<>>]>>

parse_values_tuples(t) ==
  LET rows[i \in 1..(Len(t) + 1)] ==
        IF i > Len(t) THEN <<>>
        ELSE IF t[i] \in {",", "nl"} THEN rows[i + 1]
        ELSE IF t[i] # "(" THEN <<>>
        ELSE LET close == balanced_close(SubSeq(t, i, Len(t)))
                 cells == split_top_level_commas(SubSeq(t, i + 1, i + close - 2))
             IN IF close = 0 THEN <<Unclosed>>
                ELSE <<[k \in DOMAIN cells |-> parse_value_literal(Trim(cells[k]))]>> \o rows[i + close]
  IN rows[1]

parse_insert(t, known) ==
  LET or == strip_optional_or_clause(After(t, 1))
      ident == take_dotted_ident(After(or, 1))
      to == split_alias_table(ident)
      rest == After(or, 1 + Len(ident))
      close == balanced_close(rest)
      listed == rest # <<>> /\ rest[1] = "("
      names == split_top_level_commas(SubSeq(rest, 2, close - 1))
      source == IF listed THEN After(rest, close) ELSE rest
      values == After(source, 1)
      rows == parse_values_tuples(values)
  IN IF ~starts_with_kw_ci(or, "INTO") \/ ~Attached(to, known) THEN ToCore
     ELSE IF or # After(t, 1) THEN Unsupported
     ELSE IF listed /\ close = 0 THEN ToCore
     ELSE IF \/ ~starts_with_kw_ci(source, "VALUES")
             \/ detect_trailing_non_goal(values) \/ contains_param_marker(values) THEN Unsupported
     ELSE IF rows = <<>> \/ Contains(rows, Unclosed) THEN ToCore
     ELSE [kind |-> "insert", to |-> to, rows |-> rows,
           columns |-> IF listed THEN [k \in DOMAIN names |-> Trim(names[k])] ELSE <<>>]

\* The assignments that can be read; the others are left out.
Assignments(t) ==
  LET pieces == split_top_level_commas(t)
      Read(piece) ==
        LET eq == find_assignment_equals(piece)
        IN IF eq = 2 /\ is_bare_ident(<<piece[1]>>)
           THEN <<[column |-> piece[1], value |-> parse_value_literal(After(piece, eq))]>> ELSE <<>>
  IN FlattenSeq([k \in DOMAIN pieces |-> Read(Trim(pieces[k]))])

parse_update(t, known) ==
  LET ident == take_dotted_ident(After(t, 1))
      to == split_alias_table(ident)
      rest == After(t, 1 + Len(ident))
      body == After(rest, 1)
      parts == split_before_kw_ci(body, "WHERE")
      sets == Assignments(Trim(parts.before))
  IN IF ~Attached(to, known) THEN ToCore
     ELSE IF \/ ~starts_with_kw_ci(rest, "SET") \/ contains_param_marker(body)
             \/ detect_trailing_non_goal(body) \/ sets = <<>> THEN Unsupported
     ELSE [kind |-> "update", to |-> to, sets |-> sets, where |-> parts.after]

parse_delete(t, known) ==
  LET ident == take_dotted_ident(After(t, 2))
      to == split_alias_table(ident)
      rest == After(t, 2 + Len(ident))
  IN IF ~starts_with_kw_ci(After(t, 1), "FROM") \/ ~Attached(to, known) THEN ToCore
     ELSE IF \/ contains_param_marker(rest) \/ detect_trailing_non_goal(rest)
             \/ rest # <<>> /\ ~starts_with_kw_ci(rest, "WHERE") THEN Unsupported
     ELSE [kind |-> "delete", to |-> to, where |-> After(rest, 1)]

TableConstraint(piece) ==
  \/ Len(piece) > 1 /\ piece[1] \in {"PRIMARY", "FOREIGN"} /\ piece[2] = "KEY"
  \/ Len(piece) > 1 /\ piece[1] \in {"UNIQUE", "CONSTRAINT", "CHECK"}

parse_create_table(t, known) ==
  LET replaces == IsPrefix(<<"OR", "REPLACE">>, After(t, 1))
      table == After(t, IF replaces THEN 3 ELSE 1)
      named == strip_optional_if_not_exists(After(table, 1))
      ident == take_dotted_ident(named)
      to == split_alias_table(ident)
      rest == After(named, Len(ident))
      close == balanced_close(rest)
      pieces == split_top_level_commas(SubSeq(rest, 2, close - 1))
      defs == SelectSeq([k \in DOMAIN pieces |-> Trim(pieces[k])], LAMBDA p : p # <<>> /\ ~TableConstraint(p))
      columns == [k \in DOMAIN defs |-> [column |-> Head(defs[k]), type |-> strip_column_constraints(Tail(defs[k]))]]
  IN IF ~starts_with_kw_ci(table, "TABLE") \/ ~Attached(to, known) THEN ToCore
     ELSE IF replaces \/ rest = <<>> \/ rest[1] # "(" THEN Unsupported
     ELSE IF close = 0 THEN ToCore
     ELSE IF \/ After(rest, close) \notin {<<>>, <<";">>} \/ columns = <<>>
             \/ \E k \in DOMAIN columns : ~is_bare_ident(<<columns[k].column>>) \/ columns[k].type = <<>>
     THEN Unsupported
     ELSE [kind |-> "create", to |-> to, columns |-> columns, absent |-> named # After(table, 1)]

resolve_write_target(text, known) ==
  LET t == strip_trailing_semicolon(text)
  IN IF is_multi_statement(text) \/ starts_with_kw_ci(t, "WITH")
     THEN IF any_write_touches_attached(t, known) THEN Unsupported ELSE ToCore
     ELSE CASE starts_with_kw_ci(t, "INSERT") -> parse_insert(t, known)
            [] starts_with_kw_ci(t, "UPDATE") -> parse_update(t, known)
            [] starts_with_kw_ci(t, "DELETE") -> parse_delete(t, known)
            [] starts_with_kw_ci(t, "CREATE") -> parse_create_table(t, known)
            [] OTHER -> ToCore

-----------------------------------------------------------------------------
(* What the session does with a route.                                     *)

\* The type text of a column: its name, with DECIMAL's width and scale.
sql_type_to_extension_logical(t) ==
  LET open == First({i \in DOMAIN t : t[i] = "("})
      close == SelectLastInSeq(t, LAMBDA atom : atom = ")")
      base == IF open = 0 THEN t ELSE SubSeq(t, 1, open - 1) \o After(t, close)
      args == IF open = 0 THEN <<"18", ",", "3">> ELSE SubSeq(t, open + 1, close - 1)
  IN IF base \notin DOMAIN TypeNames THEN <<"unrecognized">>
     ELSE IF TypeNames[base] # "decimal" THEN <<TypeNames[base]>>
     ELSE IF Len(args) = 1 /\ args[1] \in Numbers THEN <<"decimal", args[1], "0">>
     ELSE IF Len(args) = 3 /\ {args[1], args[3]} \subseteq Numbers THEN <<"decimal", args[1], args[3]>>
     ELSE <<"unrecognized">>

Logical(columns) ==
  [k \in DOMAIN columns |-> [column |-> columns[k].column, type |-> sql_type_to_extension_logical(columns[k].type)]]

\* Only literals go to an extension, and as many as there are columns named.
Literals(values) == \A k \in DOMAIN values : values[k].is # "raw"

Converts(route) ==
  CASE route.kind = "insert" ->
         \A k \in DOMAIN route.rows :
           /\ route.columns = <<>> \/ Len(route.rows[k]) = Len(route.columns)
           /\ Literals(route.rows[k])
    [] route.kind = "update" -> Literals([k \in DOMAIN route.sets |-> route.sets[k].value])
    [] route.kind = "create" ->
         \A k \in DOMAIN route.columns :
           sql_type_to_extension_logical(route.columns[k].type) # <<"unrecognized">>
    [] OTHER -> route.kind # "refused"

Dispatched(route) ==
  IF route.kind = "create" THEN [route EXCEPT !.columns = Logical(route.columns)] ELSE route

Route(text) ==
  LET attach == parse_attach(text)
  IN IF attach # ToCore THEN attach
     ELSE IF aliases # {} THEN resolve_write_target(text, aliases) ELSE ToCore

Uncommented(t) ==
  LET kept == InOrder({i \in DOMAIN t \ skip_comment(t) : t[i] # "nl"}, t) IN [k \in DOMAIN kept |-> t[kept[k]]]

\* The core has a view where the foreign database has a table.
CoreRefuses(n) ==
  n \in DOMAIN script /\ script[n].op \in {"insert", "update", "delete"} /\ Attached(script[n].to, aliases)

RoutesInit == aliases = {} /\ script = <<>> /\ waiting = <<>> /\ done = <<>>

execute ==
  /\ waiting = <<>> /\ done = <<>>
  /\ \E batch \in Batches :
       /\ script' = batch.asked
       /\ waiting' = IF is_multi_statement(batch.text) THEN split_statements(batch.text) ELSE <<batch.text>>
  /\ UNCHANGED <<aliases, done>>

\* execute returns the result of the last statement, or the error.
Returns ==
  /\ waiting = <<>> /\ done # <<>>
  /\ script' = <<>> /\ done' = <<>>
  /\ UNCHANGED <<aliases, waiting>>

Ends(effect) ==
  /\ done' = Append(done, effect)
  /\ UNCHANGED script

InterceptAttach(route) ==
  /\ route.kind = "attach" /\ Ends(route)
  /\ aliases' = aliases \cup {route.alias}
  /\ waiting' = Tail(waiting)

InterceptWrite(route) ==
  /\ route.kind \notin {"attach", "core"} /\ Converts(route) /\ Ends(Dispatched(route))
  /\ waiting' = Tail(waiting)
  /\ UNCHANGED aliases

Refuse(route) ==
  /\ ~Converts(route) /\ Ends(Unsupported)
  /\ waiting' = <<>>
  /\ UNCHANGED aliases

PassOn(route) ==
  /\ route = ToCore /\ ~CoreRefuses(Len(done) + 1)
  /\ Ends([kind |-> "core", text |-> Uncommented(Head(waiting))])
  /\ waiting' = Tail(waiting)
  /\ UNCHANGED aliases

\* The extension or the core answers with an error.
Fails(route) ==
  /\ Converts(route) /\ Ends([kind |-> "failed"])
  /\ waiting' = <<>>
  /\ UNCHANGED aliases

execute_single_statement ==
  /\ waiting # <<>>
  /\ \E route \in {Route(Trim(Head(waiting)))} :
       InterceptAttach(route) \/ InterceptWrite(route) \/ Refuse(route) \/ PassOn(route) \/ Fails(route)

RoutesNext == execute \/ execute_single_statement \/ Returns

RoutesSpec == RoutesInit /\ [][RoutesNext]_routeVars

-----------------------------------------------------------------------------
(* Statements as their authors mean them, and as they are written.         *)

Joined(parts) ==
  FlattenSeq([k \in DOMAIN parts |-> IF k = 1 THEN parts[k] ELSE <<",">> \o parts[k]])

Doubled(body) == FlattenSeq([k \in DOMAIN body |-> IF body[k] = Quote THEN <<Quote, Quote>> ELSE <<body[k]>>])

Literal(v) ==
  CASE v.is = "null" -> <<"NULL">>
    [] v.is = "string" -> <<Quote>> \o Doubled(v.of) \o <<Quote>>
    [] v.is = "blob" -> <<"X", Quote>> \o v.of \o <<Quote>>
    [] OTHER -> v.of

Tuple(parts) == <<"(">> \o Joined(parts) \o <<")">>
Optional(present, words) == IF present THEN words ELSE <<>>
Singles(seq) == [k \in DOMAIN seq |-> <<seq[k]>>]

Written(s) ==
  CASE s.op = "insert" ->
         <<"INSERT">> \o s.or \o <<"INTO">> \o s.name
           \o Optional(s.columns # <<>>, Tuple(Singles(s.columns)))
           \o Optional(s.rows # <<>>, <<"VALUES">>)
           \o Joined([k \in DOMAIN s.rows |->
                 Tuple([j \in DOMAIN s.rows[k] |-> Literal(s.rows[k][j])])])
           \o s.tail
    [] s.op = "update" ->
         <<"UPDATE">> \o s.name \o <<"SET">>
           \o Joined([k \in DOMAIN s.sets |-> <<s.sets[k].column, "=">> \o Literal(s.sets[k].value)])
           \o Optional(s.where # <<>>, <<"WHERE">> \o s.where) \o s.tail
    [] s.op = "delete" ->
         <<"DELETE", "FROM">> \o s.name \o Optional(s.where # <<>>, <<"WHERE">> \o s.where) \o s.tail
    [] s.op = "create" ->
         <<"CREATE">> \o s.or \o <<"TABLE">> \o Optional(s.absent, <<"IF", "NOT", "EXISTS">>) \o s.name
           \o Tuple([k \in DOMAIN s.columns |-> <<s.columns[k].column>> \o s.columns[k].type \o s.columns[k].constraint])
           \o s.tail
    [] s.op = "attach" ->
         <<"ATTACH">> \o Optional(s.absent, <<"IF", "NOT", "EXISTS">>) \o Literal([is |-> "string", of |-> s.dsn])
           \o <<"AS">> \o s.name \o Tuple(s.options)
    [] OTHER -> s.text

Meant(s) ==
  CASE s.op = "insert" -> [kind |-> "insert", to |-> s.to, rows |-> s.rows, columns |-> Singles(s.columns)]
    [] s.op = "update" -> [kind |-> "update", to |-> s.to, sets |-> s.sets, where |-> s.where]
    [] s.op = "delete" -> [kind |-> "delete", to |-> s.to, where |-> s.where]
    [] s.op = "create" ->
         [kind |-> "create", to |-> s.to, absent |-> s.absent,
          columns |-> [k \in DOMAIN s.columns |-> [column |-> s.columns[k].column, type |-> s.columns[k].means]]]
    [] s.op = "attach" ->
         [kind |-> "attach", alias |-> s.to[1], dsn |-> s.dsn, options |-> s.means, absent |-> s.absent]
    [] OTHER -> ToCore

Writes == {"insert", "update", "delete", "create"}

\* The write intercept does not take the statement, whose text has a clause,
\* a marker or a value that it refuses, or a word of one.
NonGoal(s) ==
  LET t == Written(s)
  IN \/ detect_trailing_non_goal(t) \/ contains_param_marker(t)
     \/ s.op \in Writes /\ s.tail # <<>>
     \/ s.op \in {"insert", "create"} /\ s.or # <<>>
     \/ s.op = "insert" /\ \E k \in DOMAIN s.rows :
          ~Literals(s.rows[k]) \/ (s.columns # <<>> /\ Len(s.rows[k]) # Len(s.columns))
     \/ s.op = "update" /\ \E k \in DOMAIN s.sets : s.sets[k].value.is = "raw"
     \/ s.op = "create" /\ \E k \in DOMAIN s.columns : s.columns[k].means = <<"unrecognized">>
     \/ s.op = "other" /\ any_write_touches_attached(t, aliases)

Foreign(s) == s.op \in Writes /\ Attached(s.to, aliases)

-----------------------------------------------------------------------------
(* Properties.                                                             *)

\* Whatever is acknowledged is what the statement says: a write to an
\* attached alias is dispatched with its rows, assignments, columns and
\* condition and never runs on the core; every other statement runs on the
\* core as it was written; a refusal has one of the documented reasons.
Faithful ==
  done # <<>> =>
    LET effect == Last(done)
        s == IF Len(done) \in DOMAIN script THEN script[Len(done)] ELSE [op |-> "none", to |-> <<>>]
    IN \/ effect.kind = "failed"
       \/ effect = Meant(s) /\ (Foreign(s) \/ s.op = "attach")
       \/ effect.kind = "core" /\ ~Foreign(s) /\ s.op # "none" /\ effect.text \in {Written(s), Append(Written(s), ";")}
       \/ effect.kind = "refused" /\ (Foreign(s) \/ s.op = "other") /\ NonGoal(s)

\* A batch that ends without an error has executed every statement of it,
\* one at a time.
Complete ==
  waiting = <<>> /\ done # <<>> /\ Last(done).kind \notin {"failed", "refused"} => Len(done) = Len(script)
=============================================================================
