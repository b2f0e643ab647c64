------------------------------- MODULE SqlText -------------------------------
(* How the write intercept reads SQL text (at5_intercept.rs). A text is a  *)
(* sequence of atoms: words, numbers, quoted names and the marks below.    *)
(* Blanks are left out (two words always have one between them) except the *)
(* line break "nl", which ends a comment. Case is left out: a keyword is   *)
(* one atom in any case.                                                   *)
EXTENDS Integers, SequencesExt

CONSTANTS
  Numbers,    \* the atoms that are numbers
  QuotedNames \* the atoms that are names in double quotes

Quote == "'"
Marks == {".", ",", "(", ")", "=", ";", "?", Quote, "\"", "--", "/*", "*/", "nl"}

Trim(t) ==
  LET kept == {i \in DOMAIN t : t[i] # "nl"}
  IN IF kept = {} THEN <<>> ELSE SubSeq(t, Min(kept), Max(kept))

\* What is left of t after its first n atoms.
After(t, n) == Trim(SubSeq(t, n + 1, Len(t)))

starts_with_kw_ci(t, kw) == t # <<>> /\ Head(t) = kw

is_bare_ident(t) == Len(t) = 1 /\ t[1] \notin Marks \cup Numbers \cup QuotedNames

-----------------------------------------------------------------------------
(* The walkers. Each reads a text once and knows before every atom whether *)
(* it is in code, in a literal or in a comment. They differ in two ways:   *)
(* some know comments, and two are "lagging": of the doubled quote '' they *)
(* step over one character only, and take the second for the end.          *)

Closer == [single |-> Quote, double |-> "\"", line |-> "nl", block |-> "*/"]

Enters(atom, way) ==
  CASE atom = Quote -> "single"
    [] atom = "\"" -> "double"
    [] way = "comments" /\ atom = "--" -> "line"
    [] way = "comments" /\ atom = "/*" -> "block"
    [] OTHER -> "code"

\* The mode after `atom` in `mode`, where `next` is the atom that follows.
\* Faulty variant: quotes mean nothing.
StepBlind(mode, atom, next, way) == "code"

Step(mode, atom, next, way) ==
  IF mode = "code" THEN Enters(atom, way)
  ELSE IF atom # Closer[mode] THEN mode
  ELSE IF way = "lagging" /\ mode = "single" /\ next = Quote THEN mode
  ELSE "code"

\* The modes before each atom, and after the last one.
Walk(t, way) ==
  FoldLeftDomain(LAMBDA m, i : Append(m, Step(Last(m), t[i], IF i < Len(t) THEN t[i + 1] ELSE "nl", way)),
                 <<"code">>, t)

Code(t, way) == LET m == Walk(t, way) IN {i \in DOMAIN t : m[i] = "code"}

\* How many parentheses of the code are open before atom i.
Depth(t, code, i) ==
  Cardinality({k \in code : k < i /\ t[k] = "("}) - Cardinality({k \in code : k < i /\ t[k] = ")"})

Outside(t, way) == LET code == Code(t, way) IN {i \in code : Depth(t, code, i) = 0}

InOrder(places, t) == SelectSeq([i \in DOMAIN t |-> i], LAMBDA i : i \in places)

Cut(t, places) ==
  LET b == <<0>> \o InOrder(places, t) \o <<Len(t) + 1>>
  IN [k \in 1..(Len(b) - 1) |-> SubSeq(t, b[k] + 1, b[k + 1] - 1)]

First(places) == IF places = {} THEN 0 ELSE Min(places)

-----------------------------------------------------------------------------
\* The atoms of t's comments.
skip_comment(t) ==
  LET m == Walk(t, "comments")
  IN {i \in DOMAIN t : \/ m[i] = "code" /\ t[i] \in {"--", "/*"}
                       \/ m[i] \in {"line", "block"} /\ t[i] # "nl"}

\* Statements of a batch. Empty ones are dropped, those that consist of a
\* comment are not.
split_statements(t) ==
  SelectSeq(Cut(t, {i \in Code(t, "comments") : t[i] = ";"}), LAMBDA piece : Trim(piece) # <<>>)

\* Faulty variant: only a second semicolon tells.
is_multi_by_semicolons(t) ==
  \E i, j \in Code(t, "comments") : i < j /\ t[i] = ";" /\ t[j] = ";"

is_multi_statement(t) ==
  \E i, j \in Code(t, "comments") :
    i < j /\ t[i] = ";" /\ t[j] \notin {Quote, "\"", "nl", "--", "/*"}

strip_trailing_semicolon(t) ==
  LET s == Trim(t) IN IF s # <<>> /\ Last(s) = ";" THEN Trim(Front(s)) ELSE s

split_top_level_commas(t) ==
  LET pieces == Cut(t, {i \in Outside(t, "plain") : t[i] = ","})
  IN IF Trim(Last(pieces)) = <<>> THEN Front(pieces) ELSE pieces

\* The parenthesis that closes the first one, 0 for none.
balanced_close(t) ==
  LET code == Code(t, "lagging")
  IN IF t = <<>> \/ t[1] # "(" THEN 0
     ELSE First({i \in code : t[i] = ")" /\ Depth(t, code, i) = 1})

split_before_kw_ci(t, kw) ==
  LET at == First({i \in Outside(t, "plain") : t[i] = kw})
  IN IF at = 0 THEN [before |-> t, after |-> <<>>, found |-> FALSE]
     ELSE [before |-> SubSeq(t, 1, at - 1), after |-> After(t, at), found |-> TRUE]

find_assignment_equals(t) == First({i \in Outside(t, "lagging") : t[i] = "="})

contains_param_marker(t) == \E i \in Code(t, "plain") : t[i] \in {"?", "$1"}

\* Anywhere in the text, a literal included.
detect_trailing_non_goal(t) ==
  \E i \in DOMAIN t : t[i] \in {"RETURNING", "ON CONFLICT", "ON DUPLICATE KEY"}

\* The end of the literal that t starts with, 0 for none.
parse_single_quoted_string(t) ==
  IF t = <<>> \/ t[1] # Quote THEN 0
  ELSE LET m == Walk(t, "plain")
       IN First({i \in 2..Len(t) : t[i] = Quote /\ m[i + 1] = "code" /\ (i < Len(t) => t[i + 1] # Quote)})

\* A pair of quotes in a literal stands for one.
Unescaped(t) ==
  LET Next(acc, atom) ==
        IF atom = Quote /\ acc.half THEN [out |-> Append(acc.out, Quote), half |-> FALSE]
        ELSE [out |-> IF acc.half THEN acc.out \o <<Quote, atom>> ELSE IF atom = Quote THEN acc.out ELSE Append(acc.out, atom),
              half |-> atom = Quote]
      end == FoldLeft(Next, [out |-> <<>>, half |-> FALSE], t)
  IN IF end.half THEN Append(end.out, Quote) ELSE end.out

IsLiteral(t) == Len(t) >= 2 /\ t[1] = Quote /\ Last(t) = Quote

strip_quotes(t) == IF IsLiteral(t) THEN Unescaped(SubSeq(t, 2, Len(t) - 1)) ELSE t

\* A cell of VALUES or the right-hand side of SET.
parse_value_literal(t) ==
  IF t = <<"NULL">> THEN [is |-> "null", of |-> <<>>]
  ELSE IF IsLiteral(t) THEN [is |-> "string", of |-> strip_quotes(t)]
  ELSE IF Len(t) = 4 /\ t[1] = "X" /\ IsLiteral(Tail(t)) THEN [is |-> "blob", of |-> <<t[3]>>]
  ELSE IF Len(t) = 1 /\ t[1] \in Numbers THEN [is |-> "number", of |-> t]
  ELSE [is |-> "raw", of |-> t]

\* A dotted name at the start of t: names and dots with no blank in between.
take_dotted_ident(t) ==
  LET part == {i \in DOMAIN t : /\ t[i] = "." \/ t[i] \notin Marks
                                /\ i > 1 /\ t[i] # "." => t[i - 1] = "."}
  IN SubSeq(t, 1, Max({n \in 0..Len(t) : 1..n \subseteq part}))

strip_optional_if_not_exists(t) == IF IsPrefix(<<"IF", "NOT", "EXISTS">>, t) THEN After(t, 3) ELSE t

strip_optional_or_clause(t) ==
  IF Len(t) >= 2 /\ t[1] = "OR" /\ t[2] \in {"REPLACE", "IGNORE", "FAIL", "ABORT", "ROLLBACK"}
  THEN After(t, 2) ELSE t

Constraints == {"PRIMARY", "NOT", "UNIQUE", "DEFAULT", "CHECK", "REFERENCES", "COLLATE",
                "GENERATED", "AUTO_INCREMENT", "AUTOINCREMENT", "NULL"}

\* The type of a column definition: what stands before its first constraint.
strip_column_constraints(t) ==
  LET at == First({i \in Outside(t, "plain") : t[i] \in Constraints})
  IN IF at = 0 THEN t ELSE SubSeq(t, 1, at - 1)
=============================================================================
