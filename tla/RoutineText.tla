---------------------------- MODULE RoutineText ----------------------------
(***************************************************************************)
(* How the body of a stored procedure is cut into what CALL executes.  The *)
(* server keeps the body as text and cuts it by searching for keywords:    *)
(* the top level into actions or into the branches of an IF or CASE, an    *)
(* action into statements, a block statement into its head and its body.   *)
(*                                                                         *)
(* A text is a sequence of tokens, each a record with a kind k and a name  *)
(* n.  A condition belongs to the token of its keyword ("while" stands for *)
(* WHILE c DO, "if" for IF c THEN, "until" for UNTIL c).  A statement that *)
(* is not a block is one token.                                            *)
(***************************************************************************)
EXTENDS Integers, Sequences, SequencesExt, FiniteSets, FiniteSetsExt

Token(kind) == [k |-> kind, n |-> ""]
Named(kind, name) == [k |-> kind, n |-> name]
Semicolon == Token(";")

Heads == {"loop", "while", "repeat", "begin"}
Ends == {"end", "endloop", "endwhile", "endrepeat", "endif", "endcase"}

\* A statement whose own text holds the letters "end" (a table "calendar"),
\* and what is left of it when it is cut there.
SpelledWithEnd == "calendar"
Cut == "cal"

Places(text, kinds) == {i \in DOMAIN text : text[i].k \in kinds}

\* The text between the semicolons, without the empty pieces.
Split(text) ==
  LET cut(i) == Min({j \in Places(text, {";"}) : j >= i} \union {Len(text) + 1})
      pieces[i \in 1 .. Len(text) + 2] ==
        IF i > Len(text) THEN <<>>
        ELSE (IF cut(i) = i THEN <<>> ELSE <<SubSeq(text, i, cut(i) - 1)>>)
               \o pieces[cut(i) + 1]
  IN  pieces[1]

TrimEnd(text) ==
  IF text # <<>> /\ Last(text) = Semicolon THEN Front(text) ELSE text

---------------------------------------------------------------------------
(* Blocks of an action.                                                    *)

\* What the text of a block must contain to count as complete.
Closes(head, token) ==
  CASE head = "loop"   -> token.k = "endloop"
    [] head = "while"  -> token.k = "endwhile"
    [] head = "repeat" -> token.k = "endrepeat"
    [] OTHER           -> token.k \in Ends \/ token.n = SpelledWithEnd

Complete(head, text) == \E i \in DOMAIN text : Closes(head, text[i])

JoinPieces(pieces) ==
  LET joined[i \in DOMAIN pieces] ==
        IF i = 1 THEN pieces[1] ELSE joined[i - 1] \o <<Semicolon>> \o pieces[i]
  IN  joined[Len(pieces)]

\* The pieces from one that starts a block up to the first that closes it
\* become one statement; with none that does, all the rest.
coalesce_compound_blocks(pieces) ==
  LET head(i) == pieces[i][1].k
      last(i) == IF head(i) \notin Heads THEN i
                 ELSE Min({j \in i .. Len(pieces) : Complete(head(i), pieces[j])}
                            \union {Len(pieces)})
      merged[i \in 1 .. Len(pieces) + 1] ==
        IF i > Len(pieces) THEN <<>>
        ELSE <<JoinPieces(SubSeq(pieces, i, last(i)))>> \o merged[last(i) + 1]
  IN  merged[1]

split_sql_statements_for_call_action(text) == coalesce_compound_blocks(Split(text))

\* A block statement: whether it parses, and the text of its body.  The body
\* ends at the last closing keyword, and that of REPEAT at the first UNTIL.
parse_local_block(text) ==
  LET head == text[1].k
      closers == {i \in DOMAIN text : i > 1 /\ Closes(head, text[i])}
      untils == Places(text, {"until"})
      cutShort == IF closers # {} /\ text[Max(closers)].n = SpelledWithEnd
                  THEN <<Named("sql", Cut)>> ELSE <<>>
      stop == IF head = "repeat" THEN Min(untils) ELSE Max(closers)
  IN  IF \/ closers = {}
         \/ head = "repeat" /\ (untils = {} \/ Max(closers) <= Min(untils))
      THEN [ok |-> FALSE, body |-> <<>>]
      ELSE [ok |-> TRUE, body |-> SubSeq(text, 2, stop - 1) \o cutShort]

---------------------------------------------------------------------------
(* The actions of a procedure.                                             *)

NoPlan == [ok |-> FALSE, branches |-> <<>>, hasElse |-> FALSE, else |-> <<>>]

\* A plan is dropped when any of its actions is empty.
PlanOf(branches, hasElse, else) ==
  IF \/ \E i \in DOMAIN branches : TrimEnd(branches[i]) = <<>>
     \/ hasElse /\ TrimEnd(else) = <<>>
  THEN NoPlan
  ELSE [ok |-> TRUE, branches |-> [i \in DOMAIN branches |-> TrimEnd(branches[i])],
        hasElse |-> hasElse, else |-> TrimEnd(else)]

\* IF: each branch ends at the next ELSEIF, ELSE or END IF, whoever it belongs
\* to; the ELSE branch at the last END IF of the text.
parse_if_else_end_plan_from_statement(text) ==
  LET clauses == {"elseif", "else", "endif"}
      after(i) == {j \in Places(text, clauses) : j > i}
      plan[i \in DOMAIN text] ==
        IF after(i) = {} THEN <<>>
        ELSE LET j == Min(after(i))
             IN  <<[from |-> i, to |-> j]>>
                   \o (IF text[j].k = "elseif" THEN plan[j] ELSE <<>>)
      cuts == plan[1]
      branches == [b \in DOMAIN cuts |-> SubSeq(text, cuts[b].from + 1, cuts[b].to - 1)]
      stop == Last(cuts).to
      lastEnd == Places(text, {"endif"})
  IN  IF cuts = <<>> THEN NoPlan
      ELSE CASE text[stop].k = "endif" -> PlanOf(branches, FALSE, <<>>)
             [] text[stop].k = "else" ->
                  IF lastEnd = {} \/ Max(lastEnd) < stop THEN NoPlan
                  ELSE PlanOf(branches, TRUE, SubSeq(text, stop + 1, Max(lastEnd) - 1))
             [] OTHER -> NoPlan

\* CASE: each branch ends at the next WHEN, ELSE or END of any kind, and the
\* statement must then end with END CASE.
parse_case_plan_from_statement(text) ==
  LET clauses == {"when", "else"} \union Ends
      after(i) == {j \in Places(text, clauses) : j > i}
      plan[i \in DOMAIN text] ==
        IF text[i].k # "when" \/ after(i) = {} THEN <<>>
        ELSE <<[from |-> i, to |-> Min(after(i))]>> \o plan[Min(after(i))]
      cuts == IF Len(text) > 1 THEN plan[2] ELSE <<>>
      branches == [b \in DOMAIN cuts |-> SubSeq(text, cuts[b].from + 1, cuts[b].to - 1)]
      stop == Last(cuts).to
      ends == {j \in Places(text, Ends) : j > stop}
  IN  IF cuts = <<>> THEN NoPlan
      ELSE CASE text[stop].k = "endcase" -> PlanOf(branches, FALSE, <<>>)
             [] text[stop].k = "else" /\ ends # {} ->
                  IF text[Min(ends)].k # "endcase" THEN NoPlan
                  ELSE PlanOf(branches, TRUE, SubSeq(text, stop + 1, Min(ends) - 1))
             [] OTHER -> NoPlan

\* The first IF or CASE that starts a statement.  What stands before it is not
\* looked at again.
find_top_level_routine_control_flow_start(text) ==
  {i \in Places(text, {"if", "case"}) : i = 1 \/ text[i - 1] = Semicolon}

parse_if_else_end_plan(text) ==
  LET starts == find_top_level_routine_control_flow_start(text)
      rest == SubSeq(text, Min(starts), Len(text))
  IN  CASE starts = {}          -> NoPlan
        [] rest[1].k = "if"     -> parse_if_else_end_plan_from_statement(rest)
        [] OTHER                -> parse_case_plan_from_statement(rest)

\* What CALL may run: one branch of the plan, or every piece in order.  Which
\* branch depends on the data, so all are possible.
lower_ir(text) ==
  LET plan == parse_if_else_end_plan(text)
  IN  IF plan.ok
      THEN {<<plan.branches[i]>> : i \in DOMAIN plan.branches}
             \union {IF plan.hasElse THEN <<plan.else>> ELSE <<>>}
      ELSE {Split(text)}

---------------------------------------------------------------------------
(* A structured body, as its author writes it, and its text.               *)

RECURSIVE Render(_)
Render(nodes) ==
  IF nodes = <<>> THEN <<>>
  ELSE LET node == nodes[1]
           closing == CASE node.k = "loop"   -> <<Token("endloop")>>
                        [] node.k = "while"  -> <<Token("endwhile")>>
                        [] node.k = "repeat" -> <<Token("until"), Token("endrepeat")>>
                        [] OTHER             -> <<Token("end")>>
           text == IF node.k \in Heads
                   THEN <<Named(node.k, node.n)>> \o Render(node.body) \o closing
                   ELSE IF node.k = "handler" THEN <<node, node.does>> ELSE <<node>>
       IN  text \o <<Semicolon>> \o Render(Tail(nodes))

RECURSIVE Within(_)
Within(nodes) ==
  UNION {IF nodes[i].k \in Heads THEN {nodes[i]} \union Within(nodes[i].body)
         ELSE {nodes[i]} : i \in DOMAIN nodes}

\* Blocks the search for keywords cannot tell apart: one inside another of its
\* kind, and anything with an END, or the letters of one, inside BEGIN.
Ambiguous(block) ==
  \E inner \in Within(block.body) :
    \/ inner.k = block.k
    \/ block.k = "begin" /\ (inner.k \in Heads \/ inner.n = SpelledWithEnd)

Plain(nodes) == \A node \in Within(nodes) : node.k \in Heads => ~Ambiguous(node)

RECURSIVE CutAsWritten(_)
CutAsWritten(nodes) ==
  LET statements == split_sql_statements_for_call_action(Render(nodes))
  IN  /\ Len(statements) = Len(nodes)
      /\ \A i \in DOMAIN nodes :
           IF nodes[i].k \in Heads
           THEN /\ parse_local_block(statements[i]).ok
                /\ TrimEnd(parse_local_block(statements[i]).body)
                     = TrimEnd(Render(nodes[i].body))
                /\ CutAsWritten(nodes[i].body)
           ELSE statements[i] = TrimEnd(Render(<<nodes[i]>>))

---------------------------------------------------------------------------
(* The local names in a statement of an action.  Here a text is a sequence *)
(* of words: a quote, a quote escaped by a backslash, "@v" and "v" a local *)
(* and its bare name, "@u" a name that is no local, "t" a temporary table  *)
(* of the call, "5" a number, and others.                                  *)

Words == {"quote", "escaped", "@v", "v", "@u", "t", "5", ",", "limit", "offset", "w"}

Expecting == {"limit", "offset"}

\* The state after a value where LIMIT or OFFSET expects one.
AfterValue(clause) == IF clause = "limit" THEN "after" ELSE "none"

AfterWord(word, clause) ==
  CASE word \in Expecting  -> word
    [] clause \in Expecting -> AfterValue(clause)
    [] OTHER               -> clause

\* Mutant of RewriteWord: words inside quotes are rewritten too.
RewriteAnyWord(s, word, numeric) ==
  LET put(w) == [s EXCEPT !.out = Append(@, w)]
  IN  CASE word \in {"quote", "escaped"} -> [put(word) EXCEPT !.quoted = ~@]
        [] word = "@v"                   -> put("literal")
        [] word = "t"                    -> put("scoped")
        [] OTHER                         -> put(word)

\* One word: its replacement, and whether the rewrite goes on.
RewriteWord(s, word, numeric) ==
  LET expected == s.clause \in Expecting
      put(w, clause) == [s EXCEPT !.out = Append(@, w), !.clause = clause]
  IN  CASE ~s.ok                     -> s
        [] word \in {"quote", "escaped"}     -> [put(word, s.clause) EXCEPT !.quoted = ~@]
        [] s.quoted                  -> put(word, s.clause)
        [] word = "@v" /\ ~expected  -> put("literal", s.clause)
        [] word \in {"@v", "v"} /\ expected ->
             IF numeric THEN put("number", AfterValue(s.clause)) ELSE [s EXCEPT !.ok = FALSE]
        [] word = "@u"               -> put(word, IF expected THEN AfterValue(s.clause)
                                                  ELSE s.clause)
        [] word = "t"                -> put("scoped", AfterWord(word, s.clause))
        [] word = "5" /\ expected    -> put(word, AfterValue(s.clause))
        [] word = ","                -> put(word, IF s.clause = "after" THEN "limit"
                                                  ELSE s.clause)
        [] word = "5"                -> put(word, s.clause)
        [] OTHER                     -> put(word, AfterWord(word, s.clause))

rewrite_sql_with_call_aliases(words, numeric) ==
  LET after[i \in 0 .. Len(words)] ==
        IF i = 0 THEN [out |-> <<>>, clause |-> "none", quoted |-> FALSE, ok |-> TRUE]
        ELSE RewriteWord(after[i - 1], words[i], numeric)
  IN  after[Len(words)]

\* Inside a string literal, where a backslash keeps a quote from closing it.
InLiteral(words) ==
  LET open[i \in 0 .. Len(words)] ==
        IF i = 0 THEN FALSE
        ELSE IF open[i - 1] THEN words[i] # "quote" ELSE words[i] = "quote"
  IN  {i \in DOMAIN words : open[i - 1] /\ words[i] # "quote"}

=============================================================================
