----------------------------- MODULE MCRoutines -----------------------------
(***************************************************************************)
(* Procedures built from a declaration, a block and a last statement, in   *)
(* each of the shapes a body can have, and statements with local names.    *)
(***************************************************************************)
EXTENDS RoutineCalls

CONSTANTS MaxWords

VARIABLES words, numeric, part

vars == <<callVars, words, numeric, part>>

Handler(kind, condition, does) ==
  [k |-> "handler", n |-> kind, condition |-> condition, does |-> does]
Block(kind, label, body) == [k |-> kind, n |-> label, body |-> body]

Sql == Token("sql")
Fetch == Named("fetch", "c")
Conditions == {"sqlexception", "not found", "sqlwarning"}

Openings ==
  {<<Handler(kind, condition, does)>> :
     kind \in {"continue", "exit"}, condition \in Conditions,
     does \in {Sql, Fetch, Named("leave", "l")}}
  \union {<<Named("cursor", "c"), Named("open", "c")>>, <<Token("temporary")>>}

Inner == {Sql, Fetch, Named("leave", ""), Named("leave", "l"), Named("iterate", "l"),
          Token("usetable")}
Blocks ==
  {Block(kind, "l", <<a, b>>) : kind \in Heads, a \in Inner, b \in {Sql, Named("leave", "l")}}
  \union {Block(kind, "l", <<Block(inner, "m", <<Fetch>>), Named("leave", "l")>>) :
             kind \in Heads, inner \in Heads}
  \union {Block(kind, "l", <<declared, Fetch>>) :
             kind \in {"while", "begin"},
             declared \in {Named("cursor", "c"), Handler("continue", "not found", Sql)}}
  \union {Block("begin", "", <<Named("sql", SpelledWithEnd), Sql>>)}

Endings == {<<Sql>>, <<Named("leave", "l")>>, <<Token("droptable"), Token("call")>>}

Bodies == {opening \o <<block>> \o ending :
             opening \in Openings, block \in Blocks, ending \in Endings}

Shapes == {"if", "case", "flat", "late"}

Text(shape, nodes) ==
  LET body == Render(nodes)
  IN  CASE shape = "if"   -> <<Token("if")>> \o body \o <<Token("else"), Sql, Token("endif")>>
        [] shape = "case" -> <<Token("case"), Token("when")>> \o body
                               \o <<Token("else"), Sql, Token("endcase")>>
        [] shape = "late" -> <<Sql, Semicolon, Token("if")>> \o body \o <<Token("endif")>>
        [] OTHER          -> body

MCPrograms ==
  {[nodes |-> nodes, text |-> Text(shape, nodes)] : nodes \in Bodies, shape \in Shapes}

NoProgram == [nodes |-> <<>>, text |-> <<>>]

Init ==
  \/ part = "call" /\ CallInit /\ words = <<>> /\ numeric = FALSE
  \/ /\ part = "words" /\ numeric \in BOOLEAN
     /\ \E n \in 1 .. MaxWords : words \in [1 .. n -> Words]
     /\ program = NoProgram /\ calls = <<NewCall(<<>>)>> /\ temp = 0 /\ verdict = "ok"
     /\ abandoned = FALSE /\ refailed = FALSE /\ recursed = {}

\* Nothing follows the end of a call; a call that runs always has a next step.
Returned == verdict # "running" /\ UNCHANGED vars

Next == \/ CallNext /\ UNCHANGED <<words, numeric, part>>
        \/ Returned

\* The thread of a call does not pause for ever: weak fairness of CallNext,
\* which is enabled as long as the call runs.
Runs == []<><<CallNext>>_vars \/ <>[](verdict # "running")

Spec == Init /\ [][Next]_vars /\ Runs

\* The local names of a statement are replaced outside string literals and only
\* there, and every other word is kept, in statements without an escaped quote.
LocalsStayOutOfLiterals ==
  LET result == rewrite_sql_with_call_aliases(words, numeric)
  IN  (result.ok /\ "escaped" \notin {words[i] : i \in DOMAIN words}) =>
        /\ Len(result.out) = Len(words)
        /\ \A i \in DOMAIN words :
             /\ i \in InLiteral(words) => result.out[i] = words[i]
             /\ i \notin InLiteral(words) /\ words[i] = "@v" =>
                  result.out[i] \in {"literal", "number"}
             /\ words[i] \notin {"@v", "v", "t"} => result.out[i] = words[i]

\* CALL reads and rewrites the text of a routine as it was written.
SourceTextIsKept == BlocksAreCutAsWritten /\ LocalsStayOutOfLiterals

\* A CALL ends: with an answer, or with the stack overflow of a handler that
\* fails on itself.
CallReturns == <>(verdict # "running")

=============================================================================
