---------------------------- MODULE RoutineCalls ----------------------------
(***************************************************************************)
(* CALL: the interpreter of stored procedures.  It runs the statements of  *)
(* an action one by one, with a stack of scopes (the action, the bodies of *)
(* its blocks, the handlers it enters), the handlers and cursors declared  *)
(* so far, the labels of the blocks it is in, and one temporary table.     *)
(*                                                                         *)
(* What depends on data is a choice: whether a statement fails, whether a  *)
(* condition holds, how many rows a cursor has.                            *)
(***************************************************************************)
EXTENDS RoutineText

CONSTANTS
  Programs,       \* procedure bodies: records with a shape and their nodes
  MaxIterations,  \* MAX_CALL_LOOP_ITERATIONS
  MaxRows,        \* rows of a cursor's SELECT
  MaxScopes,      \* scopes the thread's stack has room for
  MaxCalls        \* calls of one procedure from itself it has room for

ASSUME CallBounds == /\ MaxIterations \in Nat \ {0} /\ MaxRows \in Nat
                     /\ MaxScopes \in Nat \ {0} /\ MaxCalls \in Nat \ {0}

VARIABLES
  program,    \* the procedure called
  calls,      \* the running calls, the innermost last
  temp,       \* its temporary table in the catalog: 0, or the call it is of
  verdict,    \* "running", "ok", "err", "overflow"
  abandoned,  \* a block was left by an error without removing its label
  refailed,   \* a statement of a handler failed
  recursed    \* the calls that called the procedure again

callVars == <<program, calls, temp, verdict, abandoned, refailed, recursed>>

---------------------------------------------------------------------------
(* The state of a call.                                                    *)

Run == [k |-> "run", n |-> ""]
Done == [k |-> "done", n |-> ""]       \* the statement has been executed
Exit == [k |-> "exit", n |-> ""]       \* an EXIT handler ends the scope
Raise(origin) == [k |-> "raise", n |-> "", origin |-> origin]  \* a handler failed
Leave(label) == [k |-> "leave", n |-> label]
Iterate(label) == [k |-> "iterate", n |-> label]

\* An error, the condition it started as, and whether it has left a scope.
Err(condition, origin, crossed) ==
  [k |-> "err", n |-> condition, origin |-> origin, crossed |-> crossed]
Failure == Err("sqlexception", "sqlexception", FALSE)
EndOfCursor == Err("not found", "not found", FALSE)

NewCall(actions) ==
  [actions |-> actions, scopes |-> <<>>, handlers |-> <<>>, cursors |-> <<>>,
   labels |-> <<>>, table |-> "none", handles |-> 0, result |-> Run]

Scope(c, text, role, allow) ==
  [stmts |-> split_sql_statements_for_call_action(text), at |-> 1, role |-> role,
   h0 |-> Len(c.handlers), c0 |-> Len(c.cursors), allow |-> allow,
   kind |-> "", label |-> "", left |-> 0, exits |-> FALSE, why |-> Run]

Top(c) == Last(c.scopes)
Current(c) == Top(c).stmts[Top(c).at]
Push(c, scope) == [c EXCEPT !.scopes = Append(@, scope), !.result = Run]
Answer(c, result) == [c EXCEPT !.result = result]
PopLabel(c) == [c EXCEPT !.labels = IF @ = <<>> THEN @ ELSE Front(@)]

\* Mutant of Truncate: the cursors of a scope outlive it.
TruncateHandlers(c, scope) == [c EXCEPT !.handlers = SubSeq(@, 1, scope.h0)]

Truncate(c, scope) ==
  [c EXCEPT !.handlers = SubSeq(@, 1, scope.h0), !.cursors = SubSeq(@, 1, scope.c0)]

---------------------------------------------------------------------------
(* Statements.                                                             *)

DeclareHandler(c, text) ==
  IF Len(text) = 1 THEN Answer(c, Failure)
  ELSE Answer([c EXCEPT !.handlers = Append(@,
                [exits |-> text[1].n = "exit", condition |-> text[1].condition,
                 does |-> Tail(text), home |-> Len(c.scopes)])], Done)

DeclareCursor(c, text) ==
  Answer([c EXCEPT !.cursors =
            Append(@, [name |-> text[1].n, rows |-> -1, home |-> Len(c.scopes)])], Done)

\* The latest cursor of a name, 0 when there is none.
resolve_cursor(c, name) ==
  Max({i \in DOMAIN c.cursors : c.cursors[i].name = name} \union {0})

OpenCursor(c, text) ==
  LET i == resolve_cursor(c, text[1].n)
  IN  {Answer(c, Failure)} \union
      (IF i = 0 THEN {}
       ELSE {Answer([c EXCEPT !.cursors[i].rows = r], Done) : r \in 0 .. MaxRows})

FetchCursor(c, text) ==
  LET i == resolve_cursor(c, text[1].n)
  IN  CASE i = 0 \/ c.cursors[i].rows = -1 -> Answer(c, Failure)
        [] c.cursors[i].rows = 0           -> Answer(c, EndOfCursor)
        [] OTHER -> Answer([c EXCEPT !.cursors[i].rows = @ - 1], Done)

CloseCursor(c, text) ==
  LET i == resolve_cursor(c, text[1].n)
  IN  IF i = 0 THEN Answer(c, Failure)
      ELSE Answer([c EXCEPT !.cursors[i].rows = -1], Done)

LeaveStatement(c, text) ==
  LET target == text[1].n
      active == \E i \in DOMAIN c.labels : c.labels[i].n = target
  IN  IF (target = "" /\ ~Top(c).allow) \/ (target # "" /\ ~active)
      THEN Answer(c, Failure) ELSE Answer(c, Leave(target))

IterateStatement(c, text) ==
  LET target == text[1].n
      active == \E i \in DOMAIN c.labels : c.labels[i] = Named("loop", target)
  IN  IF ~Top(c).allow \/ (target # "" /\ ~active)
      THEN Answer(c, Failure) ELSE Answer(c, Iterate(target))

\* LOOP, WHILE and REPEAT: the label is pushed before the block is parsed.
EnterLoop(c, text) ==
  LET block == parse_local_block(text)
      inside == [c EXCEPT !.labels = Append(@, Named("loop", text[1].n))]
  IN  IF ~block.ok THEN Answer(inside, Failure)
      ELSE Push(inside, [Scope(c, block.body, "loop", TRUE) EXCEPT
                           !.at = 0, !.kind = text[1].k, !.label = text[1].n,
                           !.left = MaxIterations])

\* A BEGIN block is parsed before its label is pushed.
EnterBlock(c, text) ==
  LET block == parse_local_block(text)
      inside == [c EXCEPT !.labels = Append(@, Named("block", text[1].n))]
  IN  IF ~block.ok THEN Answer(c, Failure)
      ELSE Push(inside, [Scope(c, block.body, "block", Top(c).allow) EXCEPT
                           !.label = text[1].n])

\* The statements that only change the call.  SET and DECLARE of a variable,
\* and any SQL statement, may fail or not; what is left over from a block that
\* was cut wrongly does not parse.
LocalSteps(c) ==
  LET text == Current(c)
      kind == text[1].k
  IN  CASE kind = "handler"  -> {DeclareHandler(c, text)}
        [] kind = "cursor"   -> {DeclareCursor(c, text)}
        [] kind = "open"     -> OpenCursor(c, text)
        [] kind = "fetch"    -> {FetchCursor(c, text)}
        [] kind = "close"    -> {CloseCursor(c, text)}
        [] kind = "leave"    -> {LeaveStatement(c, text)}
        [] kind = "iterate"  -> {IterateStatement(c, text)}
        [] kind = "begin"    -> {EnterBlock(c, text)}
        [] kind \in Heads    -> {EnterLoop(c, text)}
        [] kind \in {"set", "sql"} -> {Answer(c, Done), Answer(c, Failure)}
        [] OTHER             -> {Answer(c, Failure)}

TableKinds == {"temporary", "usetable", "droptable"}

\* Mutant of TableSteps: DROP leaves the name mapped to the dropped table.
TableStepsKeepEntry(c, depth) ==
  LET kind == Current(c)[1].k
      free == {<<temp, Answer(c, Done)>>, <<temp, Answer(c, Failure)>>}
  IN  CASE kind = "temporary" ->
             {<<depth, Answer([c EXCEPT !.table = "live", !.handles = @ + 1], Done)>>}
        [] c.table = "none" -> free
        [] c.table = "dropped" \/ temp = 0 -> {<<temp, Answer(c, Failure)>>}
        [] kind = "droptable" -> {<<0, Answer([c EXCEPT !.handles = @ - 1], Done)>>}
        [] OTHER -> free

\* The statements about the temporary table: the table after them, and the call.
\* A table of this name left by another call of the procedure is emptied and
\* taken over.
TableSteps(c, depth) ==
  LET kind == Current(c)[1].k
      free == {<<temp, Answer(c, Done)>>, <<temp, Answer(c, Failure)>>}
  IN  CASE kind = "temporary" ->
             {<<depth, Answer([c EXCEPT !.table = "live", !.handles = @ + 1], Done)>>}
        [] c.table = "none" -> free
        [] c.table = "dropped" \/ temp = 0 -> {<<temp, Answer(c, Failure)>>}
        [] kind = "droptable" ->
             {<<0, Answer([c EXCEPT !.table = "dropped", !.handles = @ - 1], Done)>>}
        [] OTHER -> free

---------------------------------------------------------------------------
(* Scopes.                                                                 *)

\* The latest handler of a condition; SQLWARNING stands in for the others.
resolve_for_error(c, condition) ==
  LET of(k) == Max({i \in DOMAIN c.handlers : c.handlers[i].condition = k} \union {0})
  IN  IF of(condition) # 0 THEN of(condition) ELSE of("sqlwarning")

Matches(result, scope) == result.n \in {"", scope.label}

\* The innermost scope ends with a result: "done", "leave", "iterate" or an
\* error.  truncate is FALSE on the one path that does not restore the handlers.
ReturnScope(c, result, truncate) ==
  LET scope == Top(c)
      restored == IF truncate THEN Truncate(c, scope) ELSE c
      outer == [restored EXCEPT !.scopes = Front(@)]
      error == IF result.k = "err" THEN Err("sqlexception", result.origin, TRUE) ELSE result
      again(at) == [restored EXCEPT !.scopes[Len(c.scopes)].at = at, !.result = Run]
  IN  CASE scope.role = "action" ->
             Answer(outer, IF result.k = "done" THEN Run ELSE error)
        [] scope.role = "handler" ->
             Answer(outer, CASE result.k = "err"  -> Raise(result.origin)
                             [] result.k = "done" -> IF scope.exits THEN Exit ELSE Done
                             [] OTHER             -> result)
        [] result.k = "err" -> Answer(outer, error)
        [] scope.role = "block" ->
             Answer(PopLabel(outer), IF result.k = "leave" /\ result.n # ""
                                          /\ result.n = scope.label
                                     THEN Done ELSE result)
        [] result.k = "done" -> again(IF scope.kind = "repeat" THEN -1 ELSE 0)
        [] result.k = "iterate" /\ Matches(result, scope) -> again(0)
        [] result.k = "leave" /\ Matches(result, scope) -> Answer(PopLabel(outer), Done)
        [] OTHER -> Answer(PopLabel(outer), result)

\* Mutant of LoopSteps: the iterations are not counted.
LoopStepsUncounted(c) ==
  LET scope == Top(c)
      outer == [c EXCEPT !.scopes = Front(@)]
      iterate == [c EXCEPT !.scopes[Len(c.scopes)] =
                    [@ EXCEPT !.at = 1, !.h0 = Len(c.handlers), !.c0 = Len(c.cursors)]]
  IN  IF scope.at = 0 THEN {iterate, Answer(PopLabel(outer), Done)}
      ELSE {[c EXCEPT !.scopes[Len(c.scopes)].at = 0]}

\* Before an iteration: WHILE tests its condition, and after one REPEAT does.
LoopSteps(c) ==
  LET scope == Top(c)
      outer == [c EXCEPT !.scopes = Front(@)]
      finished == Answer(PopLabel(outer), Done)
      failed == Answer(outer, Failure)
      again == [c EXCEPT !.scopes[Len(c.scopes)].at = 0]
      iterate == [c EXCEPT !.scopes[Len(c.scopes)] =
                    [@ EXCEPT !.at = 1, !.left = @ - 1,
                              !.h0 = Len(c.handlers), !.c0 = Len(c.cursors)]]
  IN  CASE scope.at = -1          -> {finished, again, failed}
        [] scope.left = 0         -> {failed}
        [] scope.kind = "while"   -> {iterate, finished, failed}
        [] OTHER                  -> {iterate}

---------------------------------------------------------------------------
(* Steps of the innermost call.                                            *)

Call == Last(calls)
Depth == Len(calls)
SetCall(c) == calls' = [calls EXCEPT ![Depth] = c]
Running == verdict = "running" /\ calls # <<>>
InHandler(c) == \E i \in DOMAIN c.scopes : c.scopes[i].role = "handler"
AtStatement(c) ==
  c.result = Run /\ c.scopes # <<>> /\ Top(c).at \in 1 .. Len(Top(c).stmts)

\* The stack has no room for another scope.
Overflow == verdict' = "overflow" /\ UNCHANGED <<program, calls, temp>>

Entered(c) ==
  IF Len(c.scopes) > MaxScopes
  THEN Overflow ELSE SetCall(c) /\ UNCHANGED <<program, temp, verdict>>

\* The next action starts with no handlers, cursors or labels.
NextAction ==
  /\ Running /\ Call.scopes = <<>> /\ Call.result = Run /\ Call.actions # <<>>
  /\ LET fresh == [Call EXCEPT !.handlers = <<>>, !.cursors = <<>>, !.labels = <<>>,
                               !.actions = Tail(@)]
     IN  Entered(Push(fresh, Scope(fresh, Call.actions[1], "action", FALSE)))
  /\ UNCHANGED <<abandoned, refailed, recursed>>

execute_call_action_statement ==
  /\ Running /\ AtStatement(Call)
  /\ Current(Call)[1].k \notin TableKinds \union {"call"}
  /\ \E c \in LocalSteps(Call) :
       /\ Entered(c)
       /\ abandoned' = (abandoned \/ (c.labels # Call.labels /\ c.result.k = "err"))
       /\ refailed' = (refailed \/ (InHandler(Call) /\ c.result.k = "err"))
  /\ UNCHANGED recursed

TableStatement ==
  /\ Running /\ AtStatement(Call) /\ Current(Call)[1].k \in TableKinds
  /\ \E step \in TableSteps(Call, Depth) :
       /\ temp' = step[1] /\ SetCall(step[2])
       /\ refailed' = (refailed \/ (InHandler(Call) /\ step[2].result.k = "err"))
  /\ UNCHANGED <<program, verdict, abandoned, recursed>>

\* The statement after one that has been executed.
Advance ==
  /\ Running /\ Call.result = Done
  /\ SetCall([Call EXCEPT !.scopes[Len(Call.scopes)].at = @ + 1, !.result = Run])
  /\ UNCHANGED <<program, temp, verdict, abandoned, refailed, recursed>>

LoopTest ==
  /\ Running /\ Call.result = Run /\ Call.scopes # <<>> /\ Top(Call).at < 1
  /\ \E c \in LoopSteps(Call) :
       /\ SetCall(c)
       /\ abandoned' = (abandoned \/ c.result.k = "err")
       /\ refailed' = (refailed \/ (InHandler(Call) /\ c.result.k = "err"))
  /\ UNCHANGED <<program, temp, verdict, recursed>>

\* An error: the handler runs as a scope of its own, in the same scope.
RunHandler ==
  /\ Running /\ Call.result.k = "err" /\ Call.scopes # <<>>
  /\ LET i == resolve_for_error(Call, Call.result.n)
         h == Call.handlers[i]
     IN  /\ i # 0
         /\ Entered(Push(Call, [Scope(Call, h.does, "handler", Top(Call).allow) EXCEPT
                                  !.exits = h.exits, !.kind = h.condition,
                                  !.why = Call.result]))
  /\ UNCHANGED <<abandoned, refailed, recursed>>

\* The scope ends: its last statement was executed, an EXIT handler ended it, a
\* directive or an error leaves it.
EndScope ==
  /\ Running /\ Call.scopes # <<>>
  /\ \/ /\ Call.result = Run /\ Top(Call).at > Len(Top(Call).stmts)
        /\ SetCall(ReturnScope(Call, Done, TRUE)) /\ UNCHANGED abandoned
     \/ /\ Call.result = Exit
        /\ SetCall(ReturnScope(Call, Done, TRUE)) /\ UNCHANGED abandoned
     \/ /\ Call.result.k \in {"leave", "iterate"}
        /\ SetCall(ReturnScope(Call, Call.result, TRUE)) /\ UNCHANGED abandoned
     \/ /\ Call.result.k = "err" /\ resolve_for_error(Call, Call.result.n) = 0
        /\ SetCall(ReturnScope(Call, Call.result, TRUE))
        /\ abandoned' = (abandoned \/ Top(Call).role \in {"loop", "block"})
     \/ /\ Call.result.k = "raise"
        /\ SetCall(ReturnScope(Call, Err("sqlexception", Call.result.origin, TRUE), FALSE))
        /\ abandoned' = (abandoned \/ Top(Call).role \in {"loop", "block"})
  /\ UNCHANGED <<program, temp, verdict, refailed, recursed>>

\* CALL of the same procedure by one of its statements.
NestedCall ==
  /\ Running /\ AtStatement(Call) /\ Current(Call)[1].k = "call"
  /\ IF Depth = MaxCalls THEN Overflow
     ELSE /\ \E actions \in lower_ir(program.text) : calls' = Append(calls, NewCall(actions))
          /\ UNCHANGED <<program, temp, verdict>>
  /\ recursed' = recursed \union {Depth}
  /\ UNCHANGED <<abandoned, refailed>>

\* The call ends: after its last action, with an error, or with a directive
\* that no loop took.  cleanup removes its temporary table, or fails to.
execute_call_stored_procedure ==
  /\ Running /\ Call.scopes = <<>> /\ (Call.result # Run \/ Call.actions = <<>>)
  /\ \E cleaned \in {TRUE} \union (IF Call.handles > 0 THEN {FALSE} ELSE {}) :
       LET ok == Call.result = Run /\ cleaned
       IN  /\ temp' = IF Call.handles > 0 /\ cleaned THEN 0 ELSE temp
           /\ IF Depth = 1
              THEN verdict' = (IF ok THEN "ok" ELSE "err") /\ UNCHANGED calls
              ELSE /\ calls' = [Front(calls) EXCEPT ![Depth - 1].result =
                                  IF ok THEN Done ELSE Failure]
                   /\ UNCHANGED verdict
           /\ refailed' = (refailed \/ (~ok /\ Depth > 1 /\ InHandler(calls[Depth - 1])))
  /\ UNCHANGED <<program, abandoned, recursed>>

CallInit ==
  /\ program \in Programs
  /\ \E actions \in lower_ir(program.text) : calls = <<NewCall(actions)>>
  /\ temp = 0 /\ verdict = "running"
  /\ abandoned = FALSE /\ refailed = FALSE /\ recursed = {}

CallNext ==
  \/ NextAction
  \/ execute_call_action_statement
  \/ TableStatement
  \/ Advance
  \/ LoopTest
  \/ RunHandler
  \/ EndScope
  \/ NestedCall
  \/ execute_call_stored_procedure

---------------------------------------------------------------------------
(* Properties.                                                             *)

\* The state of a call keeps its shape: every scope starts above the handlers
\* and cursors of the scope around it, and no loop runs more often than
\* MAX_CALL_LOOP_ITERATIONS allows.
RoutineTypeOK ==
  /\ verdict \in {"running", "ok", "err", "overflow"}
  /\ temp \in 0 .. MaxCalls /\ Depth \in 1 .. MaxCalls
  /\ \A d \in 1 .. Depth :
       LET c == calls[d]
       IN  /\ c.table \in {"none", "live", "dropped"} /\ c.handles \in Nat
           /\ \A i \in DOMAIN c.scopes :
                /\ c.scopes[i].left \in 0 .. MaxIterations
                /\ c.scopes[i].h0 <= Len(c.handlers) /\ c.scopes[i].c0 <= Len(c.cursors)
                /\ i > 1 => c.scopes[i - 1].h0 <= c.scopes[i].h0

\* The keyword search of CALL finds the blocks their author wrote, statement by
\* statement and however deep, in every body that nests no block in one it
\* cannot tell apart from it.
BlocksAreCutAsWritten == Plain(program.nodes) => CutAsWritten(program.nodes)

Declared(c, i, list, base) ==
  /\ list[i].home <= Len(c.scopes)
  /\ base[list[i].home] < i

\* A handler or cursor is visible only while the scope that declared it runs,
\* on every path out of the scope, unless a statement of a handler failed (the
\* `?` that passes such a failure on skips the truncation).
DeclarationsAreScoped ==
  ~refailed =>
    \A d \in 1 .. Depth :
      LET c == calls[d]
          h0 == [i \in DOMAIN c.scopes |-> c.scopes[i].h0]
          c0 == [i \in DOMAIN c.scopes |-> c.scopes[i].c0]
      IN  /\ \A i \in DOMAIN c.handlers : c.scopes # <<>> => Declared(c, i, c.handlers, h0)
          /\ \A i \in DOMAIN c.cursors : c.scopes # <<>> => Declared(c, i, c.cursors, c0)

\* A LEAVE or ITERATE that was accepted always meets the block it names (or,
\* without a name, a loop) before the call ends, unless an error left a block
\* without removing its label.
DirectivesFindTheirBlock ==
  ~abandoned =>
    \A d \in 1 .. Depth :
      calls[d].result.k \in {"leave", "iterate"} =>
        \E i \in DOMAIN calls[d].scopes :
          LET scope == calls[d].scopes[i]
          IN  \/ scope.role = "loop" /\ Matches(calls[d].result, scope)
              \/ /\ scope.role = "block" /\ calls[d].result.k = "leave"
                 /\ calls[d].result.n = scope.label

\* A handler runs only for the condition it was declared for, SQLWARNING aside.
\* The end of a cursor becomes an SQLEXCEPTION once it has left a block.
ConditionsReachTheirHandlers ==
  \A d \in 1 .. Depth : \A i \in DOMAIN calls[d].scopes :
    LET scope == calls[d].scopes[i]
    IN  scope.role = "handler" =>
          \/ scope.kind \in {scope.why.origin, "sqlwarning"}
          \/ scope.why.crossed /\ scope.kind = "sqlexception"

\* The stack runs out only when a handler fails on itself or a procedure calls
\* itself: no nesting of blocks and no loop does it.
OverflowHasACause == verdict = "overflow" => refailed \/ recursed # {}

\* Control in a routine follows its text: declarations, labels and conditions stay
\* in the scopes they belong to, on every path of errors, LEAVE and ITERATE.
ControlFollowsScopes ==
  /\ DeclarationsAreScoped
  /\ DirectivesFindTheirBlock
  /\ ConditionsReachTheirHandlers
  /\ OverflowHasACause

\* A temporary table a call created and did not drop is there and is its own,
\* unless the procedure called itself: the inner call has the same name for it,
\* empties it, and drops it when it ends.
OwnedTablesSurvive ==
  \A d \in 1 .. Depth :
    (verdict = "running" /\ calls[d].table = "live") => temp = d \/ d \in recursed

\* A call that was applied leaves no temporary table behind, on any path.
TemporaryTablesAreReleased ==
  verdict = "ok" /\ recursed = {} => temp = 0

\* A temporary table lives as long as the call that created it, and no longer.
TemporaryTablesAreOwned == OwnedTablesSurvive /\ TemporaryTablesAreReleased

=============================================================================
