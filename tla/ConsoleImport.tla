---------------------------- MODULE ConsoleImport ----------------------------
(***************************************************************************)
(* A file import of the console (console/src/session_import.rs, import.rs) *)
(* over the connector transport (peerlib/src/connector/transport.rs),      *)
(* answered by connection handlers of the server (server/src/core/control/ *)
(* connector_handler.rs).                                                  *)
(*                                                                         *)
(* The console sends one request at a time and waits for its answer.  Each *)
(* connection has its own handler and session on the server; a connection  *)
(* the console has dropped may still hold a request the server has not     *)
(* read, and its transaction lives until the handler notices.              *)
(*                                                                         *)
(* A statement of the file is a kind and the key of the row it writes:     *)
(* "insert" is rewritten to INSERT IGNORE, "raw" is an INSERT that is not  *)
(* (insert /*, ON DUPLICATE KEY), "update" any other batchable DML, "ddl"  *)
(* a statement outside of batching, "directive" a line that is skipped.    *)
(***************************************************************************)
EXTENDS Integers, Sequences, FiniteSets

CONSTANTS
  Files,        \* the files to import: sequences of [kind, key]
  BatchSize,    \* IMPORT_TX_BATCH_SIZE
  RetryLimit,   \* IMPORT_TRANSPORT_RETRY_LIMIT
  MaxConns,     \* bound on the connections the console opens
  MaxFaults     \* bound on broken exchanges, failed connects and idle timeouts

ASSUME ImportAssumption ==
  /\ BatchSize \in Nat \ {0} /\ RetryLimit \in Nat
  /\ MaxConns \in Nat \ {0} /\ MaxFaults \in Nat

VARIABLES
  \* the console
  file, pos,            \* the file and the statement being executed
  phase,                \* which execute_import_statement call is being made
  attempt,              \* its transport retries so far
  replay,               \* 0, or the next request of replay_pending_batch
  waiting,              \* the request whose answer the console waits for, or NoRequest
  enabled, active, pending,         \* ImportTransactionState
  live, token,          \* the live connection (0: none) and the stored session token
  \* one entry per connection
  request, response, dropped, serving, authenticated, staged, begun,
  \* the table
  keyed,                \* whether it has a unique key
  rows, writes,         \* rows per key, number of visible writes
  \* bounds and history
  opened, faults, unanswered

consoleVars == <<file, keyed, pos, phase, attempt, replay, waiting, enabled, active, pending>>
linkVars    == <<live, token, opened>>
connVars    == <<request, response, dropped, serving, authenticated, staged, begun>>
tableVars   == <<rows, writes>>
importVars  == <<consoleVars, linkVars, connVars, tableVars, faults, unanswered>>

Conns == 1..MaxConns
NoRequest == [kind |-> "none", key |-> 0]
NoAnswer == [of |-> NoRequest, result |-> "none"]
NotBegun == -1
Keys == 0..3
Simple(kind) == [kind |-> kind, key |-> 0]

ImportInit ==
  /\ file \in Files /\ keyed \in BOOLEAN /\ pos = 1 /\ phase = "next"
  /\ attempt = 0 /\ replay = 0 /\ waiting = NoRequest
  /\ enabled = TRUE /\ active = FALSE /\ pending = << >>
  /\ live = 1 /\ token = TRUE /\ opened = 1
  /\ request = [c \in Conns |-> NoRequest]
  /\ response = [c \in Conns |-> NoAnswer]
  /\ dropped = [c \in Conns |-> FALSE]
  /\ serving = [c \in Conns |-> c = 1]
  /\ authenticated = [c \in Conns |-> c = 1]
  /\ staged = [c \in Conns |-> << >>]
  /\ begun = [c \in Conns |-> NotBegun]
  /\ rows = [k \in Keys |-> 0] /\ writes = 0
  /\ faults = 0 /\ unanswered = 0

-----------------------------------------------------------------------------
(* The server: one request of one connection at a time under the write lock. *)

InTransaction(c) == begun[c] # NotBegun

\* The session's transaction is rolled back and the handler returns.
Close(c) ==
  /\ serving' = [serving EXCEPT ![c] = FALSE]
  /\ begun' = [begun EXCEPT ![c] = NotBegun]
  /\ staged' = [staged EXCEPT ![c] = << >>]

Duplicates(statements) ==
  {i \in DOMAIN statements :
     /\ keyed /\ statements[i].kind = "raw"
     /\ \/ rows[statements[i].key] > 0
        \/ \E j \in 1..i - 1 : statements[j].key = statements[i].key}

\* The rows after the statements have run.  INSERT IGNORE without RETURNING notices a
\* duplicate key and inserts the row all the same (mutation_ops.rs:1086).
Apply(statements) ==
  [k \in Keys |->
     rows[k] + Cardinality({i \in DOMAIN statements :
                              /\ statements[i].key = k
                              /\ statements[i].kind \in {"insert", "raw"}})]

\* Staged in a transaction, executed at once outside of one.
RunDml(c, r) ==
  /\ IF InTransaction(c)
     THEN staged' = [staged EXCEPT ![c] = Append(@, r)] /\ UNCHANGED tableVars
     ELSE /\ UNCHANGED staged
          /\ IF Duplicates(<<r>>) # {}
             THEN UNCHANGED tableVars
             ELSE rows' = Apply(<<r>>) /\ writes' = writes + 1
  /\ UNCHANGED begun

\* COMMIT of an import transaction, which has no snapshot: refused when the table
\* was written since BEGIN, when a statement is not an INSERT or the list is
\* empty, when a key is duplicated; otherwise everything staged is applied.
CommitOutcome(c) ==
  IF ~InTransaction(c) THEN "error"
  ELSE IF /\ staged[c] # << >> /\ writes > begun[c] THEN "error"
  ELSE IF staged[c] = << >> \/ \E i \in DOMAIN staged[c] : staged[c][i].kind = "update"
       THEN "error"
  ELSE IF Duplicates(staged[c]) # {} THEN "duplicate" ELSE "ok"

RunCommit(c) ==
  /\ IF CommitOutcome(c) = "ok"
     THEN rows' = Apply(staged[c]) /\ writes' = writes + 1
     ELSE UNCHANGED tableVars
  /\ staged' = [staged EXCEPT ![c] = << >>]
  /\ begun' = [begun EXCEPT ![c] = NotBegun]

Outcome(c, r) ==
  CASE ~authenticated[c] -> "error"
    [] r.kind = "begin" -> IF InTransaction(c) THEN "error" ELSE "ok"
    [] r.kind = "commit" -> CommitOutcome(c)
    [] r.kind = "rollback" -> IF InTransaction(c) THEN "ok" ELSE "error"
    [] r.kind = "ddl" -> "ok"
    [] OTHER -> IF ~InTransaction(c) /\ Duplicates(<<r>>) # {} THEN "duplicate" ELSE "ok"

\* Reads the request of connection c, executes it and writes the answer.  When the
\* console is gone the write fails and the transaction is rolled back.
ServeRequest(c) ==
  LET r == request[c] IN
  /\ serving[c] /\ r # NoRequest
  /\ request' = [request EXCEPT ![c] = NoRequest]
  /\ response' = IF dropped[c] THEN response
                 ELSE [response EXCEPT ![c] = [of |-> r, result |-> Outcome(c, r)]]
  /\ \/ ~authenticated[c] /\ UNCHANGED <<tableVars, staged, begun>>
     \/ /\ authenticated[c]
        /\ \/ /\ r.kind = "begin"
              /\ begun' = [begun EXCEPT ![c] = IF InTransaction(c) THEN @ ELSE writes]
              /\ UNCHANGED <<tableVars, staged>>
           \/ r.kind = "commit" /\ RunCommit(c)
           \/ /\ r.kind = "rollback"
              /\ begun' = [begun EXCEPT ![c] = NotBegun]
              /\ staged' = [staged EXCEPT ![c] = << >>]
              /\ UNCHANGED tableVars
           \/ r.kind = "ddl" /\ UNCHANGED <<tableVars, staged, begun>>
           \/ r.kind \in {"insert", "raw", "update"} /\ RunDml(c, r)
  /\ UNCHANGED <<consoleVars, linkVars, dropped, serving, authenticated, faults, unanswered>>

\* Mutant of EndOfStream: the handler returns without a rollback.
EndOfStreamKeepsTransaction(c) ==
  /\ serving[c] /\ dropped[c] /\ request[c] = NoRequest
  /\ serving' = [serving EXCEPT ![c] = FALSE]
  /\ UNCHANGED <<consoleVars, linkVars, request, response, dropped, authenticated, staged,
                 begun, tableVars, faults, unanswered>>

\* The handler reads the end of a stream the console has dropped.
EndOfStream(c) ==
  /\ serving[c] /\ dropped[c] /\ request[c] = NoRequest
  /\ Close(c)
  /\ UNCHANGED <<consoleVars, linkVars, request, response, dropped, authenticated,
                 tableVars, faults, unanswered>>

\* Nothing arrived for the idle read timeout.
IdleReadTimeout(c) ==
  /\ serving[c] /\ ~dropped[c] /\ request[c] = NoRequest /\ response[c] = NoAnswer
  /\ faults < MaxFaults
  /\ faults' = faults + 1
  /\ Close(c)
  /\ UNCHANGED <<consoleVars, linkVars, request, response, dropped, authenticated,
                 tableVars, unanswered>>

-----------------------------------------------------------------------------
(* The console. *)

Statement == file[pos]
Batchable(s) == s.kind \in {"insert", "raw", "update"}

\* The request of the current call of execute_import_statement.
Current ==
  CASE phase = "begin" -> Simple("begin")
    [] phase \in {"commit", "commit first", "finalize"} -> Simple("commit")
    [] phase \in {"rollback", "finalize rollback"} -> Simple("rollback")
    [] OTHER -> Statement

\* The request execute_import_statement_once sends next: while the batch is
\* replayed BEGIN, then the buffered statements, then the call's own statement.
NextRequest ==
  CASE replay = 0 -> Current
    [] replay = 1 -> Simple("begin")
    [] OTHER -> pending[replay - 1]

ResetActiveBatchState == active' = FALSE /\ pending' = << >>

Go(p) == phase' = p
NextStatement == phase' = "next" /\ pos' = pos + 1

\* The next statement of the file is chosen: directives are skipped, a batchable
\* statement opens a batch if there is none, any other ends the open batch first.
\* At the end of the file the open batch is committed.
ChooseStatement ==
  /\ phase = "next"
  /\ \/ /\ pos > Len(file)
        /\ Go(IF active THEN "finalize" ELSE "done") /\ UNCHANGED pos
     \/ /\ pos <= Len(file) /\ Statement.kind = "directive"
        /\ NextStatement
     \/ /\ pos <= Len(file) /\ enabled /\ Batchable(Statement)
        /\ Go(IF active THEN "statement" ELSE "begin") /\ UNCHANGED pos
     \/ /\ pos <= Len(file) /\ Statement.kind # "directive" /\ ~(enabled /\ Batchable(Statement))
        /\ Go(IF active THEN "commit first" ELSE "unbatched") /\ UNCHANGED pos
  /\ UNCHANGED <<file, keyed, attempt, replay, waiting, enabled, active, pending, linkVars, connVars,
                 tableVars, faults, unanswered>>

\* A statement of a batch has been answered.  It is remembered for a replay; the
\* batch is committed when it is full or old enough.
StatementDone(result) ==
  /\ phase = "statement"
  /\ \/ /\ result = "ok" /\ active
        /\ pending' = Append(pending, Statement)
        /\ \/ Go("commit") /\ UNCHANGED pos
           \/ Len(pending') < BatchSize /\ NextStatement
        /\ UNCHANGED <<enabled, active>>
     \/ /\ result = "ok" /\ ~active
        /\ NextStatement /\ UNCHANGED <<enabled, active, pending>>
     \/ /\ result = "duplicate"
        /\ IF active THEN Go("rollback") /\ UNCHANGED pos ELSE NextStatement
        /\ UNCHANGED <<enabled, active, pending>>
     \/ result = "error" /\ Go("failed") /\ UNCHANGED <<pos, enabled, active, pending>>

\* A failed BEGIN turns batching off and the statement runs on its own.
BeginDone(result) ==
  /\ phase = "begin"
  /\ active' = (result = "ok")
  /\ enabled' = (result = "ok")
  /\ Go("statement") /\ UNCHANGED <<pos, pending>>

CommitDone(result) ==
  /\ phase = "commit"
  /\ CASE result = "ok" -> ResetActiveBatchState /\ NextStatement
       [] result = "duplicate" -> Go("rollback") /\ UNCHANGED <<pos, active, pending>>
       [] OTHER -> Go("failed") /\ UNCHANGED <<pos, active, pending>>
  /\ UNCHANGED enabled

\* The batch before a statement that is not batchable: a duplicate is skipped with
\* that statement, and the batch stays marked as active.
CommitFirstDone(result) ==
  /\ phase = "commit first"
  /\ CASE result = "ok" -> ResetActiveBatchState /\ Go("unbatched") /\ UNCHANGED pos
       [] result = "duplicate" -> NextStatement /\ UNCHANGED <<active, pending>>
       [] OTHER -> Go("failed") /\ UNCHANGED <<pos, active, pending>>
  /\ UNCHANGED enabled

UnbatchedDone(result) ==
  /\ phase = "unbatched"
  /\ IF result = "error" THEN Go("failed") /\ UNCHANGED pos ELSE NextStatement
  /\ UNCHANGED <<enabled, active, pending>>

\* Mutant of FinalizeDone: every failure of the last COMMIT is taken for a duplicate.
FinalizeDoneIgnoresErrors(result) ==
  /\ phase = "finalize"
  /\ IF result = "ok" THEN ResetActiveBatchState /\ Go("done")
     ELSE Go("finalize rollback") /\ UNCHANGED <<active, pending>>
  /\ UNCHANGED <<pos, enabled>>

FinalizeDone(result) ==
  /\ phase = "finalize"
  /\ CASE result = "ok" -> ResetActiveBatchState /\ Go("done")
       [] result = "duplicate" -> Go("finalize rollback") /\ UNCHANGED <<active, pending>>
       [] OTHER -> Go("failed") /\ UNCHANGED <<active, pending>>
  /\ UNCHANGED <<pos, enabled>>

\* The result of ROLLBACK is ignored.
RollbackDone ==
  /\ phase \in {"rollback", "finalize rollback"}
  /\ ResetActiveBatchState
  /\ IF phase = "rollback" THEN NextStatement ELSE Go("done") /\ UNCHANGED pos
  /\ UNCHANGED enabled

\* execute_import_statement returns the result to its caller.
Return(result) ==
  /\ attempt' = 0 /\ replay' = 0 /\ waiting' = NoRequest
  /\ \/ BeginDone(result)
     \/ StatementDone(result)
     \/ CommitDone(result)
     \/ CommitFirstDone(result)
     \/ UnbatchedDone(result)
     \/ FinalizeDone(result)
     \/ RollbackDone
  /\ UNCHANGED <<file, keyed>>

Calling == phase \notin {"next", "done", "failed"}

\* ensure_live_connection finds the stream, or opens one and replays the token.
Connected ==
  IF live # 0 THEN UNCHANGED <<live, opened, serving, authenticated>>
  ELSE /\ opened < MaxConns
       /\ opened' = opened + 1
       /\ live' = opened + 1
       /\ serving' = [serving EXCEPT ![opened + 1] = TRUE]
       /\ authenticated' = [authenticated EXCEPT ![opened + 1] = token]

SendRequest ==
  /\ Calling /\ waiting = NoRequest
  /\ Connected
  /\ waiting' = NextRequest
  /\ request' = [request EXCEPT ![live'] = NextRequest]
  /\ UNCHANGED <<file, keyed, pos, phase, attempt, replay, enabled, active, pending, token, response,
                 dropped, staged, begun, tableVars, faults, unanswered>>

\* Mutant of ReadResponse: the first answer of a replay counts as the call's own.
ReadResponseEndsReplay ==
  /\ waiting # NoRequest /\ live # 0 /\ response[live] # NoAnswer
  /\ response' = [response EXCEPT ![live] = NoAnswer]
  /\ Return(response[live].result)
  /\ UNCHANGED <<linkVars, request, dropped, serving, authenticated, staged, begun, tableVars,
                 faults, unanswered>>

\* The answer of the current request: during a replay a duplicate counts as
\* applied and any other rejection ends the call.
ReadResponse ==
  /\ waiting # NoRequest /\ live # 0 /\ response[live] # NoAnswer
  /\ response' = [response EXCEPT ![live] = NoAnswer]
  /\ LET result == response[live].result IN
     \/ replay = 0 /\ Return(result)
     \/ /\ replay > 0
        /\ IF result = "ok" \/ (result = "duplicate" /\ replay > 1)
           THEN /\ replay' = IF replay > Len(pending) THEN 0 ELSE replay + 1
                /\ waiting' = NoRequest
                /\ UNCHANGED <<file, keyed, pos, phase, attempt, enabled, active, pending>>
           ELSE Return("error")
  /\ UNCHANGED <<linkVars, request, dropped, serving, authenticated, staged, begun, tableVars,
                 faults, unanswered>>

\* Mutant of DropLiveConnection: the stream and its transaction stay in use.
KeepLiveConnection ==
  \E lost \in BOOLEAN :
     /\ UNCHANGED <<live, dropped, response>>
     /\ request' = IF lost THEN [request EXCEPT ![live] = NoRequest] ELSE request

\* The exchange fails and the stream is dropped; the request may never arrive,
\* and an answer on its way is not read any more.
DropLiveConnection ==
  \E lost \in BOOLEAN :
     /\ live' = 0
     /\ dropped' = [dropped EXCEPT ![live] = TRUE]
     /\ response' = [response EXCEPT ![live] = NoAnswer]
     /\ request' = IF lost THEN [request EXCEPT ![live] = NoRequest] ELSE request

\* The request the console waits for writes rows when it is executed.
Applying == waiting.kind = "commit" \/ (~active /\ Batchable(waiting))

\* A timeout, or a broken connection, noticed while sending or waiting: with a
\* retryable message and attempts left the transport is recovered, the batch
\* replayed and the statement sent again; an error during the replay, and any
\* other error, ends the call.
ExchangeFails ==
  /\ waiting # NoRequest /\ live # 0
  /\ \/ faults < MaxFaults /\ faults' = faults + 1
     \/ ~serving[live] /\ response[live] = NoAnswer /\ UNCHANGED faults
  /\ DropLiveConnection
  /\ unanswered' = IF Applying THEN unanswered + 1 ELSE unanswered
  /\ \/ /\ replay = 0 /\ attempt < RetryLimit
        /\ attempt' = attempt + 1
        /\ replay' = IF active THEN 1 ELSE 0
        /\ waiting' = NoRequest
        /\ UNCHANGED <<file, keyed, pos, phase, enabled, active, pending>>
     \/ Return("error")
  /\ UNCHANGED <<opened, token, serving, authenticated, staged, begun, tableVars>>

\* No stream can be opened: the address refuses, or the replay of the token fails
\* and the stored token is forgotten.  The call ends with an error.
ConnectFails ==
  /\ Calling /\ waiting = NoRequest /\ live = 0
  /\ faults < MaxFaults
  /\ faults' = faults + 1
  /\ token' \in {token, FALSE}
  /\ Return("error")
  /\ UNCHANGED <<live, opened, connVars, tableVars, unanswered>>

ConsoleStep == ChooseStatement \/ SendRequest \/ ReadResponse

ServerStep(c) == ServeRequest(c) \/ EndOfStream(c)

\* A finished import, with every stream drained, stays as it is.
ImportOver ==
  /\ phase \in {"done", "failed"}
  /\ \A c \in Conns : serving[c] => ~dropped[c]
  /\ UNCHANGED importVars

ImportNext ==
  \/ ConsoleStep
  \/ ExchangeFails
  \/ ConnectFails
  \/ \E c \in Conns : ServerStep(c) \/ IdleReadTimeout(c)
  \/ ImportOver

\* The console runs on, requests that arrived are read, and a request on a stream
\* that the server has closed fails.
ImportFairness ==
  /\ WF_importVars(ConsoleStep)
  /\ WF_importVars(ExchangeFails /\ UNCHANGED faults)
  /\ \A c \in Conns : WF_importVars(ServerStep(c))

ImportSpec == ImportInit /\ [][ImportNext]_importVars /\ ImportFairness

-----------------------------------------------------------------------------
Requests == [kind : {"none", "begin", "commit", "rollback", "insert", "raw", "update", "ddl"},
             key : Keys]

\* The connection table and the batch state keep their shape; a batch has no more
\* buffered statements than its size.
ImportTypeOK ==
  /\ phase \in {"next", "begin", "statement", "commit", "commit first", "unbatched", "finalize",
                "rollback", "finalize rollback", "done", "failed"}
  /\ attempt \in 0..RetryLimit /\ replay \in 0..BatchSize + 1
  /\ waiting \in Requests
  /\ Len(pending) <= BatchSize
  /\ live \in 0..opened /\ opened \in Conns
  /\ request \in [Conns -> Requests]
  /\ staged \in [Conns -> Seq(Requests)]
  /\ begun \in [Conns -> -1..writes]
  /\ rows \in [Keys -> Nat]

\* The transport compares no request ids: an answer on the live stream is the
\* answer to the request the console waits for, since a stream whose exchange
\* failed is never used again.
AnswerIsForTheRequest ==
  live # 0 /\ response[live] # NoAnswer => waiting = response[live].of

\* An import that ends as completed has written every row of its INSERTs, whatever
\* broke on the way and however often batches were replayed, provided every
\* batchable statement was rewritten to INSERT IGNORE: a duplicate key in a batch
\* drops the whole batch.
CompletedImportIsComplete ==
  phase = "done" /\ (\A i \in DOMAIN file : file[i].kind \notin {"raw", "update"}) =>
    \A i \in DOMAIN file : file[i].kind = "insert" => rows[file[i].key] > 0

\* A row is written again only when the answer to the COMMIT of its batch, or to the
\* statement itself outside of a batch, was lost; every other failure and replay
\* leaves one copy.
SurplusRowsNeedLostAnswers ==
  \A k \in Keys :
    rows[k] <= Cardinality({i \in DOMAIN file : file[i].key = k}) * (1 + unanswered)

\* What an import leaves in the table, however often its batches were replayed: every
\* row when it ends as completed, and none twice unless an answer was lost.
ReplayedImportIsExact == CompletedImportIsComplete /\ SurplusRowsNeedLostAnswers

\* Between calls, the buffered statements are what the live connection's session
\* has staged: a replay rebuilds exactly the batch the console believes in.
BufferMirrorsServer ==
  /\ phase = "next" /\ active /\ live # 0 /\ serving[live]
  /\ \A i \in DOMAIN file : file[i].kind # "raw"
  => staged[live] = pending

\* The transaction of a dropped stream does not outlive it: the handler reads the
\* end of the stream, or fails to write its answer, and rolls back.
DroppedTransactionEnds ==
  \A c \in Conns : (dropped[c] /\ InTransaction(c)) ~> ~InTransaction(c)

\* An import ends: it completes, or it stops with an error.
ImportEnds == <>(phase \in {"done", "failed"})
=============================================================================
