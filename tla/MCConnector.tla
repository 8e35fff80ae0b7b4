---------------------------- MODULE MCConnector ----------------------------
(***************************************************************************)
(* The two ends of a request for TLC: a console that imports a file, and   *)
(* the dispatcher of the server.  A behaviour is one of them, chosen by    *)
(* `part', so that their states add up and do not multiply.                *)
(***************************************************************************)
EXTENDS ConsoleImport, CatalogDispatcher

VARIABLE part

vars == <<importVars, dispatchVars, part>>

S(kind, key) == [kind |-> kind, key |-> key]

\* A batch that fills and is committed, a schema change that commits a batch before
\* it, a statement that is not batched, and an UPDATE in a batch.
MCFiles ==
  {<<S("directive", 0), S("insert", 1), S("insert", 2), S("insert", 3)>>,
   <<S("insert", 1), S("ddl", 0), S("raw", 1)>>,
   <<S("insert", 1), S("update", 1)>>}

Init ==
  /\ ImportInit /\ DispatchInit
  /\ \/ part = "import"
     \/ part = "dispatch" /\ ~keyed /\ file = CHOOSE f \in Files : TRUE

Next ==
  \/ part = "import" /\ ImportNext /\ UNCHANGED <<dispatchVars, part>>
  \/ part = "dispatch" /\ DispatchNext /\ UNCHANGED <<importVars, part>>

Fairness ==
  \/ part = "import" /\ ImportFairness
  \/ part = "dispatch" /\ DispatchFairness

Spec == Init /\ [][Next]_vars /\ Fairness

\* Neither end hangs: the import loop returns after finitely many retries, whatever
\* connections and answers are lost, and a transaction whose stream was dropped is
\* rolled back.
NeitherEndHangs == DroppedTransactionEnds /\ (part = "import" => ImportEnds)
=============================================================================
