---------------------------- MODULE AccountState ----------------------------
(***************************************************************************)
(* Accounts of one server: the root password connections authenticate      *)
(* with (server/src/core/control/session.rs), the user credentials and the *)
(* privileges of each database (control/core.rs, control/wal.rs), and how  *)
(* a restart rebuilds all three from SecurityChange records (lifecycle.rs).*)
(*                                                                         *)
(* CREATE USER, GRANT and REVOKE run under the write lock of the server:   *)
(* one action each, which a crash or a failed append may cut short.  SET   *)
(* PASSWORD logs the password under the read lock and applies it later, so *)
(* other connections run in between.                                       *)
(***************************************************************************)
EXTENDS Naturals, Sequences, FiniteSets, SequencesExt

CONSTANTS
  Databases, Users, Objects, Connections, Passwords,
  DefaultPassword,    \* the password of a server that was never told another
  Whole,              \* not an object: a privilege on the whole database
  MaxRecords          \* bound on the records of all streams

ASSUME AccountsAssumption ==
  /\ DefaultPassword \in Passwords /\ Whole \notin Objects /\ MaxRecords \in Nat

VARIABLES
  acl,            \* acl[d][u]: the scopes granted, or NoEntry
  credentials,    \* credentials[d]: users with a credential
  password,       \* BOOTSTRAP_PASSWORD_STATE
  security_wal,   \* security_wal[d]: the SecurityChange records of the stream of d
  connection,     \* per connection: the token it expects, whether it gave it, and
                  \* the password a SET PASSWORD has logged and not applied yet
  overlapped,     \* two SET PASSWORD were under way at once
  half_created,   \* users of a CREATE USER that stopped between its two records
  maybe_granted   \* scopes <<d, u, s>> whose last GRANT or REVOKE was not an answered REVOKE

accountVars == <<acl, credentials, password, security_wal, connection, overlapped,
                 half_created, maybe_granted>>

Scopes == Objects \cup {Whole}
NoEntry == [granted |-> {}, exists |-> FALSE]
Entry(scopes) == [granted |-> scopes, exists |-> TRUE]
Closed == [open |-> FALSE, expected |-> DefaultPassword, authenticated |-> FALSE,
           logged |-> << >>]

RecordCount == LET Lens[ds \in SUBSET Databases] ==
                     IF ds = {} THEN 0
                     ELSE LET d == CHOOSE x \in ds : TRUE
                          IN  Len(security_wal[d]) + Lens[ds \ {d}]
               IN  Lens[Databases]

AccountsInit ==
  /\ acl = [d \in Databases |-> [u \in Users |-> NoEntry]]
  /\ credentials = [d \in Databases |-> {}]
  /\ password = DefaultPassword
  /\ security_wal = [d \in Databases |-> << >>]
  /\ connection = [c \in Connections |-> Closed]
  /\ overlapped = FALSE
  /\ half_created = {}
  /\ maybe_granted = {}

-----------------------------------------------------------------------------
\* What a restart makes of the streams.

\* The record with the largest id wins; records are in the order of their ids.
Latest(recs, test(_), default) ==
  LET found == SelectSeq(recs, test) IN IF found = << >> THEN default ELSE Last(found).value

ReplayedEntry(d, u) ==
  LET IsAcl(r) == r.kind = "acl" /\ r.user = u IN Latest(security_wal[d], IsAcl, NoEntry)

ReplayedCredentials(d) ==
  {u \in Users : \E i \in DOMAIN security_wal[d] :
                   security_wal[d][i].kind = "credential" /\ security_wal[d][i].user = u}

IsPassword(r) == r.kind = "password"

\* Every stream applies its passwords in order; the streams come in any order, as
\* the catalogs are the values of a hash map.
RestoredPasswords ==
  LET logged == {d \in Databases : \E i \in DOMAIN security_wal[d] :
                                     IsPassword(security_wal[d][i])}
  IN  IF logged = {} THEN {DefaultPassword}
      ELSE {Latest(security_wal[d], IsPassword, DefaultPassword) : d \in logged}

\* The process starts again: memory comes from the streams, connections are gone.
Restart(wal) ==
  /\ security_wal' = wal
  /\ acl' = [d \in Databases |-> [u \in Users |-> ReplayedEntry(d, u)']]
  /\ credentials' = [d \in Databases |-> ReplayedCredentials(d)']
  /\ password' \in RestoredPasswords'
  /\ connection' = [c \in Connections |-> Closed]
  /\ UNCHANGED overlapped

Crash == Restart(security_wal) /\ UNCHANGED <<half_created, maybe_granted>>

-----------------------------------------------------------------------------
\* Connections and the root password.

\* The token is taken from the password of the moment the connection is accepted.
Connect(c) ==
  /\ ~connection[c].open
  /\ connection' = [connection EXCEPT ![c] = [Closed EXCEPT !.open = TRUE,
                                                            !.expected = password]]
  /\ UNCHANGED <<acl, credentials, password, security_wal, overlapped, half_created, maybe_granted>>

\* The token expected is not read again.
Authenticate(c, given) ==
  /\ connection[c].open /\ ~connection[c].authenticated
  /\ given = connection[c].expected
  /\ connection' = [connection EXCEPT ![c].authenticated = TRUE,
                                      ![c].expected = DefaultPassword]
  /\ UNCHANGED <<acl, credentials, password, security_wal, overlapped, half_created, maybe_granted>>

\* The record is appended under the read lock of the server.
LogPassword(c, d, new) ==
  /\ connection[c].authenticated /\ connection[c].logged = << >>
  /\ RecordCount < MaxRecords
  /\ security_wal' = [security_wal EXCEPT
                        ![d] = Append(@, [kind |-> "password", value |-> new])]
  /\ connection' = [connection EXCEPT ![c].logged = <<new>>]
  /\ overlapped' = (overlapped \/ \E o \in Connections : connection[o].logged # << >>)
  /\ UNCHANGED <<acl, credentials, password, half_created, maybe_granted>>

\* Only then does the password in memory change, and the client gets its answer.
ApplyPassword(c) ==
  /\ connection[c].logged # << >>
  /\ password' = Head(connection[c].logged)
  /\ connection' = [connection EXCEPT ![c].logged = << >>]
  /\ UNCHANGED <<acl, credentials, security_wal, overlapped, half_created, maybe_granted>>

CloseConnection(c) ==
  /\ connection[c].open /\ connection[c].logged = << >>
  /\ connection' = [connection EXCEPT ![c] = Closed]
  /\ UNCHANGED <<acl, credentials, password, security_wal, overlapped, half_created, maybe_granted>>

-----------------------------------------------------------------------------
\* Accounts and privileges.

\* Connections act as root, whose requests pass every check of the user.
RootSession == \E c \in Connections : connection[c].authenticated

AclRecord(u, entry) == [kind |-> "acl", user |-> u, value |-> entry]

\* The credential is logged, then the empty entry, then memory has both.  A user
\* with either of them exists: the request is refused, or does nothing under IF NOT
\* EXISTS.  The second append may fail, or the process end before it.
CreateUser(d, u) ==
  LET first == [security_wal EXCEPT ![d] = Append(@, [kind |-> "credential", user |-> u])]
      both == [first EXCEPT ![d] = Append(@, AclRecord(u, Entry({})))]
  IN
  /\ RootSession /\ RecordCount + 2 <= MaxRecords
  /\ ~acl[d][u].exists /\ u \notin credentials[d]
  /\ \/ /\ security_wal' = both
        /\ acl' = [acl EXCEPT ![d][u] = Entry({})]
        /\ credentials' = [credentials EXCEPT ![d] = @ \cup {u}]
        /\ UNCHANGED <<password, connection, overlapped, half_created>>
     \/ /\ security_wal' = first
        /\ half_created' = half_created \cup {<<d, u>>}
        /\ UNCHANGED <<acl, credentials, password, connection, overlapped>>
     \/ /\ Restart(first)
        /\ half_created' = half_created \cup {<<d, u>>}
     \/ Restart(both) /\ UNCHANGED half_created
  /\ UNCHANGED maybe_granted

\* Mutant of Mutated: a database-wide REVOKE adds the privilege.
MutatedAdds(entry, plan) == Entry(entry.granted \cup {plan.scope})

\* append_privilege, append_object_privilege and their revocations.
Mutated(entry, plan) ==
  Entry(IF plan.grant THEN entry.granted \cup {plan.scope} ELSE entry.granted \ {plan.scope})

Plans == [database : Databases, user : Users, scope : Scopes, grant : BOOLEAN]

\* Mutant of ApplyPlan: memory changes although nothing is logged.
ApplyPlanUnlogged(st, plan) ==
  [acl |-> [st.acl EXCEPT ![plan.database][plan.user] = Mutated(@, plan)], wal |-> st.wal]

\* One plan of a request: the changed entry is logged, then kept.
ApplyPlan(st, plan) ==
  LET d == plan.database
      u == plan.user
      entry == Mutated(st.acl[d][u], plan)
  IN  [acl |-> [st.acl EXCEPT ![d][u] = entry],
       wal |-> [st.wal EXCEPT ![d] = Append(@, AclRecord(u, entry))]]

ScopeOf(p) == <<p.database, p.user, p.scope>>

\* What the answer to a request, or its absence, tells about the scopes it names.
Told(plans, answered) ==
  FoldLeft(LAMBDA told, p : IF p.grant \/ ~answered THEN told \cup {ScopeOf(p)}
                            ELSE told \ {ScopeOf(p)},
           maybe_granted, plans)

\* A GRANT or REVOKE of one or two plans.  A plan that fails ends the request with a
\* refusal; the plans before it stay.
MutateAcl(plans) ==
  \E done \in 0..Len(plans) :
    LET after == FoldLeft(ApplyPlan, [acl |-> acl, wal |-> security_wal],
                          SubSeq(plans, 1, done))
    IN
    /\ RootSession /\ RecordCount + Len(plans) <= MaxRecords
    /\ \/ /\ acl' = after.acl
          /\ security_wal' = after.wal
          /\ maybe_granted' = Told(plans, done = Len(plans))
          /\ UNCHANGED <<credentials, password, connection, overlapped>>
       \/ Restart(after.wal) /\ maybe_granted' = Told(plans, FALSE)
    /\ UNCHANGED half_created

AccountsNext ==
  \/ Crash
  \/ \E c \in Connections :
       \/ Connect(c) \/ CloseConnection(c) \/ ApplyPassword(c)
       \/ \E p \in Passwords : Authenticate(c, p) \/ \E d \in Databases : LogPassword(c, d, p)
  \/ \E d \in Databases, u \in Users : CreateUser(d, u)
  \/ \E p \in Plans : MutateAcl(<<p>>) \/ \E q \in Plans \ {p} : MutateAcl(<<p, q>>)

AccountsSpec == AccountsInit /\ [][AccountsNext]_accountVars

\* authorize_sql_requests_for_session, for a user other than root.
Authorized(d, u, object) ==
  acl[d][u].exists /\ (Whole \in acl[d][u].granted \/ object \in acl[d][u].granted)

-----------------------------------------------------------------------------
AccountsTypeOK ==
  /\ acl \in [Databases -> [Users -> [granted : SUBSET Scopes, exists : BOOLEAN]]]
  /\ credentials \in [Databases -> SUBSET Users]
  /\ password \in Passwords
  /\ \A c \in Connections : connection[c].authenticated => connection[c].open

\* A restart gives every user the privileges they had, however the requests before
\* it ended: memory and streams agree entry by entry.
PrivilegesSurviveRestart ==
  \A d \in Databases, u \in Users : acl[d][u] = ReplayedEntry(d, u)

\* A restart loses no user; it adds at most those whose CREATE USER was refused, or
\* cut off, after the credential was logged.
UsersSurviveRestart ==
  \A d \in Databases :
    /\ credentials[d] \subseteq ReplayedCredentials(d)
    /\ \A u \in ReplayedCredentials(d) \ credentials[d] : <<d, u>> \in half_created

\* With SET PASSWORD sent by one connection at a time and for one database, the
\* password in memory is the one a restart restores whenever none is under way.
PasswordSurvivesRestart ==
  \/ overlapped \/ Cardinality(RestoredPasswords) > 1
  \/ \E c \in Connections : connection[c].logged # << >>
  \/ password \in RestoredPasswords

\* A restart brings back the users, passwords and privileges that were in memory,
\* whichever appends failed and wherever a request stopped.
AccountsSurviveRestart ==
  PrivilegesSurviveRestart /\ UsersSurviveRestart /\ PasswordSurvivesRestart

\* A user is let at an object only if the last word on it or on the database was not
\* an answered REVOKE; what a refused request leaves behind is not known.
RevokedIsDenied ==
  \A d \in Databases, u \in Users, o \in Objects :
    Authorized(d, u, o) => \E s \in {o, Whole} : <<d, u, s>> \in maybe_granted
=============================================================================
