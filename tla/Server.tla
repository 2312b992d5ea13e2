------------------------------- MODULE Server -------------------------------
(***************************************************************************)
(* The life of the engine: launch.sh starts it, main() resets the tables   *)
(* and opens the listener, each connection gets a session, and a session   *)
(* reads once, handles what it read on a thread of the io_context with a   *)
(* database connection of its own, writes once and closes.                 *)
(*                                                                         *)
(* What a request does to the tables is Exchange's matter.  Here it is a   *)
(* number of statements, each committed by itself.                         *)
(***************************************************************************)
EXTENDS Integers, FiniteSets

CONSTANTS
  Client,           \* the connections clients make, with one request each
  Thread,           \* the threads in io_context::run()
  Nobody,           \* what an idle thread is serving
  Size,             \* the pieces in which each client's request arrives
  MaxRead,          \* the pieces max_length has room for
  Statements,       \* the statements a request takes
  MaxConnections,   \* the connections PostgreSQL accepts
  MaxFiles,         \* the sockets the process may have open
  Fault,            \* what may go wrong around the engine
  MaxStarts,        \* bound on the starts of the engine
  MaxOutages        \* bound on the outages of PostgreSQL

ASSUME ClientAssumption == Size \in [Client -> Nat \ {0}] /\ Nobody \notin Client
ASSUME LimitAssumption ==
  /\ MaxRead \in Nat \ {0} /\ Statements \in Nat \ {0}
  /\ MaxConnections \in Nat /\ MaxFiles \in Nat
  /\ MaxStarts \in Nat /\ MaxOutages \in Nat
ASSUME FaultAssumption == Fault \subseteq {"port taken", "exception", "hang up"}
ASSUME FiniteAssumption == IsFiniteSet(Thread) /\ IsFiniteSet(Client)

VARIABLES
  phase,      \* how far main() has come
  life,       \* the starts of the engine so far
  listening,  \* an async_accept is pending
  ready,      \* PostgreSQL accepts connections
  outages,    \* the outages so far
  session,    \* per client: where its connection and session are
  away,       \* the clients that have hung up
  sent,       \* per client: the pieces that have arrived
  whole,      \* the clients whose one read got the whole request
  serving,    \* per thread: the client whose handler it runs
  conn,       \* per client: its handler's connection to PostgreSQL
  stale,      \* the threads whose stack holds the C of an earlier handler
  effects,    \* per client: the statements committed in the present tables
  told        \* history, per client: what it was answered, and in which life

engine   == <<phase, life>>
database == <<ready, outages>>
network  == <<session, away, sent>>
handlers == <<whole, serving, conn, stale>>
vars     == <<phase, life, listening, ready, outages, session, away, sent,
              whole, serving, conn, stale, effects, told>>

Phase    == {"off", "connected", "dropped", "created", "up"}
Stage    == {"new", "backlog", "reading", "parsed", "handling", "writing", "closed"}
Answers  == {"nothing", "results", "empty"}
Told     == [what : Answers, life : 0..MaxStarts]

InSession(c) == session[c] \in {"reading", "parsed", "handling", "writing"}
Idle(t)      == serving[t] = Nobody
Served(t, c, stage) == phase = "up" /\ serving[t] = c /\ session[c] = stage

Open  == {c \in Client : conn[c] = "open"}
Files == Cardinality({c \in Client : InSession(c)}) + Cardinality(Open)

\* A connection to PostgreSQL can be had.
Available == /\ ready
             /\ Cardinality(Open) < MaxConnections
             /\ Files < MaxFiles

\* The process is gone: its sockets are closed, what PostgreSQL has committed stays.
Gone ==
  /\ phase' = "off"
  /\ listening' = FALSE
  /\ session' = [c \in Client |-> IF session[c] = "new" THEN "new" ELSE "closed"]
  /\ serving' = [t \in Thread |-> Nobody]
  /\ conn' = [c \in Client |-> "none"]
  /\ stale' = {}
  /\ UNCHANGED <<life, database, away, sent, whole, effects, told>>

-----------------------------------------------------------------------------
(* PostgreSQL, in a container of its own.                                  *)

PostgresReady ==
  /\ ~ready
  /\ ready' = TRUE
  /\ UNCHANGED <<engine, listening, outages, network, handlers, effects, told>>

PostgresFails ==
  /\ ready
  /\ outages < MaxOutages
  /\ ready' = FALSE
  /\ outages' = outages + 1
  /\ conn' = [c \in Client |-> IF conn[c] = "open" THEN "lost" ELSE conn[c]]
  /\ UNCHANGED <<engine, listening, network, whole, serving, stale, effects, told>>

-----------------------------------------------------------------------------
(* launch.sh and main().                                                   *)

\* launch.sh starts the engine once and then sleeps; a later start is an
\* operator's.  The connection fails if PostgreSQL is not there: return 1.
Launch ==
  /\ phase = "off"
  /\ life < MaxStarts
  /\ life' = life + 1
  /\ phase' = IF ready THEN "connected" ELSE "off"
  /\ UNCHANGED <<listening, database, network, handlers, effects, told>>

\* main() goes on to the stage, or returns 1: it must if PostgreSQL is not there,
\* and may if its connection was lost and libpqxx does not make it again.
GoesOnTo(stage) ==
  \/ ready /\ phase' = stage
  \/ (~ready \/ outages > 0) /\ phase' = "off"

\* Mutant: tables that exist are kept.
KeepTables ==
  /\ phase = "connected"
  /\ GoesOnTo("dropped")
  /\ UNCHANGED <<life, listening, database, network, handlers, effects, told>>

\* One transaction; an exception is caught and main() returns 1.
DropTables ==
  /\ phase = "connected"
  /\ GoesOnTo("dropped")
  /\ effects' = IF phase' = "dropped" THEN [c \in Client |-> 0] ELSE effects
  /\ UNCHANGED <<life, listening, database, network, handlers, told>>

CreateTables ==
  /\ phase = "dropped"
  /\ GoesOnTo("created")
  /\ UNCHANGED <<life, listening, database, network, handlers, effects, told>>

\* The listener's constructor and run().  After an error of open, bind or listen
\* the async_accept fails too, and no other follows.
Listen ==
  /\ phase = "created"
  /\ phase' = "up"
  /\ listening' \in {TRUE} \cup (IF "port taken" \in Fault THEN {FALSE} ELSE {})
  /\ UNCHANGED <<life, database, network, handlers, effects, told>>

\* Nothing is pending any more: run() returns on every thread, and main() too.
\* With other threads their std::thread objects, never joined, terminate the
\* process instead.
RunOut ==
  /\ phase = "up"
  /\ ~listening
  /\ \A c \in Client : ~InSession(c)
  /\ Gone

-----------------------------------------------------------------------------
(* Clients.                                                                *)

ClientConnect(c) ==
  /\ session[c] = "new"
  /\ listening
  /\ session' = [session EXCEPT ![c] = "backlog"]
  /\ UNCHANGED <<engine, listening, database, away, sent, handlers, effects, told>>

\* The next piece of the request arrives.
ClientSend(c) ==
  /\ session[c] \in {"backlog", "reading", "parsed", "handling", "writing"}
  /\ c \notin away
  /\ sent[c] < Size[c]
  /\ sent' = [sent EXCEPT ![c] = @ + 1]
  /\ UNCHANGED <<engine, listening, database, session, away, handlers, effects, told>>

ClientHangUp(c) ==
  /\ "hang up" \in Fault
  /\ session[c] \in {"backlog", "reading", "parsed", "handling", "writing"}
  /\ c \notin away
  /\ away' = away \cup {c}
  /\ UNCHANGED <<engine, listening, database, session, sent, handlers, effects, told>>

-----------------------------------------------------------------------------
(* The listener.                                                           *)

\* on_accept.  When no socket is left for the connection it returns without
\* accepting again; the listener is destroyed and the connections waiting for it
\* are reset.
Accept(c) ==
  /\ phase = "up" /\ listening
  /\ \E t \in Thread : Idle(t)
  /\ session[c] = "backlog"
  /\ \/ /\ Files < MaxFiles
        /\ session' = [session EXCEPT ![c] = "reading"]
        /\ UNCHANGED listening
     \/ /\ Files >= MaxFiles
        /\ listening' = FALSE
        /\ session' = [k \in Client |-> IF session[k] = "backlog" THEN "closed" ELSE session[k]]
  /\ UNCHANGED <<engine, database, away, sent, handlers, effects, told>>

-----------------------------------------------------------------------------
(* The session.                                                            *)

\* Mutant: a document cut off is parsed as far as it goes.
ParsesAnyPrefix(c, pieces) == pieces <= Size[c]

\* A document cut off anywhere is not well-formed: parse gives the flag 2.
Parses(c, pieces) == pieces = Size[c]

\* Mutant: the loop over the items runs once too often.
OneMore(c) == c \in whole /\ effects[c] <= Statements

\* The client's request has a statement yet to be run.
Unfinished(c) == c \in whole /\ effects[c] < Statements

LesserOf(m, n) == IF m <= n THEN m ELSE n

\* Mutant: the read waits until the whole request is there.
ReadAll(t, c) ==
  /\ phase = "up" /\ Idle(t)
  /\ session[c] = "reading"
  /\ sent[c] = Size[c]
  /\ whole' = whole \cup {c}
  /\ serving' = [serving EXCEPT ![t] = c]
  /\ session' = [session EXCEPT ![c] = "parsed"]
  /\ UNCHANGED <<engine, listening, database, away, sent, conn, stale, effects, told>>

\* The handler of async_read_some: what has arrived is all it will ever read.
\* After max_length bytes the terminating zero is the first byte of resp_, which
\* nobody reads: the text is terminated all the same.
Read(t, c) ==
  /\ phase = "up" /\ Idle(t)
  /\ session[c] = "reading"
  /\ sent[c] > 0
  /\ whole' = IF Parses(c, LesserOf(sent[c], MaxRead)) THEN whole \cup {c} ELSE whole
  /\ serving' = [serving EXCEPT ![t] = c]
  /\ session' = [session EXCEPT ![c] = "parsed"]
  /\ UNCHANGED <<engine, listening, database, away, sent, conn, stale, effects, told>>

\* End of file before any byte.
ReadError(t, c) ==
  /\ phase = "up" /\ Idle(t)
  /\ session[c] = "reading"
  /\ sent[c] = 0 /\ c \in away
  /\ session' = [session EXCEPT ![c] = "closed"]
  /\ UNCHANGED <<engine, listening, database, away, sent, handlers, effects, told>>

\* connectDatabase.  If it throws, the exception is logged and C, which has not
\* been assigned, is used: it may point anywhere, or to the connection of the
\* thread's previous handler, disconnected and never deleted.
Connect(t, c) ==
  /\ Served(t, c, "parsed")
  /\ \/ /\ Available
        /\ conn' = [conn EXCEPT ![c] = "open"]
        /\ stale' = stale \cup {t}
        /\ session' = [session EXCEPT ![c] = "handling"]
        /\ UNCHANGED <<engine, listening, whole, serving, database, away, sent, effects, told>>
     \/ ~Available /\ Gone
     \/ /\ ~Available
        /\ t \in stale
        /\ session' = [session EXCEPT ![c] = "handling"]
        /\ UNCHANGED <<engine, listening, database, away, sent, handlers, effects, told>>

\* The next statement of the request.  A stale C connects again here, and libpqxx
\* may make a lost connection again.  Without a connection the exception leaves
\* run().
Statement(t, c) ==
  /\ Served(t, c, "handling")
  /\ Unfinished(c)
  /\ \/ /\ conn[c] = "open" \/ Available
        /\ conn' = [conn EXCEPT ![c] = "open"]
        /\ effects' = [effects EXCEPT ![c] = @ + 1]
        /\ UNCHANGED <<engine, listening, database, network, whole, serving, stale, told>>
     \/ /\ \/ conn[c] = "lost"
           \/ conn[c] = "none" /\ ~Available
        /\ Gone

\* The handler throws for a reason of its own (see Exchange): the exception leaves
\* run().
HandlerThrows(t, c) ==
  /\ "exception" \in Fault
  /\ Served(t, c, "handling")
  /\ Unfinished(c)
  /\ Gone

\* Mutant: the connection is not closed.
AnswerConnected(t, c) ==
  /\ Served(t, c, "handling")
  /\ ~Unfinished(c)
  /\ serving' = [serving EXCEPT ![t] = Nobody]
  /\ session' = [session EXCEPT ![c] = "writing"]
  /\ UNCHANGED <<engine, listening, database, away, sent, whole, conn, stale, effects, told>>

\* Mutant: the answer does not wait for the statements.
AnswerEarly(t, c) ==
  /\ Served(t, c, "handling")
  /\ conn' = [conn EXCEPT ![c] = "none"]
  /\ serving' = [serving EXCEPT ![t] = Nobody]
  /\ session' = [session EXCEPT ![c] = "writing"]
  /\ UNCHANGED <<engine, listening, database, away, sent, whole, stale, effects, told>>

\* The handler disconnects, starts the write and is over.
Answer(t, c) ==
  /\ Served(t, c, "handling")
  /\ ~Unfinished(c)
  /\ conn' = [conn EXCEPT ![c] = "none"]
  /\ serving' = [serving EXCEPT ![t] = Nobody]
  /\ session' = [session EXCEPT ![c] = "writing"]
  /\ UNCHANGED <<engine, listening, database, away, sent, whole, stale, effects, told>>

\* Mutant: the session reads again after its answer.
WrittenReads(t, c) ==
  /\ phase = "up" /\ Idle(t)
  /\ session[c] = "writing"
  /\ session' = [session EXCEPT ![c] = "reading"]
  /\ UNCHANGED <<engine, listening, database, away, sent, handlers, effects, told>>

\* The socket is closed whether the write succeeded or not.  Closing it with
\* pieces unread resets the connection, which may overtake the answer.
Written(t, c) ==
  /\ phase = "up" /\ Idle(t)
  /\ session[c] = "writing"
  /\ session' = [session EXCEPT ![c] = "closed"]
  /\ \/ /\ c \notin away
        /\ told' = [told EXCEPT ![c] = [what |-> IF c \in whole THEN "results" ELSE "empty",
                                        life |-> life]]
     \/ /\ c \in away \/ c \notin whole
        /\ UNCHANGED told
  /\ UNCHANGED <<engine, listening, database, away, sent, handlers, effects>>

-----------------------------------------------------------------------------

Init ==
  /\ phase = "off" /\ life = 0 /\ listening = FALSE
  /\ ready \in BOOLEAN /\ outages = 0
  /\ session = [c \in Client |-> "new"]
  /\ away = {}
  /\ sent = [c \in Client |-> 0]
  /\ whole = {}
  /\ serving = [t \in Thread |-> Nobody]
  /\ conn = [c \in Client |-> "none"]
  /\ stale = {}
  /\ effects = [c \in Client |-> 0]
  /\ told = [c \in Client |-> [what |-> "nothing", life |-> 0]]

\* What the threads of the io_context do.
Handle(t, c) ==
  \/ Read(t, c) \/ ReadError(t, c) \/ Connect(t, c) \/ Statement(t, c)
  \/ HandlerThrows(t, c) \/ Answer(t, c) \/ Written(t, c)

Start == DropTables \/ CreateTables \/ Listen

\* The engine is not serving anybody.
Quiet ==
  /\ \A c \in Client : session[c] \in {"new", "closed"}
  /\ UNCHANGED vars

Next ==
  \/ PostgresReady \/ PostgresFails
  \/ Launch \/ Start \/ RunOut
  \/ \E c \in Client : ClientConnect(c) \/ ClientSend(c) \/ ClientHangUp(c) \/ Accept(c)
  \/ \E t \in Thread, c \in Client : Handle(t, c)
  \/ Quiet

Spec == Init /\ [][Next]_vars

\* The threads of the io_context run what is ready.  Nothing is assumed of
\* clients, of an operator, or of PostgreSQL.
Fairness ==
  /\ WF_vars(RunOut)
  /\ \A c \in Client : /\ WF_vars(Accept(c))
                       /\ WF_vars(\E t \in Thread : Handle(t, c))

FairSpec == Spec /\ Fairness
=============================================================================
