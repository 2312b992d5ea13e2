-------------------------- MODULE ServerProperties --------------------------
(***************************************************************************)
(* What the life of the engine promises its clients, its operator and      *)
(* PostgreSQL, whatever fails around it.                                   *)
(***************************************************************************)
EXTENDS Server

\* The state has the types the code gives it: a thread serves one client or
\* nobody, a client has one session and one connection (session.hpp:26-33).
TypeOK ==
  /\ phase \in Phase /\ life \in 0..MaxStarts
  /\ listening \in BOOLEAN /\ ready \in BOOLEAN /\ outages \in 0..MaxOutages
  /\ session \in [Client -> Stage]
  /\ away \subseteq Client
  /\ sent \in [Client -> Nat] /\ \A c \in Client : sent[c] <= Size[c]
  /\ whole \subseteq Client
  /\ serving \in [Thread -> Client \cup {Nobody}]
  /\ conn \in [Client -> {"none", "open", "lost"}]
  /\ stale \subseteq Thread
  /\ effects \in [Client -> 0..Statements]
  /\ told \in [Client -> Told]

-----------------------------------------------------------------------------
(* Safety.                                                                 *)

\* A client that was told its results in this life of the engine finds all its
\* statements in the tables: the answer is written after the last one has been
\* committed (session.hpp:111-117), and only the next start drops the tables
\* (engine.cpp:25), which it does before anybody is served.
AnswersAreKept ==
  \A c \in Client :
    told[c].what = "results" /\ told[c].life = life => effects[c] = Statements

\* Nothing of a request is carried out unless all of it had arrived when the
\* session read, and fitted in the buffer: a session reads once (session.hpp:54)
\* and a document cut off anywhere does not parse (parser.cpp:15).
OnlyWholeRequests ==
  \A c \in Client : effects[c] > 0 => sent[c] = Size[c] /\ Size[c] <= MaxRead

\* While the engine serves, a request that is half done is one a thread is doing:
\* an engine that ends in the middle of a request leaves its statements behind,
\* and the next one drops them with everything else (engine.cpp:25, 43).
NoHalfRequests ==
  phase = "up" =>
    \A c \in Client : effects[c] \in 1..(Statements - 1) => \E t \in Thread : serving[t] = c

\* A connection to PostgreSQL is open only while a thread handles its request, so
\* that there are never more of them than threads: each handler opens its own and
\* closes it before the thread takes another (session.hpp:72, 115).
ConnectionsBounded ==
  /\ \A c \in Open : \E t \in Thread : serving[t] = c
  /\ Cardinality(Open) <= Cardinality(Thread)

Busy     == Cardinality({t \in Thread : ~Idle(t)})
Sessions == Cardinality({c \in Client : InSession(c)})

\* An engine that serves goes on serving as long as PostgreSQL has stayed up and has
\* a connection, and the process a socket, for every busy thread, unless a handler
\* throws: no client, whatever it sends and whenever it hangs up, and no handler
\* that has ended leave anything behind that is missed later.  The listener gives up
\* when it accepts with every socket in use (session.hpp:54-137, stock_server.cpp:49).
StaysUp ==
  [][phase = "up" /\ listening /\ ready /\ outages = 0
       /\ Busy <= MaxConnections /\ Sessions + Busy <= MaxFiles
     => \/ phase' = "up" /\ (listening' \/ Files = MaxFiles)
        \/ \E t \in Thread, c \in Client : HandlerThrows(t, c)]_vars

-----------------------------------------------------------------------------
(* Liveness.                                                               *)

\* A client that is connected and has sent anything at all gets its connection
\* closed, with or without an answer: a session waits for one read only, its
\* handler ends or ends the process, and the socket is closed after the write
\* (session.hpp:54-137).
EverySenderServed ==
  \A c \in Client :
    session[c] \in {"backlog", "reading"} /\ sent[c] > 0 ~> session[c] = "closed"

\* An engine that accepts nobody any more, after an error of the listener or of
\* one accept (stock_server.cpp:49), does not stay when the clients it still has
\* have sent something or hung up: run() returns after the last session.
DeafEngineEnds ==
  /\ phase = "up" /\ ~listening
  /\ \A c \in Client : session[c] = "reading" => sent[c] > 0 \/ c \in away
  ~> phase # "up"
=============================================================================
