---------------------------- MODULE ServerProofs ----------------------------
(***************************************************************************)
(* Theorems of Server, for every set of clients and threads, every size of *)
(* request, and any number of faults, outages and starts.                  *)
(***************************************************************************)
EXTENDS ServerProperties, FiniteSetTheorems, TLAPS

-----------------------------------------------------------------------------
(* The inductive invariant.                                                *)

\* Only an engine that is up accepts, and only such an engine has sessions.
OnlyUpServes ==
  /\ listening => phase = "up"
  /\ \A c \in Client : session[c] \notin {"new", "closed"} => phase = "up"

\* A document that parsed had arrived, and fitted in the buffer, as a whole.
WholeArrived == \A c \in whole : sent[c] = Size[c] /\ Size[c] <= MaxRead

\* Only a document that parsed has effects, and all of them when it is answered.
EffectsOfWhole ==
  \A c \in Client : /\ effects[c] > 0 => c \in whole
                    /\ session[c] = "writing" /\ c \in whole => effects[c] = Statements

\* Results were told in this life or in an earlier one, and in this one by an
\* engine that has its tables.
ToldInLife ==
  \A c \in Client :
    told[c].what = "results" => /\ told[c].life <= life
                                /\ phase = "connected" => told[c].life < life

\* The tables are empty until the engine is up.
EmptyAtFirst == phase \in {"dropped", "created"} => \A c \in Client : effects[c] = 0

\* A connection that is open belongs to a thread's request.
OpenIsServed == \A c \in Open : \E t \in Thread : serving[t] = c

IInv == /\ TypeOK /\ OnlyUpServes /\ WholeArrived /\ EffectsOfWhole
        /\ ToldInLife /\ AnswersAreKept /\ EmptyAtFirst /\ NoHalfRequests /\ OpenIsServed

\* The inductive invariant holds before anything is started.
LEMMA InitIInv == Init => IInv
<1> SUFFICES ASSUME Init PROVE IInv
  OBVIOUS
<1> USE ClientAssumption, LimitAssumption DEF Init
<1>1. TypeOK
  <2>1. /\ session \in [Client -> Stage] /\ conn \in [Client -> {"none", "open", "lost"}]
        /\ sent \in [Client -> Nat] /\ \A c \in Client : sent[c] <= Size[c]
    BY DEF Stage
  <2>2. effects \in [Client -> 0..Statements] /\ told \in [Client -> Told]
    BY DEF Told, Answers
  <2>3. serving \in [Thread -> Client \cup {Nobody}]
    OBVIOUS
  <2>4. phase \in Phase /\ life \in 0..MaxStarts /\ outages \in 0..MaxOutages
    BY DEF Phase
  <2>5. listening \in BOOLEAN /\ ready \in BOOLEAN
    OBVIOUS
  <2>6. away \subseteq Client /\ whole \subseteq Client /\ stale \subseteq Thread
    OBVIOUS
  <2> QED BY <2>1, <2>2, <2>3, <2>4, <2>5, <2>6 DEF TypeOK
<1>2. OnlyUpServes /\ WholeArrived /\ EffectsOfWhole
  BY DEF OnlyUpServes, WholeArrived, EffectsOfWhole
<1>3. ToldInLife /\ AnswersAreKept
  BY DEF ToldInLife, AnswersAreKept
<1>4. EmptyAtFirst /\ NoHalfRequests /\ OpenIsServed
  BY DEF EmptyAtFirst, NoHalfRequests, OpenIsServed, Open
<1> QED BY <1>1, <1>2, <1>3, <1>4 DEF IInv

\* The end of the process.
LEMMA GoneIInv == ASSUME IInv, Gone PROVE IInv'
<1> USE ClientAssumption, LimitAssumption DEF IInv, Gone, database
<1>1. TypeOK'
  BY DEF TypeOK, Phase, Stage
<1>2. OnlyUpServes' /\ WholeArrived' /\ EffectsOfWhole'
  BY DEF OnlyUpServes, WholeArrived, EffectsOfWhole, TypeOK
<1>3. ToldInLife' /\ AnswersAreKept'
  BY DEF ToldInLife, AnswersAreKept
<1>4. EmptyAtFirst' /\ NoHalfRequests' /\ OpenIsServed'
  BY DEF EmptyAtFirst, NoHalfRequests, OpenIsServed, Open
<1> QED BY <1>1, <1>2, <1>3, <1>4

\* PostgreSQL comes and goes.
LEMMA PostgresIInv == ASSUME IInv, PostgresReady \/ PostgresFails PROVE IInv'
<1> USE ClientAssumption, LimitAssumption
        DEF IInv, PostgresReady, PostgresFails, engine, network, handlers
<1>1. TypeOK'
  <2>1. CASE PostgresReady
    BY <2>1 DEF TypeOK
  <2>2. CASE PostgresFails
    <3>1. conn' \in [Client -> {"none", "open", "lost"}]
      BY <2>2 DEF TypeOK
    <3>2. outages' \in 0..MaxOutages
      BY <2>2 DEF TypeOK
    <3> QED BY <2>2, <3>1, <3>2 DEF TypeOK
  <2> QED BY <2>1, <2>2
<1>2. OnlyUpServes' /\ WholeArrived' /\ EffectsOfWhole'
  BY DEF OnlyUpServes, WholeArrived, EffectsOfWhole
<1>3. ToldInLife' /\ AnswersAreKept'
  BY DEF ToldInLife, AnswersAreKept
<1>4. EmptyAtFirst' /\ NoHalfRequests'
  BY DEF EmptyAtFirst, NoHalfRequests
<1>5. OpenIsServed'
  BY DEF OpenIsServed, Open, TypeOK
<1> QED BY <1>1, <1>2, <1>3, <1>4, <1>5

\* A new life: what was told was told in an earlier one.
LEMMA LaunchIInv == ASSUME IInv, Launch PROVE IInv'
<1> USE LimitAssumption DEF IInv, Launch, database, network, handlers
<1>1. TypeOK' /\ life \in Nat /\ life' = life + 1
  BY DEF TypeOK, Phase
<1>2. OnlyUpServes' /\ WholeArrived' /\ EffectsOfWhole'
  BY DEF OnlyUpServes, WholeArrived, EffectsOfWhole
<1>3. \A c \in Client : told[c].what = "results" => told[c].life \in Nat /\ told[c].life <= life
  BY DEF ToldInLife, TypeOK, Told
<1>4. ToldInLife' /\ AnswersAreKept'
  BY <1>1, <1>3 DEF ToldInLife, AnswersAreKept
<1>5. EmptyAtFirst' /\ NoHalfRequests' /\ OpenIsServed'
  BY DEF EmptyAtFirst, NoHalfRequests, OpenIsServed, Open
<1> QED BY <1>1, <1>2, <1>4, <1>5

\* The tables are emptied before anybody has been told anything in this life.
LEMMA DropIInv == ASSUME IInv, DropTables PROVE IInv'
<1> USE LimitAssumption DEF IInv, DropTables, GoesOnTo, database, network, handlers
<1>1. effects' = effects \/ effects' = [c \in Client |-> 0]
  OBVIOUS
<1>2. TypeOK'
  <2>1. effects' \in [Client -> 0..Statements]
    BY <1>1 DEF TypeOK
  <2> QED BY <2>1 DEF TypeOK, Phase
<1>3. OnlyUpServes'
  BY DEF OnlyUpServes
<1>4. WholeArrived'
  BY DEF WholeArrived
<1>5. EffectsOfWhole'
  BY <1>1 DEF EffectsOfWhole, OnlyUpServes
<1>6. ToldInLife'
  BY DEF ToldInLife
<1>7. \A c \in Client : told[c].what = "results" => told[c].life # life
  BY DEF ToldInLife, TypeOK, Told
<1>8. AnswersAreKept'
  BY <1>7 DEF AnswersAreKept
<1>9. EmptyAtFirst' /\ NoHalfRequests' /\ OpenIsServed'
  BY DEF EmptyAtFirst, NoHalfRequests, OpenIsServed, Open
<1> QED BY <1>2, <1>3, <1>4, <1>5, <1>6, <1>8, <1>9

\* A request with no statement committed is not half done.
LEMMA NoneIsNoHalf == 0 \notin 1..(Statements - 1)
BY LimitAssumption

\* The tables stay empty until the engine is up.
LEMMA StartIInv == ASSUME IInv, CreateTables \/ Listen PROVE IInv'
<1> USE DEF IInv, CreateTables, Listen, GoesOnTo, database, network, handlers
<1>1. TypeOK'
  <2>1. listening' \in BOOLEAN
    BY DEF TypeOK
  <2>2. phase' \in Phase
    BY DEF Phase
  <2> QED BY <2>1, <2>2 DEF TypeOK
<1>2. OnlyUpServes'
  <2>1. CASE CreateTables
    BY <2>1 DEF OnlyUpServes
  <2>2. CASE Listen
    BY <2>2 DEF OnlyUpServes
  <2> QED BY <2>1, <2>2
<1>5. WholeArrived' /\ EffectsOfWhole'
  BY DEF WholeArrived, EffectsOfWhole
<1>3. ToldInLife' /\ AnswersAreKept'
  BY DEF ToldInLife, AnswersAreKept
<1>4. EmptyAtFirst' /\ NoHalfRequests' /\ OpenIsServed'
  <2>1. EmptyAtFirst' /\ NoHalfRequests'
    <3>1. effects' = effects /\ \A k \in Client : effects[k] = 0
      BY DEF EmptyAtFirst
    <3> QED BY <3>1, NoneIsNoHalf DEF EmptyAtFirst, NoHalfRequests
  <2>2. OpenIsServed'
    BY DEF OpenIsServed, Open
  <2> QED BY <2>1, <2>2
<1> QED BY <1>1, <1>2, <1>3, <1>4, <1>5

\* A piece more never is one too many.
LEMMA OnePieceMore ==
  ASSUME TypeOK, NEW c \in Client, ClientSend(c)
  PROVE  /\ sent' \in [Client -> Nat]
         /\ \A k \in Client : sent'[k] <= Size[k]
         /\ \A k \in Client : sent[k] = Size[k] => sent'[k] = sent[k]
<1>1. sent \in [Client -> Nat] /\ Size \in [Client -> Nat] /\ \A k \in Client : sent[k] <= Size[k]
  BY ClientAssumption DEF TypeOK
<1>2. sent[c] < Size[c] /\ sent' = [sent EXCEPT ![c] = @ + 1]
  BY DEF ClientSend
<1> QED BY <1>1, <1>2

\* What clients do.
LEMMA ClientIInv ==
  ASSUME IInv, NEW c \in Client, ClientConnect(c) \/ ClientSend(c) \/ ClientHangUp(c)
  PROVE  IInv'
<1> USE DEF IInv, ClientConnect, ClientSend, ClientHangUp, engine, database, handlers
<1>1. TypeOK'
  <2>1. CASE ClientConnect(c)
    BY <2>1 DEF TypeOK, Stage
  <2>2. CASE ClientSend(c)
    <3>1. sent' \in [Client -> Nat] /\ \A k \in Client : sent'[k] <= Size[k]
      BY <2>2, OnePieceMore
    <3> QED BY <2>2, <3>1 DEF TypeOK
  <2>3. CASE ClientHangUp(c)
    BY <2>3 DEF TypeOK
  <2> QED BY <2>1, <2>2, <2>3
<1>2. OnlyUpServes' /\ EffectsOfWhole'
  BY DEF OnlyUpServes, EffectsOfWhole, TypeOK
<1>3. WholeArrived'
  <2>1. CASE ClientSend(c)
    <3>1. \A k \in whole : sent[k] = Size[k] => sent'[k] = sent[k]
      BY <2>1, OnePieceMore DEF TypeOK
    <3> QED BY <2>1, <3>1 DEF WholeArrived
  <2>2. CASE ~ClientSend(c)
    BY <2>2 DEF WholeArrived
  <2> QED BY <2>1, <2>2
<1>4. ToldInLife' /\ AnswersAreKept'
  BY DEF ToldInLife, AnswersAreKept
<1>5. EmptyAtFirst' /\ NoHalfRequests' /\ OpenIsServed'
  BY DEF EmptyAtFirst, NoHalfRequests, OpenIsServed, Open
<1> QED BY <1>1, <1>2, <1>3, <1>4, <1>5

\* The listener takes a connection, or resets all that wait for it.
LEMMA AcceptIInv == ASSUME IInv, NEW c \in Client, Accept(c) PROVE IInv'
<1> USE DEF IInv, Accept, engine, database, handlers
<1>1. TypeOK'
  <2>1. session' \in [Client -> Stage]
    BY DEF TypeOK, Stage
  <2>2. listening' \in BOOLEAN
    BY DEF TypeOK
  <2> QED BY <2>1, <2>2 DEF TypeOK
<1>2. OnlyUpServes' /\ WholeArrived'
  BY DEF OnlyUpServes, WholeArrived
<1>3. EffectsOfWhole'
  BY DEF EffectsOfWhole, TypeOK
<1>4. ToldInLife' /\ AnswersAreKept'
  BY DEF ToldInLife, AnswersAreKept
<1>5. EmptyAtFirst' /\ NoHalfRequests' /\ OpenIsServed'
  BY DEF EmptyAtFirst, NoHalfRequests, OpenIsServed, Open
<1> QED BY <1>1, <1>2, <1>3, <1>4, <1>5

\* One read, and what it may have got.
LEMMA ReadIInv ==
  ASSUME IInv, NEW t \in Thread, NEW c \in Client, Read(t, c) \/ ReadError(t, c)
  PROVE  IInv'
<1> USE ClientAssumption, LimitAssumption
        DEF IInv, Read, ReadError, Idle, engine, database, handlers
<1>1. TypeOK'
  BY DEF TypeOK, Stage
<1>2. OnlyUpServes'
  BY DEF OnlyUpServes, TypeOK
<1>3. WholeArrived'
  BY DEF WholeArrived, TypeOK, Parses, LesserOf
<1>4. EffectsOfWhole'
  BY DEF EffectsOfWhole, TypeOK
<1>5. ToldInLife' /\ AnswersAreKept'
  BY DEF ToldInLife, AnswersAreKept
<1>6. EmptyAtFirst'
  BY DEF EmptyAtFirst
<1>7. NoHalfRequests'
  BY DEF NoHalfRequests, TypeOK
<1>8. OpenIsServed'
  BY DEF OpenIsServed, Open, TypeOK
<1> QED BY <1>1, <1>2, <1>3, <1>4, <1>5, <1>6, <1>7, <1>8

\* The handler gets a connection, or dies, or goes on with an old one.
LEMMA ConnectIInv ==
  ASSUME IInv, NEW t \in Thread, NEW c \in Client, Connect(t, c)
  PROVE  IInv'
<1>1. CASE Gone
  BY <1>1, GoneIInv
<1>2. CASE ~Gone
  <2> USE <1>2, ClientAssumption, LimitAssumption
          DEF IInv, Connect, Served, engine, database, handlers
  <2>1. TypeOK'
    BY DEF TypeOK, Stage
  <2>2. OnlyUpServes' /\ WholeArrived' /\ EffectsOfWhole'
    BY DEF OnlyUpServes, WholeArrived, EffectsOfWhole, TypeOK
  <2>3. ToldInLife' /\ AnswersAreKept'
    BY DEF ToldInLife, AnswersAreKept
  <2>4. EmptyAtFirst' /\ NoHalfRequests'
    BY DEF EmptyAtFirst, NoHalfRequests
  <2>5. OpenIsServed'
    BY DEF OpenIsServed, Open, TypeOK
  <2> QED BY <2>1, <2>2, <2>3, <2>4, <2>5
<1> QED BY <1>1, <1>2

\* One statement more is committed: the request is whole, being handled, and was
\* not answered, neither now nor, in this life, before.
LEMMA StatementIInv ==
  ASSUME IInv, NEW t \in Thread, NEW c \in Client, Statement(t, c)
  PROVE  IInv'
<1>1. CASE Gone
  BY <1>1, GoneIInv
<1>2. CASE ~Gone
  <2> USE <1>2, ClientAssumption, LimitAssumption
          DEF IInv, Statement, Served, Unfinished, engine, database, network
  <2>1. TypeOK'
    BY DEF TypeOK
  <2>2. OnlyUpServes' /\ WholeArrived' /\ EffectsOfWhole'
    BY DEF OnlyUpServes, WholeArrived, EffectsOfWhole, TypeOK
  <2>3. ToldInLife' /\ AnswersAreKept'
    BY DEF ToldInLife, AnswersAreKept, TypeOK
  <2>4. EmptyAtFirst'
    BY DEF EmptyAtFirst
  <2>5. NoHalfRequests'
    BY DEF NoHalfRequests, TypeOK
  <2>6. OpenIsServed'
    BY DEF OpenIsServed, Open, TypeOK
  <2> QED BY <2>1, <2>2, <2>3, <2>4, <2>5, <2>6
<1> QED BY <1>1, <1>2

\* The thread lets go of a request that is done, and of its connection.
LEMMA AnswerIInv ==
  ASSUME IInv, NEW t \in Thread, NEW c \in Client, Answer(t, c)
  PROVE  IInv'
<1> USE ClientAssumption, LimitAssumption
        DEF IInv, Answer, Served, Unfinished, engine, database
<1>1. TypeOK'
  BY DEF TypeOK, Stage
<1>2. OnlyUpServes' /\ WholeArrived' /\ EffectsOfWhole'
  BY DEF OnlyUpServes, WholeArrived, EffectsOfWhole, TypeOK
<1>3. ToldInLife' /\ AnswersAreKept'
  BY DEF ToldInLife, AnswersAreKept
<1>4. EmptyAtFirst'
  BY DEF EmptyAtFirst
<1>5. NoHalfRequests'
  BY DEF NoHalfRequests, EffectsOfWhole, TypeOK
<1>6. OpenIsServed'
  BY DEF OpenIsServed, Open, TypeOK
<1> QED BY <1>1, <1>2, <1>3, <1>4, <1>5, <1>6

\* What is told is so.
LEMMA WrittenIInv ==
  ASSUME IInv, NEW t \in Thread, NEW c \in Client, Written(t, c)
  PROVE  IInv'
<1> USE ClientAssumption, LimitAssumption
        DEF IInv, Written, Idle, engine, database, handlers
<1>1. TypeOK'
  BY DEF TypeOK, Stage, Told, Answers
<1>2. OnlyUpServes' /\ WholeArrived' /\ EffectsOfWhole'
  BY DEF OnlyUpServes, WholeArrived, EffectsOfWhole, TypeOK
<1>3. ToldInLife'
  BY DEF ToldInLife, TypeOK
<1>4. AnswersAreKept'
  BY DEF AnswersAreKept, EffectsOfWhole, TypeOK
<1>5. EmptyAtFirst' /\ NoHalfRequests' /\ OpenIsServed'
  BY DEF EmptyAtFirst, NoHalfRequests, OpenIsServed, Open
<1> QED BY <1>1, <1>2, <1>3, <1>4, <1>5

\* A step that changes nothing keeps the inductive invariant.
LEMMA StutterIInv == ASSUME IInv, UNCHANGED vars PROVE IInv'
BY DEF IInv, vars, TypeOK, OnlyUpServes, WholeArrived, EffectsOfWhole, ToldInLife,
       AnswersAreKept, EmptyAtFirst, NoHalfRequests, OpenIsServed, Open

\* Every step keeps the inductive invariant.
LEMMA NextIInv == IInv /\ [Next]_vars => IInv'
<1> SUFFICES ASSUME IInv, [Next]_vars PROVE IInv'
  OBVIOUS
<1>1. CASE PostgresReady \/ PostgresFails
  BY <1>1, PostgresIInv
<1>2. CASE Launch \/ Start
  BY <1>2, LaunchIInv, DropIInv, StartIInv DEF Start
<1>3. CASE RunOut
  BY <1>3, GoneIInv DEF RunOut
<1>4. CASE \E c \in Client : ClientConnect(c) \/ ClientSend(c) \/ ClientHangUp(c) \/ Accept(c)
  BY <1>4, ClientIInv, AcceptIInv
<1>5. CASE \E t \in Thread, c \in Client : Handle(t, c)
  BY <1>5, ReadIInv, ConnectIInv, StatementIInv, GoneIInv, AnswerIInv, WrittenIInv
     DEF Handle, HandlerThrows
<1>6. CASE Quiet \/ UNCHANGED vars
  BY <1>6, StutterIInv DEF Quiet
<1> QED BY <1>1, <1>2, <1>3, <1>4, <1>5, <1>6 DEF Next

\* The inductive invariant always holds; the theorems below are its consequences.
LEMMA Invariant == Spec => []IInv
BY InitIInv, NextIInv, PTL DEF Spec

-----------------------------------------------------------------------------
(* The theorems.                                                           *)

\* Every state has the types of the code's variables (session.hpp:26-33).
THEOREM ServerTypes == Spec => []TypeOK
<1>1. IInv => TypeOK
  BY DEF IInv
<1> QED BY <1>1, Invariant, PTL

\* Results told in this life of the engine are in the tables
\* (session.hpp:111-117, engine.cpp:25).
THEOREM AnswersKept == Spec => []AnswersAreKept
<1>1. IInv => AnswersAreKept
  BY DEF IInv
<1> QED BY <1>1, Invariant, PTL

\* No request is carried out of which a part had not arrived (session.hpp:54-61).
THEOREM WholeRequests == Spec => []OnlyWholeRequests
<1>1. IInv => OnlyWholeRequests
  BY DEF IInv, EffectsOfWhole, WholeArrived, OnlyWholeRequests
<1> QED BY <1>1, Invariant, PTL

\* An engine that serves has in its tables no half of a request that nobody
\* handles any more (engine.cpp:25, 43).
THEOREM NoHalves == Spec => []NoHalfRequests
<1>1. IInv => NoHalfRequests
  BY DEF IInv
<1> QED BY <1>1, Invariant, PTL

\* There are never more connections than threads: different connections belong to
\* different threads' requests (session.hpp:72, 115).
THEOREM BoundedConnections == Spec => []ConnectionsBounded
<1>1. IInv => ConnectionsBounded
  <2> SUFFICES ASSUME IInv PROVE Cardinality(Open) <= Cardinality(Thread)
    BY DEF IInv, OpenIsServed, ConnectionsBounded
  <2> DEFINE f == [c \in Open |-> CHOOSE t \in Thread : serving[t] = c]
  <2>1. \A c \in Open : f[c] \in Thread /\ serving[f[c]] = c
    BY DEF IInv, OpenIsServed
  <2>2. f \in Injection(Open, Thread)
    BY <2>1 DEF Injection, IsInjective
  <2> HIDE DEF f
  <2> QED BY <2>2, FS_Injection, FiniteAssumption
<1> QED BY <1>1, Invariant, PTL

-----------------------------------------------------------------------------
(* The engine stays up.                                                    *)

\* A connection is that of a handler at work, and none is lost before an outage.
ConnAtWork ==
  \A c \in Client : /\ conn[c] # "none" => session[c] = "handling"
                    /\ conn[c] = "lost" => outages # 0

\* No connection is made but by a handler, kept but until its answer, or lost but by
\* an outage.
LEMMA NextConn == IInv /\ ConnAtWork /\ [Next]_vars => ConnAtWork'
<1> SUFFICES ASSUME IInv, ConnAtWork, [Next]_vars PROVE ConnAtWork'
  OBVIOUS
<1> USE DEF engine, database, network, handlers
<1>1. TypeOK /\ outages \in Nat
  BY LimitAssumption DEF IInv, TypeOK
<1>2. CASE PostgresReady \/ Launch \/ Start
  BY <1>2 DEF PostgresReady, Launch, Start, DropTables, CreateTables, Listen, ConnAtWork
<1>3. CASE PostgresFails
  BY <1>1, <1>3 DEF PostgresFails, ConnAtWork
<1>4. CASE Gone
  BY <1>4 DEF Gone, ConnAtWork
<1>5. ASSUME NEW c \in Client, ClientConnect(c) \/ ClientSend(c) \/ ClientHangUp(c) \/ Accept(c)
      PROVE  ConnAtWork'
  BY <1>1, <1>5 DEF ClientConnect, ClientSend, ClientHangUp, Accept, ConnAtWork, TypeOK
<1>6. ASSUME NEW t \in Thread, NEW c \in Client, Handle(t, c), ~Gone PROVE ConnAtWork'
  <2>1. CASE Read(t, c) \/ ReadError(t, c) \/ Written(t, c)
    BY <1>1, <2>1 DEF Read, ReadError, Written, ConnAtWork, TypeOK
  <2>2. CASE Connect(t, c) \/ Statement(t, c) \/ Answer(t, c)
    BY <1>1, <1>6, <2>2 DEF Connect, Statement, Answer, Served, ConnAtWork, TypeOK
  <2> QED BY <1>6, <2>1, <2>2 DEF Handle, HandlerThrows
<1>7. CASE Quiet \/ UNCHANGED vars
  BY <1>7 DEF Quiet, vars, ConnAtWork
<1> QED BY <1>2, <1>3, <1>4, <1>5, <1>6, <1>7 DEF Next, RunOut

\* The clients that have a connection are no more than the busy threads, and fewer
\* when one of these serves a client that has none.
LEMMA OpenAreBusy ==
  ASSUME IInv
  PROVE  /\ Cardinality(Open) \in Nat /\ Busy \in Nat /\ Sessions \in Nat
         /\ Cardinality(Open) <= Busy
         /\ \A t \in Thread : serving[t] \in Client \ Open => Cardinality(Open) < Busy
<1> DEFINE busy == {t \in Thread : ~Idle(t)}
           f == [c \in Open |-> CHOOSE t \in Thread : serving[t] = c]
<1>1. \A c \in Open : f[c] \in busy /\ serving[f[c]] = c
  BY ClientAssumption DEF IInv, OpenIsServed, Open, Idle
<1>2. IsFiniteSet(busy) /\ Cardinality(busy) \in Nat /\ Busy = Cardinality(busy)
  BY FiniteAssumption, FS_Subset, FS_CardinalityType DEF Busy
<1>3. Cardinality(Open) \in Nat /\ Sessions \in Nat
  <2>1. Open \subseteq Client /\ {c \in Client : InSession(c)} \subseteq Client
    BY DEF Open
  <2> QED BY <2>1, FiniteAssumption, FS_Subset, FS_CardinalityType DEF Sessions
<1>4. f \in Injection(Open, busy)
  BY <1>1 DEF Injection, IsInjective
<1>5. Cardinality(Open) <= Busy
  <2> HIDE DEF busy, f
  <2> QED BY <1>2, <1>4, FS_Injection
<1>6. ASSUME NEW t \in Thread, serving[t] \in Client \ Open PROVE Cardinality(Open) < Busy
  <2>1. t \in busy
    BY <1>6, ClientAssumption DEF Idle
  <2>2. f \in Injection(Open, busy \ {t})
    BY <1>1, <1>4, <1>6 DEF Injection, IsInjective
  <2>3. IsFiniteSet(busy \ {t}) /\ Cardinality(busy \ {t}) = Cardinality(busy) - 1
    <3> HIDE DEF busy
    <3> QED BY <1>2, <2>1, FS_RemoveElement
  <2>4. Cardinality(Open) <= Cardinality(busy \ {t})
    <3> HIDE DEF busy, f
    <3> QED BY <2>2, <2>3, FS_Injection
  <2> QED BY <1>2, <1>3, <2>3, <2>4
<1> QED BY <1>2, <1>3, <1>5, <1>6

\* An engine with a connection and a socket for every busy thread, served by a
\* PostgreSQL that never failed, is ended by nothing but a handler's own exception,
\* and goes on listening unless every socket is taken (session.hpp:54-137,
\* stock_server.cpp:49).  A handler that has none yet is busy and has none of the
\* connections that are open (OpenAreBusy), so that one is left for it; and it has
\* lost none (ConnAtWork).
THEOREM EngineStaysUp == Spec => StaysUp
<1> DEFINE Guard == /\ phase = "up" /\ listening /\ ready /\ outages = 0
                    /\ Busy <= MaxConnections /\ Sessions + Busy <= MaxFiles
           Stays == \/ phase' = "up" /\ (listening' \/ Files = MaxFiles)
                    \/ \E t \in Thread, c \in Client : HandlerThrows(t, c)
<1>1. IInv /\ ConnAtWork /\ [Next]_vars => [Guard => Stays]_vars
  <2> SUFFICES ASSUME IInv, ConnAtWork, Next, Guard PROVE Stays
    OBVIOUS
  <2> USE DEF engine, database, network, handlers
  <2>1. /\ MaxConnections \in Nat /\ MaxFiles \in Nat
        /\ Files \in Nat /\ Files = Sessions + Cardinality(Open) /\ Files <= MaxFiles
    BY OpenAreBusy, LimitAssumption DEF Files, Sessions
  <2>2. ASSUME NEW t \in Thread, NEW c \in Client, serving[t] = c, conn[c] = "none"
        PROVE  Available
    <3>1. Cardinality(Open) < Busy
      BY <2>2, OpenAreBusy DEF Open
    <3> QED BY <2>1, <3>1, OpenAreBusy DEF Available
  <2>3. CASE PostgresReady \/ PostgresFails \/ Launch \/ Start \/ RunOut \/ Quiet
    BY <2>3 DEF PostgresReady, PostgresFails, Launch, Start, DropTables, CreateTables, Listen,
                RunOut, Quiet, vars
  <2>4. ASSUME NEW c \in Client, ClientConnect(c) \/ ClientSend(c) \/ ClientHangUp(c) \/ Accept(c)
        PROVE  Stays
    <3>1. phase' = "up"
      BY <2>4 DEF ClientConnect, ClientSend, ClientHangUp, Accept
    <3>2. CASE listening' = listening
      BY <3>1, <3>2
    <3>3. CASE listening' # listening
      <4>1. Files >= MaxFiles
        BY <2>4, <3>3 DEF ClientConnect, ClientSend, ClientHangUp, Accept
      <4> QED BY <2>1, <3>1, <4>1
    <3> QED BY <3>2, <3>3
  <2>5. ASSUME NEW t \in Thread, NEW c \in Client, Handle(t, c) PROVE Stays
    <3>1. CASE Read(t, c) \/ ReadError(t, c) \/ Answer(t, c) \/ Written(t, c)
      BY <3>1 DEF Read, ReadError, Answer, Written
    <3>2. CASE Connect(t, c)
      <4>1. conn[c] = "none"
        BY <3>2 DEF Connect, Served, ConnAtWork
      <4> QED BY <2>2, <3>2, <4>1 DEF Connect, Served
    <3>3. CASE Statement(t, c)
      <4>1. conn[c] # "lost"
        BY DEF ConnAtWork
      <4> QED BY <2>2, <3>3, <4>1 DEF Statement, Served
    <3> QED BY <2>5, <3>1, <3>2, <3>3 DEF Handle
  <2> QED BY <2>3, <2>4, <2>5 DEF Next
<1>2. Init => ConnAtWork
  BY DEF Init, ConnAtWork
<1>3. Spec => [](IInv /\ ConnAtWork)
  BY <1>2, InitIInv, NextIInv, NextConn, PTL DEF Spec
<1> QED BY <1>1, <1>3, PTL DEF Spec, StaysUp
=============================================================================
