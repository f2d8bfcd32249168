--------------------------- MODULE LspClientProofs ---------------------------
(***************************************************************************)
(* Theorems about LspClient, for any workers, any number of requests and    *)
(* messages, of deaths of the server and of malformed messages.             *)
(***************************************************************************)
EXTENDS LspClient, FoldProofs

(***************************************************************************)
(* Types: the messages on the two pipes, and a bound on the identifiers     *)
(* that are still to be given, which keeps nextId among Ids.                *)
(***************************************************************************)
Questions == Callers \X Nat
Requests  == [type : {"request"}, id : Ids, question : Questions]
ForServer == Requests \cup [type : {"cancel"}, id : Ids] \cup [type : {"exit"}]
ForClient ==
    [type : {"result", "error", "retryable"}, id : Ids, question : Questions]
      \cup [type : {"retryable"}, id : Ids]
      \cup [type : {"register", "unregister"}, id : Registrations]
      \cup [type : {"notification", "malformed"}]

Answering(message) == message.type \in {"result", "error", "retryable"}

ClientType ==
    client \in [connected : BOOLEAN, fatal : BOOLEAN, stopping : BOOLEAN,
                nextId : Nat \ {0}, pending : [Ids -> Callers \cup {Nobody}],
                recorded : Nat, registrations : {client.registrations},
                received : BOOLEAN,
                waiter : {"none", "waiting", "received", "timeout"}]

CallRecord ==
    [stage    : {"idle", "waiting", "delay", "answered", "failed"},
     attempt  : Nat, question : Nat, answer : Questions \cup {<<>>}]

CallType ==
    call \in [Callers -> CallRecord]

ServerType ==
    server \in [alive : BOOLEAN, exitCode : BOOLEAN, closed : BOOLEAN,
                killed : BOOLEAN, held : SUBSET Requests,
                registrations : {server.registrations}]

\* Calls of the connection's owner that are still to come.
CallsLeft == CASE phase = "new" -> 2
               [] phase \in {"starting", "open", "failed"} -> 1
               [] OTHER -> 0

PipesType == toServer \in Seq(ForServer) /\ toClient \in Seq(ForClient)

PhaseType ==
    phase \in {"new", "starting", "open", "failed", "shutdown", "exit", "stopped"}

BudgetType == budget \in [traffic : Nat, faults : Nat]

IdsBounded == client.nextId + budget.traffic + CallsLeft <= MaxRequests + 1

TypeInv ==
    /\ ClientType /\ CallType /\ ServerType /\ PipesType
    /\ PhaseType /\ BudgetType /\ IdsBounded

(***************************************************************************)
(* Callers and the map of pending requests: a caller waits if and only if   *)
(* the map has an entry for it, and it has one.                             *)
(***************************************************************************)
NothingYet ==
    phase = "new" =>
        /\ client = NewClient /\ toServer = <<>> /\ toClient = <<>>
        /\ ~ server.alive /\ server.held = {}
        /\ \A c \in Callers : call[c].stage = "idle"

PendingWait ==
    \A id \in Ids : client.pending[id] # Nobody =>
        call[client.pending[id]].stage = "waiting" /\ id < client.nextId

WaitersPend ==
    \A c \in Callers : call[c].stage = "waiting" =>
        \E id \in Ids : client.pending[id] = c

PendOnce ==
    \A i, j \in Ids :
        client.pending[i] # Nobody /\ client.pending[i] = client.pending[j] => i = j

MainWaits == call[Main].stage = "waiting" => phase \in {"starting", "shutdown"}

Broken == client.fatal \/ phase = "stopped" => Pending = {}

Disconnected == phase = "stopped" => ~ client.connected

Recorded == client.recorded + Cardinality(Pending) = client.nextId - 1

CallsInv ==
    /\ NothingYet /\ PendingWait /\ WaitersPend /\ PendOnce
    /\ MainWaits /\ Broken /\ Disconnected /\ Recorded

(***************************************************************************)
(* Messages: what is on its way was sent under an identifier that has been   *)
(* given; a request is in one place; while somebody waits for it, it holds   *)
(* what that caller asked last.                                             *)
(***************************************************************************)
Fresh ==
    /\ \A i \in DOMAIN toServer :
          toServer[i].type = "request" => toServer[i].id < client.nextId
    /\ \A m \in server.held : m.id < client.nextId
    /\ \A i \in DOMAIN toClient :
          Answering(toClient[i]) => toClient[i].id < client.nextId

InOnePlace ==
    /\ \A i, j \in DOMAIN toServer :
          toServer[i].type = "request" /\ toServer[j].type = "request"
            /\ toServer[i].id = toServer[j].id => i = j
    /\ \A m, n \in server.held : m.id = n.id => m = n
    /\ \A i \in DOMAIN toServer, m \in server.held :
          toServer[i].type = "request" => toServer[i].id # m.id
    /\ \A i \in DOMAIN toClient : Answering(toClient[i]) =>
          /\ \A m \in server.held : m.id # toClient[i].id
          /\ \A j \in DOMAIN toServer :
                toServer[j].type = "request" => toServer[j].id # toClient[i].id

\* What is asked under an identifier, if somebody waits for its answer.
IsAsked(id, question) ==
    client.pending[id] # Nobody => question = Asked(client.pending[id])

QuestionsKept ==
    /\ \A i \in DOMAIN toServer :
          toServer[i].type = "request" => IsAsked(toServer[i].id, toServer[i].question)
    /\ \A m \in server.held : IsAsked(m.id, m.question)
    /\ \A i \in DOMAIN toClient :
          toClient[i].type = "result" => IsAsked(toClient[i].id, toClient[i].question)

MessagesInv == Fresh /\ InOnePlace /\ QuestionsKept /\ AnswersMatch

(***************************************************************************)
(* Work: a request that nobody waits for is followed by its cancellation.    *)
(***************************************************************************)
Working == server.alive /\ ~ client.fatal /\ client.connected

CancelFollows ==
    Working => \A i \in DOMAIN toServer : toServer[i].type = "request" =>
        \/ toServer[i].id \in Pending
        \/ \E j \in DOMAIN toServer :
              i < j /\ toServer[j] = [type |-> "cancel", id |-> toServer[i].id]

WorkInv == CancelFollows /\ WorkIsAwaited

-----------------------------------------------------------------------------
(***************************************************************************)
(* Lemmas about sequences and finite sets                                   *)
(***************************************************************************)
LEMMA TailElements ==
  ASSUME NEW S, NEW s \in Seq(S), s # <<>>
  PROVE  /\ Tail(s) \in Seq(S)
         /\ DOMAIN s \subseteq Nat \ {0} /\ DOMAIN Tail(s) \subseteq Nat \ {0}
         /\ \A i \in DOMAIN Tail(s) : i + 1 \in DOMAIN s /\ Tail(s)[i] = s[i + 1]
         /\ \A i \in DOMAIN s :
               i # 1 => i - 1 \in DOMAIN Tail(s) /\ Tail(s)[i - 1] = s[i]
         /\ 1 \in DOMAIN s /\ Head(s) = s[1] /\ Head(s) \in S
  BY HeadTailProperties, LenProperties

LEMMA AppendElements ==
  ASSUME NEW S, NEW s \in Seq(S), NEW e \in S
  PROVE  /\ Append(s, e) \in Seq(S)
         /\ Len(s) \in Nat /\ DOMAIN s \subseteq 1..Len(s)
         /\ DOMAIN Append(s, e) = DOMAIN s \cup {Len(s) + 1}
         /\ \A i \in DOMAIN s : Append(s, e)[i] = s[i]
         /\ Append(s, e)[Len(s) + 1] = e
  BY AppendProperties, LenProperties

LEMMA SuffixElements ==
  ASSUME NEW S, NEW s \in Seq(S), NEW n \in 1..Len(s)
  PROVE  /\ SubSeq(s, n + 1, Len(s)) \in Seq(S)
         /\ DOMAIN s \subseteq Nat \ {0}
         /\ DOMAIN SubSeq(s, n + 1, Len(s)) \subseteq Nat \ {0}
         /\ \A i \in DOMAIN SubSeq(s, n + 1, Len(s)) :
               i + n \in DOMAIN s /\ SubSeq(s, n + 1, Len(s))[i] = s[i + n]
  <1>1. Len(s) \in Nat /\ DOMAIN s = 1..Len(s) /\ \A i \in 1..Len(s) : s[i] \in S
    BY LenProperties
  <1>2. /\ SubSeq(s, n + 1, Len(s)) \in Seq(S)
        /\ Len(SubSeq(s, n + 1, Len(s))) = IF n + 1 <= Len(s) THEN Len(s) - n ELSE 0
        /\ \A i \in 1..(Len(s) - n) : SubSeq(s, n + 1, Len(s))[i] = s[n + i]
    BY <1>1, SubSeqProperties
  <1>3. DOMAIN SubSeq(s, n + 1, Len(s)) = 1..(Len(s) - n)
    BY <1>1, <1>2, LenProperties
  <1> QED BY <1>1, <1>2, <1>3

LEMMA AtMostOne ==
  ASSUME NEW S, \A i, j \in S : i = j
  PROVE  Cardinality(S) = IF S = {} THEN 0 ELSE 1
  <1>1. CASE S = {}
    BY <1>1, FS_EmptySet
  <1>2. CASE S # {}
    <2>1. PICK i \in S : TRUE
      BY <1>2
    <2>2. S = {i}
      BY <2>1
    <2> QED BY <2>2, FS_Singleton
  <1> QED BY <1>1, <1>2

LEMMA PendingFinite ==
  IsFiniteSet(Pending) /\ Cardinality(Pending) \in Nat
  <1>1. MaxRequests \in Nat
    BY LspClientAssumption DEF MaxRequests
  <1>2. IsFiniteSet(Ids)
    BY <1>1, FS_Interval DEF Ids
  <1> QED BY <1>2, FS_Subset, FS_CardinalityType DEF Pending

-----------------------------------------------------------------------------
(***************************************************************************)
(* Types are kept                                                          *)
(***************************************************************************)
LEMMA TypeInit == Init => TypeInv
  <1> SUFFICES ASSUME Init PROVE TypeInv
    OBVIOUS
  <1>1. ClientType
    BY DEF Init, NewClient, ClientType
  <1>2. CallType
    BY DEF Init, NewCall, CallType, CallRecord
  <1>3. ServerType
    BY DEF Init, NewServer, ServerType
  <1>4. PipesType /\ PhaseType
    BY DEF Init, PipesType, PhaseType
  <1>5. BudgetType
    BY LspClientAssumption DEF Init, BudgetType
  <1>6. IdsBounded
    BY LspClientAssumption DEF Init, NewClient, IdsBounded, CallsLeft, MaxRequests
  <1> QED BY <1>1, <1>2, <1>3, <1>4, <1>5, <1>6 DEF TypeInv

\* While a bound allows a request, its identifier is one of Ids.
LEMMA NextIdInRange ==
  ASSUME TypeInv, budget.traffic > 0 \/ CallsLeft > 0
  PROVE  client.nextId \in Ids
  <1>1. client.nextId \in Nat \ {0} /\ budget.traffic \in Nat /\ CallsLeft \in Nat
    BY DEF TypeInv, ClientType, BudgetType, CallsLeft
  <1>2. MaxRequests \in Nat
    BY LspClientAssumption DEF MaxRequests
  <1> QED BY <1>1, <1>2 DEF TypeInv, IdsBounded, Ids

\* The bound is kept where no more is given than was left.
LEMMA BoundKept ==
  ASSUME TypeInv, NEW i \in 0..1,
         client'.nextId \in Nat, client'.nextId <= client.nextId + i,
         budget'.traffic \in Nat, CallsLeft' \in Nat,
         budget'.traffic + CallsLeft' + i <= budget.traffic + CallsLeft
  PROVE  IdsBounded'
  <1>1. client.nextId \in Nat \ {0} /\ budget.traffic \in Nat /\ CallsLeft \in Nat
    BY DEF TypeInv, ClientType, BudgetType, CallsLeft
  <1>2. MaxRequests \in Nat /\ MaxRequests' = MaxRequests
    BY LspClientAssumption DEF MaxRequests
  <1> QED BY <1>1, <1>2 DEF TypeInv, IdsBounded

\* An entry of the map keeps the client's type.
LEMMA PendingType ==
  ASSUME ClientType,
         \/ \E c \in Callers \cup {Nobody}, id \in Ids :
               client'.pending = [client.pending EXCEPT ![id] = c]
         \/ client'.pending = [id \in Ids |-> Nobody]
         \/ client'.pending = client.pending
  PROVE  client'.pending \in [Ids -> Callers \cup {Nobody}]
  BY DEF ClientType

LEMMA RequestType ==
  ASSUME TypeInv, NEW c \in Callers, NEW asked \in CallRecord, Request(c, asked),
         client.nextId \in Ids
  PROVE  /\ ClientType' /\ CallType' /\ toServer' \in Seq(ForServer)
         /\ client'.nextId <= client.nextId + 1
  <1>1. CallType'
    <2>1. [asked EXCEPT !.stage = "failed"] \in CallRecord
          /\ [asked EXCEPT !.stage = "waiting"] \in CallRecord
      BY DEF CallRecord
    <2> QED BY <2>1 DEF Request, RequestAs, TypeInv, CallType, CallRecord
  <1>2. CASE client.fatal \/ ~ client.connected
    <2>1. UNCHANGED <<client, toServer>>
      BY <1>2 DEF Request, RequestAs
    <2>2. ClientType' /\ client'.nextId <= client.nextId + 1
      BY <2>1 DEF TypeInv, ClientType
    <2> QED BY <1>1, <2>1, <2>2 DEF TypeInv, PipesType
  <1>3. CASE ~ (client.fatal \/ ~ client.connected)
    <2>1. client' = [client EXCEPT !.nextId = @ + 1, !.pending[client.nextId] = c]
      BY <1>3 DEF Request, RequestAs
    <2>2. client'.pending \in [Ids -> Callers \cup {Nobody}]
      BY <2>1, PendingType DEF TypeInv, ClientType
    <2>3. client'.nextId = client.nextId + 1 /\ client'.nextId \in Nat \ {0}
      BY <2>1 DEF TypeInv, ClientType
    <2>6. ClientType'
      BY <2>1, <2>2, <2>3 DEF TypeInv, ClientType
    <2>4. [type |-> "request", id |-> client.nextId,
           question |-> <<c, asked.question>>] \in ForServer
      BY DEF ForServer, Requests, Questions, CallRecord
    <2>5. Sent([type |-> "request", id |-> client.nextId,
                question |-> <<c, asked.question>>]) \in Seq(ForServer)
      BY <2>4, AppendElements DEF Sent, TypeInv, PipesType
    <2>7. toServer' \in Seq(ForServer)
      BY <1>3, <2>5 DEF Request, RequestAs
    <2>8. client'.nextId <= client.nextId + 1
      BY <2>3 DEF TypeInv, ClientType
    <2> QED BY <1>1, <2>6, <2>7, <2>8
  <1> QED BY <1>2, <1>3

LEMMA AllRejectedType ==
  ASSUME TypeInv
  PROVE  AllRejected \in [Callers -> CallRecord]
  BY DEF AllRejected, TypeInv, CallType, CallRecord

\* failPending keeps types, whatever else of the client's flags is set.
LEMMA FailedPendingType ==
  ASSUME TypeInv
  PROVE  FailedPending(client) \in
           [connected : BOOLEAN, fatal : BOOLEAN, stopping : BOOLEAN,
            nextId : {client.nextId}, pending : {[id \in Ids |-> Nobody]},
            recorded : Nat, registrations : {client.registrations},
            received : BOOLEAN,
            waiter : {"none", "waiting", "received", "timeout"}]
  <1>1. FailedPending(client).recorded \in Nat
    BY PendingFinite DEF FailedPending, TypeInv, ClientType
  <1> QED BY <1>1 DEF FailedPending, TypeInv, ClientType

LEMMA CleanupType ==
  ASSUME TypeInv, Cleanup
  PROVE  /\ ClientType' /\ CallType' /\ ServerType'
         /\ PipesType' /\ PhaseType'
         /\ phase' = "stopped" /\ client'.nextId = client.nextId
  <1>1. client' = [FailedPending(client) EXCEPT !.connected = FALSE, !.stopping = TRUE]
    BY DEF Cleanup
  <1>2. ClientType' /\ client'.nextId = client.nextId
    BY <1>1, FailedPendingType DEF TypeInv, ClientType
  <1>3. CallType'
    BY AllRejectedType DEF Cleanup, CallType, CallRecord
  <1>4. ServerType'
    BY DEF Cleanup, Killed, TypeInv, ServerType
  <1>5. PipesType' /\ PhaseType'
    BY DEF Cleanup, PipesType, PhaseType, TypeInv
  <1> QED BY <1>2, <1>3, <1>4, <1>5 DEF Cleanup

LEMMA SpendType ==
  ASSUME BudgetType, NEW what \in {"traffic", "faults"}, Spend(what)
  PROVE  /\ BudgetType'
         /\ budget'.traffic \in Nat /\ budget.traffic \in Nat
         /\ what = "traffic" => budget.traffic > 0 /\ budget'.traffic = budget.traffic - 1
         /\ what = "faults" => budget'.traffic = budget.traffic
  <1>1. budget[what] \in Nat /\ budget[what] > 0
          /\ budget' = [budget EXCEPT ![what] = budget[what] - 1]
    BY DEF Spend, BudgetType
  <1>2. budget[what] - 1 \in Nat
    BY <1>1
  <1> DEFINE less == budget[what] - 1
  <1>3. budget' = [budget EXCEPT ![what] = less] /\ less \in Nat
    BY <1>1, <1>2
  <1> HIDE DEF less
  <1>4. BudgetType' /\ budget'[what] = less
    BY <1>3 DEF BudgetType
  <1>5. what = "faults" => budget'.traffic = budget.traffic
    BY <1>3 DEF BudgetType
  <1> QED BY <1>1, <1>4, <1>5 DEF BudgetType, less

\* A message is read from a pipe, or one more is sent.
LEMMA PipesMove ==
  ASSUME PipesType
  PROVE  /\ toServer # <<>> =>
               Head(toServer) \in ForServer /\ Tail(toServer) \in Seq(ForServer)
         /\ toClient # <<>> =>
               Head(toClient) \in ForClient /\ Tail(toClient) \in Seq(ForClient)
         /\ \A m \in ForServer : Sent(m) \in Seq(ForServer)
         /\ \A m \in ForClient : Append(toClient, m) \in Seq(ForClient)
  BY TailElements, AppendElements DEF PipesType, Sent

LEMMA SettledType ==
  ASSUME ClientType, NEW id \in Ids, client' = Settled(id)
  PROVE  ClientType' /\ client'.nextId = client.nextId
  <1>1. client'.pending \in [Ids -> Callers \cup {Nobody}]
    BY DEF Settled, ClientType
  <1>2. client'.recorded \in Nat
    BY DEF Settled, ClientType
  <1>3. client'.nextId = client.nextId
    BY DEF Settled, ClientType
  <1> QED BY <1>1, <1>2, <1>3 DEF Settled, ClientType

\* Breaking the connection keeps types.
LEMMA BreaksType ==
  ASSUME TypeInv, Breaks
  PROVE  /\ ClientType' /\ CallType' /\ ServerType'
         /\ client'.nextId = client.nextId
  <1>1. CASE client.fatal
    BY <1>1 DEF Breaks, TypeInv, ClientType, CallType, ServerType
  <1>2. CASE ~ client.fatal
    <2>1. client' = [FailedPending(client) EXCEPT !.fatal = TRUE]
      BY <1>2 DEF Breaks
    <2>4. ClientType' /\ client'.nextId = client.nextId
      BY <2>1, FailedPendingType DEF TypeInv, ClientType
    <2>2. CallType'
      BY <1>2, AllRejectedType DEF Breaks, CallType
    <2>3. ServerType'
      BY <1>2 DEF Breaks, Killed, TypeInv, ServerType
    <2> QED BY <2>2, <2>3, <2>4
  <1> QED BY <1>1, <1>2

\* What a worker asks has the type of a call.
LEMMA WorkerAsks ==
  ASSUME TypeInv, NEW w \in Workers, Ask(w) \/ Retry(w)
  PROVE  \E asked \in CallRecord : Request(w, asked) /\ asked.stage = call[w].stage
  <1>1. call[w] \in CallRecord
    BY DEF TypeInv, CallType, Callers
  <1>2. CASE Ask(w)
    <2>1. call[w].question + 1 \in Nat
      BY <1>1 DEF CallRecord
    <2>2. [call[w] EXCEPT !.question = @ + 1, !.attempt = 1, !.answer = <<>>] \in CallRecord
      BY <1>1, <2>1 DEF CallRecord
    <2>3. [call[w] EXCEPT !.question = @ + 1, !.attempt = 1, !.answer = <<>>].stage
            = call[w].stage
      BY <1>1 DEF CallRecord
    <2> QED BY <1>2, <2>2, <2>3 DEF Ask
  <1>3. CASE Retry(w)
    <2>1. [call[w] EXCEPT !.attempt = @ + 1] \in CallRecord
            /\ [call[w] EXCEPT !.attempt = @ + 1].stage = call[w].stage
      BY <1>1 DEF CallRecord
    <2> QED BY <1>3, <2>1 DEF Retry
  <1> QED BY <1>2, <1>3

-----------------------------------------------------------------------------
LEMMA CallsTypeStep ==
  ASSUME TypeInv,
         \/ Start \/ Started \/ Stops \/ WaitForNotification \/ WaitTimesOut
         \/ \E w \in Workers : Ask(w) \/ Retry(w)
         \/ \E id \in Ids : Timeout(id)
  PROVE  TypeInv'
  <1> USE DEF TypeInv
  <1>0. client.nextId \in Nat \ {0} /\ budget.traffic \in Nat /\ CallsLeft \in Nat
    BY DEF ClientType, BudgetType, CallsLeft
  <1>1. CASE Start
    <2>1. 1 \in Ids
      BY LspClientAssumption DEF Ids, MaxRequests
    <2>2. client'.pending \in [Ids -> Callers \cup {Nobody}]
      BY <1>1, <2>1 DEF Start, ClientType, Callers
    <2>3. client'.nextId = 2 /\ client'.nextId \in Nat \ {0}
      BY <1>1 DEF Start, ClientType
    <2>4. ClientType'
      BY <1>1, <2>2, <2>3 DEF Start, ClientType
    <2>5. CallType' /\ ServerType'
      <3>1. ServerType'
        BY <1>1 DEF Start, ServerType
      <3>2. Main \in Callers /\ call[Main] \in CallRecord
        BY DEF CallType, Callers
      <3>3. [call[Main] EXCEPT !.stage = "waiting", !.question = 1] \in CallRecord
        BY <3>2 DEF CallRecord
      <3>4. call' = [call EXCEPT
               ![Main] = [call[Main] EXCEPT !.stage = "waiting", !.question = 1]]
        BY <1>1, <3>2 DEF Start, CallType
      <3> QED BY <3>1, <3>3, <3>4 DEF CallType
    <2>6. PipesType'
      BY <1>1, <2>1 DEF Start, ForServer, Requests, Questions, Callers, PipesType
    <2>7. PhaseType' /\ BudgetType' /\ CallsLeft = 2 /\ CallsLeft' = 1 /\ budget' = budget
      BY <1>1 DEF Start, PhaseType, BudgetType, CallsLeft
    <2>8. IdsBounded'
      BY <1>0, <2>3, <2>7, BoundKept
    <2> QED BY <2>4, <2>5, <2>6, <2>7, <2>8
  <1>2. CASE Started
    <2>1. /\ ClientType' /\ CallType' /\ ServerType' /\ PipesType' /\ PhaseType'
          /\ BudgetType' /\ CallsLeft' = CallsLeft
          /\ client' = client /\ budget' = budget
      BY <1>2 DEF Started, ClientType, CallType, ServerType, PipesType, PhaseType,
                  BudgetType, CallsLeft
    <2> QED BY <1>0, <2>1, BoundKept
  <1>3. CASE Stop
    <2>1. BudgetType' /\ budget'.traffic = budget.traffic
      BY <1>3, SpendType DEF Stop, BudgetType
    <2>2. CallsLeft = 1
      BY <1>3 DEF Stop, CallsLeft
    <2>3. CASE server.exitCode \/ client.fatal
      <3>1. Cleanup
        BY <1>3, <2>3 DEF Stop
      <3>2. CallsLeft' = 0
        BY <3>1 DEF Cleanup, CallsLeft
      <3>3. IdsBounded'
        BY <1>0, <2>1, <2>2, <3>1, <3>2, CleanupType, BoundKept
      <3> QED BY <2>1, <3>1, <3>3, CleanupType
    <2>4. CASE ~ (server.exitCode \/ client.fatal)
      <3>1. client.nextId \in Ids
        BY <2>2, NextIdInRange
      <3>2. client' = [client EXCEPT !.stopping = TRUE, !.nextId = client.nextId + 1,
                                     !.pending[client.nextId] = Main]
        BY <1>3, <2>4 DEF Stop
      <3>3. client'.pending \in [Ids -> Callers \cup {Nobody}]
        BY <3>1, <3>2, PendingType DEF ClientType, Callers
      <3>4. client'.nextId = client.nextId + 1 /\ client'.nextId \in Nat \ {0}
        BY <3>2 DEF ClientType
      <3>5. ClientType'
        BY <3>2, <3>3, <3>4 DEF ClientType
      <3>6. CallType'
        BY <1>3, <2>4 DEF Stop, CallType, CallRecord, Callers
      <3>7. PipesType'
        BY <1>3, <2>4, <3>1, PipesMove
           DEF Stop, ForServer, Requests, Questions, Callers, PipesType
      <3>8. phase' = "shutdown" /\ server' = server
        BY <1>3, <2>4 DEF Stop
      <3>9. PhaseType' /\ CallsLeft' = 0 /\ ServerType'
        BY <3>8 DEF CallsLeft, PhaseType, ServerType
      <3>10. IdsBounded'
        BY <1>0, <2>1, <2>2, <3>4, <3>9, BoundKept
      <3> QED BY <2>1, <3>5, <3>6, <3>7, <3>9, <3>10
    <2> QED BY <2>3, <2>4
  <1>4. CASE ShutdownAnswered
    <2>1. PipesType'
      BY <1>4, PipesMove DEF ShutdownAnswered, ForServer, PipesType
    <2>2. /\ ClientType' /\ CallType' /\ ServerType' /\ PhaseType'
          /\ BudgetType' /\ CallsLeft' = CallsLeft
          /\ client' = client /\ budget' = budget
      BY <1>4 DEF ShutdownAnswered, ClientType, CallType, ServerType, PhaseType,
                  BudgetType, CallsLeft
    <2> QED BY <1>0, <2>1, <2>2, BoundKept
  <1>5. CASE ShutdownFails \/ ExitEnds
    <2>1. Cleanup /\ budget' = budget /\ CallsLeft = 0 /\ CallsLeft' = 0
      BY <1>5 DEF ShutdownFails, ExitEnds, CallsLeft, Cleanup
    <2>2. IdsBounded'
      BY <1>0, <2>1, CleanupType, BoundKept
    <2> QED BY <2>1, <2>2, CleanupType DEF BudgetType
  <1>6. CASE WaitForNotification \/ WaitTimesOut
    <2>1. ClientType' /\ client'.nextId = client.nextId
      BY <1>6 DEF WaitForNotification, WaitTimesOut, ClientType
    <2>2. /\ CallType' /\ ServerType' /\ PipesType' /\ PhaseType'
          /\ BudgetType' /\ CallsLeft' = CallsLeft /\ budget' = budget
      BY <1>6 DEF WaitForNotification, WaitTimesOut, CallType, ServerType, PipesType,
                  PhaseType, BudgetType, CallsLeft
    <2> QED BY <1>0, <2>1, <2>2, BoundKept
  <1>7. ASSUME NEW w \in Workers, Ask(w) \/ Retry(w) PROVE TypeInv'
    <2>1. BudgetType' /\ budget.traffic > 0 /\ budget'.traffic = budget.traffic - 1
            /\ budget'.traffic \in Nat
      BY <1>7, SpendType DEF Ask, Retry
    <2>2. client.nextId \in Ids
      BY <2>1, NextIdInRange
    <2>3. call[w] \in CallRecord
      BY DEF CallType, Callers
    <2>4. PICK asked \in CallRecord : Request(w, asked)
      BY <1>7, WorkerAsks
    <2>5. /\ ClientType' /\ CallType' /\ toServer' \in Seq(ForServer)
          /\ client'.nextId <= client.nextId + 1
      BY <2>2, <2>4, RequestType DEF Callers
    <2>6. /\ ServerType' /\ PhaseType' /\ PipesType' /\ CallsLeft' = CallsLeft
          /\ client'.nextId \in Nat
      BY <1>7, <2>5 DEF Ask, Retry, ServerType, PhaseType, CallsLeft, PipesType, ClientType
    <2>7. IdsBounded'
      BY <1>0, <2>1, <2>5, <2>6, BoundKept
    <2> QED BY <2>1, <2>5, <2>6, <2>7
  <1>8. ASSUME NEW id \in Ids, Timeout(id) PROVE TypeInv'
    <2>1. ClientType' /\ client'.nextId = client.nextId
      BY <1>8, SettledType DEF Timeout
    <2>2. CallType'
      <3> DEFINE c == client.pending[id]
      <3>1. c \in Callers /\ call' = [call EXCEPT ![c] = [call[c] EXCEPT !.stage = "failed"]]
        BY <1>8 DEF Timeout, Rejected, Pending, CallType, ClientType
      <3> HIDE DEF c
      <3>2. [call[c] EXCEPT !.stage = "failed"] \in CallRecord
        BY <3>1 DEF CallType, CallRecord
      <3> QED BY <3>1, <3>2 DEF CallType
    <2>3. PipesType'
      BY <1>8, PipesMove DEF Timeout, ForServer, PipesType
    <2>4. /\ ServerType' /\ PhaseType' /\ BudgetType'
          /\ CallsLeft' = CallsLeft /\ budget' = budget
      BY <1>8 DEF Timeout, ServerType, PhaseType, BudgetType, CallsLeft
    <2> QED BY <1>0, <2>1, <2>2, <2>3, <2>4, BoundKept
  <1> QED BY <1>1, <1>2, <1>3, <1>4, <1>5, <1>6, <1>7, <1>8 DEF Stops

LEMMA MessagesTypeStep ==
  ASSUME TypeInv, Handler \/ Server
  PROVE  TypeInv'
  <1>0. /\ ClientType /\ CallType /\ ServerType /\ PipesType /\ PhaseType /\ BudgetType
        /\ client.nextId \in Nat \ {0} /\ budget.traffic \in Nat /\ CallsLeft \in Nat
    BY DEF TypeInv, ClientType, BudgetType, CallsLeft
  <1>a. budget' = budget => BudgetType' /\ budget'.traffic <= budget.traffic
    BY <1>0 DEF BudgetType
  <1>b. client' = client => ClientType' /\ client'.nextId = client.nextId
    BY <1>0 DEF ClientType
  <1>c. (call' = call => CallType') /\ (server' = server => ServerType')
    BY <1>0 DEF CallType, ServerType
  <1>d. /\ toServer' = toServer => toServer' \in Seq(ForServer)
        /\ (toServer' = Tail(toServer) /\ toServer # <<>>) => toServer' \in Seq(ForServer)
        /\ toServer' = <<>> => toServer' \in Seq(ForServer)
        /\ toClient' = toClient => toClient' \in Seq(ForClient)
        /\ (toClient' = Tail(toClient) /\ toClient # <<>>) => toClient' \in Seq(ForClient)
        /\ \A m \in ForClient :
              toClient' = Append(toClient, m) => toClient' \in Seq(ForClient)
    <2>1. <<>> \in Seq(ForServer)
      BY EmptySeq
    <2> HIDE DEF ForClient, ForServer
    <2> QED BY <1>0, <2>1, PipesMove DEF PipesType
  <1> SUFFICES /\ ClientType' /\ CallType' /\ ServerType'
               /\ toServer' \in Seq(ForServer) /\ toClient' \in Seq(ForClient)
               /\ phase' = phase /\ BudgetType'
               /\ client'.nextId = client.nextId
               /\ budget'.traffic <= budget.traffic
    <2>1. PhaseType' /\ CallsLeft' = CallsLeft
      BY <1>0 DEF PhaseType, CallsLeft
    <2>2. client'.nextId \in Nat /\ budget'.traffic \in Nat
      BY <1>0 DEF ClientType, BudgetType
    <2>3. IdsBounded'
      BY <1>0, <2>1, <2>2, BoundKept
    <2> QED BY <2>1, <2>3 DEF TypeInv, PipesType
  <1>1. CASE ResponseArrives
    <2> DEFINE id == Message.id
               c  == client.pending[id]
    <2>1. Message \in ForClient /\ Answering(Message)
      BY <1>0, <1>1, PipesMove DEF ResponseArrives, Readable, Message, Answering
    <2>2. id \in Ids /\ (Message.type = "result" => Message.question \in Questions)
      BY <2>1 DEF ForClient, Answering
    <2>3. /\ toServer' \in Seq(ForServer) /\ toClient' \in Seq(ForClient)
          /\ phase' = phase /\ server' = server /\ budget' = budget
      BY <1>1, <1>d DEF ResponseArrives, Readable
    <2>4. ClientType' /\ client'.nextId = client.nextId /\ CallType'
      <3>1. CASE c = Nobody
        BY <1>1, <1>b, <1>c, <3>1 DEF ResponseArrives
      <3>2. CASE c # Nobody
        <4>1. client' = Settled(id)
          BY <1>1, <3>2 DEF ResponseArrives
        <4>2. c \in Callers /\ call[c] \in CallRecord
          BY <1>0, <2>2, <3>2 DEF ClientType, CallType
        <4>3. PICK stage \in {"answered", "delay", "failed"},
                   answer \in {Message.question, call[c].answer} :
                /\ call' = [call EXCEPT ![c].stage = stage, ![c].answer = answer]
                /\ Message.type # "result" => answer = call[c].answer
          <5> DEFINE retried == /\ Message.type = "retryable" /\ c # Main
                                /\ call[c].attempt < Attempts
          <5>1. call' = [call EXCEPT
                  ![c].stage  = IF Message.type = "result" THEN "answered"
                                ELSE IF retried THEN "delay" ELSE "failed",
                  ![c].answer = IF Message.type = "result"
                                  THEN Message.question ELSE call[c].answer]
            BY <1>0, <1>1, <3>2, <4>2 DEF ResponseArrives, CallType
          <5> HIDE DEF retried
          <5> QED BY <5>1
        <4>4. answer \in Questions \cup {<<>>}
          BY <2>2, <4>2, <4>3 DEF CallRecord
        <4>5. CallType'
          BY <1>0, <4>2, <4>3, <4>4 DEF CallType, CallRecord
        <4> QED BY <1>0, <2>2, <4>1, <4>5, SettledType
      <3> QED BY <3>1, <3>2
    <2> QED BY <1>a, <1>c, <2>3, <2>4
  <1>2. CASE ServerRequestArrives \/ NotificationArrives
    <2>1. ClientType' /\ client'.nextId = client.nextId
      BY <1>0, <1>2 DEF ServerRequestArrives, NotificationArrives, ClientType
    <2>2. /\ toServer' = toServer /\ toClient' = Tail(toClient) /\ toClient # <<>>
          /\ phase' = phase /\ server' = server /\ budget' = budget /\ call' = call
      BY <1>2 DEF ServerRequestArrives, NotificationArrives, Readable
    <2> QED BY <1>a, <1>c, <1>d, <2>1, <2>2
  <1>3. CASE MalformedArrives
    <2>1. toClient' \in Seq(ForClient)
      BY <1>0, <1>3, SuffixElements DEF MalformedArrives, PipesType
    <2>2. Breaks /\ toServer' = toServer /\ phase' = phase /\ budget' = budget
      BY <1>3 DEF MalformedArrives
    <2>3. ClientType' /\ CallType' /\ ServerType' /\ client'.nextId = client.nextId
      BY <2>2, BreaksType
    <2> QED BY <1>a, <1>d, <2>1, <2>2, <2>3
  <1>4. CASE Close
    <2>1. ClientType' /\ CallType' /\ client'.nextId = client.nextId
      <3>1. CASE client.stopping \/ client.fatal
        BY <1>4, <1>b, <1>c, <3>1 DEF Close
      <3>2. CASE ~ (client.stopping \/ client.fatal)
        <4>1. client' = [FailedPending(client) EXCEPT !.fatal = TRUE]
          BY <1>4, <3>2 DEF Close
        <4>2. ClientType' /\ client'.nextId = client.nextId
          BY <1>0, <4>1, FailedPendingType DEF ClientType
        <4>3. CallType'
          BY <1>4, <3>2, AllRejectedType DEF Close, CallType
        <4> QED BY <4>2, <4>3
      <3> QED BY <3>1, <3>2
    <2>2. ServerType'
      BY <1>0, <1>4 DEF Close, ServerType
    <2>3. toServer' = toServer /\ toClient' = toClient /\ phase' = phase /\ budget' = budget
      BY <1>4 DEF Close
    <2> QED BY <1>a, <1>d, <2>1, <2>2, <2>3
  <1>5. CASE ServerReads
    <2>1. Head(toServer) \in ForServer /\ toServer # <<>>
      BY <1>0, <1>5, PipesMove DEF ServerReads
    <2>2. ServerType'
      BY <1>0, <1>5, <2>1 DEF ServerReads, ServerType, ForServer, Requests
    <2>3. toServer' \in Seq(ForServer)
      BY <1>5, <1>d DEF ServerReads
    <2>4. toClient' \in Seq(ForClient)
      <3> DEFINE message == Head(toServer)
      <3>1. CASE \E m \in server.held : message.type = "cancel" /\ m.id = message.id
        <4>1. [type |-> "retryable", id |-> message.id] \in ForClient
          BY <2>1, <3>1 DEF ForClient, ForServer, Requests
        <4> QED BY <1>5, <1>d, <3>1, <4>1 DEF ServerReads
      <3>2. CASE ~ \E m \in server.held : message.type = "cancel" /\ m.id = message.id
        BY <1>5, <1>d, <3>2 DEF ServerReads
      <3> QED BY <3>1, <3>2
    <2>5. client' = client /\ call' = call /\ phase' = phase /\ budget' = budget
      BY <1>5 DEF ServerReads
    <2> QED BY <1>a, <1>b, <1>c, <2>2, <2>3, <2>4, <2>5
  <1>6. CASE ServerAnswers
    <2>1. PICK m \in server.held, type \in {"result", "error", "retryable"} :
            /\ server' = [server EXCEPT !.held = @ \ {m}]
            /\ toClient' = Append(toClient,
                  [type |-> type, id |-> m.id, question |-> m.question])
      BY <1>6 DEF ServerAnswers
    <2>2. [type |-> type, id |-> m.id, question |-> m.question] \in ForClient
      BY <1>0 DEF ForClient, ServerType, Requests
    <2>3. toClient' \in Seq(ForClient)
      BY <1>d, <2>1, <2>2
    <2>4. ServerType'
      BY <1>0, <2>1 DEF ServerType
    <2>5. /\ client' = client /\ call' = call /\ phase' = phase /\ budget' = budget
          /\ toServer' = toServer
      BY <1>6 DEF ServerAnswers
    <2> QED BY <1>a, <1>b, <1>c, <1>d, <2>3, <2>4, <2>5
  <1>7. CASE ServerCalls
    <2>1. BudgetType' /\ budget'.traffic <= budget.traffic
      BY <1>0, <1>7, SpendType DEF ServerCalls
    <2>2. /\ toClient' \in Seq(ForClient)
      <3>1. \A r \in Registrations : /\ [type |-> "unregister", id |-> r] \in ForClient
                                     /\ [type |-> "register", id |-> r] \in ForClient
        BY DEF ForClient
      <3>2. [type |-> "notification"] \in ForClient
        BY DEF ForClient
      <3> QED BY <1>7, <1>d, <3>1, <3>2 DEF ServerCalls
    <2>3. ServerType'
      BY <1>0, <1>7 DEF ServerCalls, ServerType
    <2>4. client' = client /\ call' = call /\ phase' = phase /\ toServer' = toServer
      BY <1>7 DEF ServerCalls
    <2> QED BY <1>b, <1>c, <1>d, <2>1, <2>2, <2>3, <2>4
  <1>8. CASE ServerBabbles
    <2>1. BudgetType' /\ budget'.traffic <= budget.traffic
      BY <1>0, <1>8, SpendType DEF ServerBabbles
    <2>2. [type |-> "malformed"] \in ForClient
      BY DEF ForClient
    <2>3. /\ client' = client /\ call' = call /\ phase' = phase /\ toServer' = toServer
          /\ server' = server /\ toClient' = Append(toClient, [type |-> "malformed"])
      BY <1>8 DEF ServerBabbles
    <2> QED BY <1>b, <1>c, <1>d, <2>1, <2>2, <2>3
  <1>9. CASE ServerDies \/ ServerKilled
    <2>1. PICK code \in BOOLEAN : Ended(code)
      BY <1>9 DEF ServerDies, ServerKilled
    <2>2. BudgetType' /\ budget'.traffic <= budget.traffic
      <3>1. CASE ServerDies
        <4>1. Spend("faults")
          BY <3>1 DEF ServerDies
        <4> QED BY <1>0, <4>1, SpendType
      <3>2. CASE ServerKilled
        BY <1>a, <3>2 DEF ServerKilled
      <3> QED BY <1>9, <3>1, <3>2
    <2>3. ServerType'
      BY <1>0, <2>1 DEF Ended, ServerType
    <2>4. client' = client /\ call' = call /\ phase' = phase /\ toServer' = <<>>
          /\ toClient' = toClient
      BY <2>1 DEF Ended
    <2> QED BY <1>b, <1>c, <1>d, <2>2, <2>3, <2>4
  <1> QED BY <1>1, <1>2, <1>3, <1>4, <1>5, <1>6, <1>7, <1>8, <1>9 DEF Handler, Server

LEMMA TypeStutter == ASSUME TypeInv, UNCHANGED vars PROVE TypeInv'
  BY DEF TypeInv, vars, ClientType, CallType, ServerType, PipesType, PhaseType,
         BudgetType, IdsBounded, CallsLeft

\* A step of the system is one of a call or one of a message.
LEMMA TypeStep == ASSUME TypeInv, [Next]_vars PROVE TypeInv'
  BY CallsTypeStep, MessagesTypeStep, TypeStutter DEF Next
-----------------------------------------------------------------------------
(***************************************************************************)
(* Callers and the map: a request is made, one is settled, all are rejected *)
(***************************************************************************)
CallsKept == PendingWait /\ WaitersPend /\ PendOnce /\ Recorded

LEMMA RequestKeepsCalls ==
  ASSUME TypeInv, CallsKept, client.nextId \in Ids,
         NEW c \in Callers, call[c].stage # "waiting",
         client'.pending = [client.pending EXCEPT ![client.nextId] = c],
         client'.nextId = client.nextId + 1, client'.recorded = client.recorded,
         \A d \in Callers :
            call'[d].stage = IF d = c THEN "waiting" ELSE call[d].stage
  PROVE  CallsKept'
  <1> DEFINE new == client.nextId
  <1>1. /\ client.pending \in [Ids -> Callers \cup {Nobody}] /\ new \in Nat
        /\ client.recorded \in Nat /\ Nobody \notin Callers
    BY LspClientAssumption DEF TypeInv, ClientType, Callers
  <1>2. client.pending[new] = Nobody
    BY <1>1 DEF CallsKept, PendingWait
  <1>3. \A id \in Ids :
           client'.pending[id] = IF id = new THEN c ELSE client.pending[id]
    BY <1>1
  <1>4. \A id \in Ids : client.pending[id] # c
    BY <1>1 DEF CallsKept, PendingWait
  <1>5. PendingWait'
    <2> SUFFICES ASSUME NEW id \in Ids, client'.pending[id] # Nobody
                 PROVE  /\ call'[client'.pending[id]].stage = "waiting"
                        /\ id < client'.nextId
      BY DEF PendingWait, Ids, MaxRequests
    <2>1. CASE id = new
      BY <1>1, <1>3, <2>1
    <2>2. CASE id # new
      <3>1. /\ call[client.pending[id]].stage = "waiting" /\ id < new
            /\ client'.pending[id] = client.pending[id]
            /\ client.pending[id] \in Callers
        BY <1>1, <1>3, <2>2 DEF CallsKept, PendingWait
      <3>2. id \in Int
        BY DEF Ids
      <3> QED BY <1>1, <3>1, <3>2
    <2> QED BY <2>1, <2>2
  <1>6. WaitersPend'
    <2> SUFFICES ASSUME NEW d \in Callers, call'[d].stage = "waiting"
                 PROVE  \E id \in Ids : client'.pending[id] = d
      BY DEF WaitersPend, Callers, Ids, MaxRequests
    <2>1. CASE d = c
      BY <1>3, <2>1
    <2>2. CASE d # c
      <3>1. PICK id \in Ids : client.pending[id] = d
        BY <2>2 DEF CallsKept, WaitersPend
      <3>2. id # new
        BY <1>1, <1>2, <3>1
      <3> QED BY <1>3, <3>1, <3>2
    <2> QED BY <2>1, <2>2
  <1>7. PendOnce'
    BY <1>3, <1>4 DEF CallsKept, PendOnce, Ids, MaxRequests
  <1>8. Recorded'
    <2>1. Pending' = Pending \cup {new} /\ new \notin Pending
      BY <1>1, <1>2, <1>3 DEF Pending, Ids, MaxRequests
    <2>2. Cardinality(Pending') = Cardinality(Pending) + 1
      BY <2>1, PendingFinite, FS_AddElement
    <2> QED BY <1>1, <2>2, PendingFinite DEF CallsKept, Recorded
  <1> QED BY <1>5, <1>6, <1>7, <1>8 DEF CallsKept

LEMMA SettledKeepsCalls ==
  ASSUME TypeInv, CallsKept, NEW id \in Pending, client' = Settled(id),
         call'[client.pending[id]].stage # "waiting",
         \A d \in Callers : d # client.pending[id] => call'[d].stage = call[d].stage
  PROVE  CallsKept' /\ Pending' = Pending \ {id}
  <1> DEFINE c == client.pending[id]
  <1>1. /\ client.pending \in [Ids -> Callers \cup {Nobody}] /\ client.nextId \in Nat
        /\ client.recorded \in Nat /\ Nobody \notin Callers
        /\ id \in Ids /\ c \in Callers
    BY LspClientAssumption DEF TypeInv, ClientType, Callers, Pending
  <1>2. /\ \A other \in Ids :
             client'.pending[other] = IF other = id THEN Nobody ELSE client.pending[other]
        /\ client'.nextId = client.nextId /\ client'.recorded = client.recorded + 1
    BY <1>1 DEF Settled, TypeInv, ClientType
  <1>3. \A other \in Ids : other # id => client.pending[other] # c
    BY <1>1 DEF CallsKept, PendOnce
  <1>4. Pending' = Pending \ {id}
    BY <1>2 DEF Pending, Ids, MaxRequests
  <1>5. PendingWait'
    <2> SUFFICES ASSUME NEW other \in Ids, client'.pending[other] # Nobody
                 PROVE  /\ call'[client'.pending[other]].stage = "waiting"
                        /\ other < client'.nextId
      BY DEF PendingWait, Ids, MaxRequests
    <2>1. /\ other # id /\ client'.pending[other] = client.pending[other]
          /\ client.pending[other] \in Callers
      BY <1>1, <1>2
    <2> QED BY <1>2, <1>3, <2>1 DEF CallsKept, PendingWait
  <1>6. WaitersPend'
    <2> SUFFICES ASSUME NEW d \in Callers, call'[d].stage = "waiting"
                 PROVE  \E other \in Ids : client'.pending[other] = d
      BY DEF WaitersPend, Callers, Ids, MaxRequests
    <2>1. d # c /\ call[d].stage = "waiting"
      OBVIOUS
    <2>2. PICK other \in Ids : client.pending[other] = d
      BY <2>1 DEF CallsKept, WaitersPend
    <2> QED BY <1>2, <2>1, <2>2
  <1>7. PendOnce'
    BY <1>2 DEF CallsKept, PendOnce, Ids, MaxRequests
  <1>8. Recorded'
    <2>1. Cardinality(Pending') = Cardinality(Pending) - 1
      BY <1>4, PendingFinite, FS_RemoveElement
    <2> QED BY <1>1, <1>2, <2>1, PendingFinite DEF CallsKept, Recorded
  <1> QED BY <1>4, <1>5, <1>6, <1>7, <1>8 DEF CallsKept

LEMMA RejectedKeepsCalls ==
  ASSUME TypeInv, CallsKept, call' = AllRejected,
         client'.pending = [id \in Ids |-> Nobody],
         client'.recorded = client.recorded + Cardinality(Pending),
         client'.nextId = client.nextId
  PROVE  CallsKept' /\ Pending' = {} /\ \A c \in Callers : call'[c].stage # "waiting"
  <1>1. Pending' = {}
    BY DEF Pending, Ids, MaxRequests
  <1>2. \A c \in Callers : call'[c].stage # "waiting"
    <2> SUFFICES ASSUME NEW c \in Callers PROVE call'[c].stage # "waiting"
      OBVIOUS
    <2>1. CASE \E id \in Pending : client.pending[id] = c
      BY <2>1 DEF AllRejected, TypeInv, CallType, CallRecord
    <2>2. CASE ~ \E id \in Pending : client.pending[id] = c
      <3>1. call[c].stage # "waiting"
        BY <2>2, LspClientAssumption DEF CallsKept, WaitersPend, Pending, Callers
      <3> QED BY <2>2, <3>1 DEF AllRejected
    <2> QED BY <2>1, <2>2
  <1>3. PendingWait' /\ PendOnce'
    BY DEF PendingWait, PendOnce, Ids, MaxRequests
  <1>4. WaitersPend'
    BY <1>2 DEF WaitersPend, Callers
  <1>5. Recorded'
    BY <1>1, PendingFinite, FS_EmptySet DEF CallsKept, Recorded, TypeInv, ClientType
  <1> QED BY <1>1, <1>2, <1>3, <1>4, <1>5 DEF CallsKept

\* What is not about the map leaves it alone.
LEMMA QuietKeepsCalls ==
  ASSUME CallsKept, UNCHANGED call,
         client'.pending = client.pending, client'.recorded = client.recorded,
         client'.nextId = client.nextId
  PROVE  CallsKept' /\ Pending' = Pending
  BY DEF CallsKept, PendingWait, WaitersPend, PendOnce, Recorded, Pending, Callers, Ids,
         MaxRequests

LEMMA CallsInit == Init => CallsInv
  <1> SUFFICES ASSUME Init PROVE CallsInv
    OBVIOUS
  <1>1. Pending = {}
    BY DEF Init, NewClient, Pending
  <1>2. Recorded
    BY <1>1, FS_EmptySet DEF Init, NewClient, Recorded
  <1>3. NothingYet
    BY DEF Init, NewCall, NewServer, NothingYet
  <1>4. PendingWait /\ WaitersPend /\ PendOnce /\ MainWaits /\ Disconnected
    BY DEF Init, NewClient, NewCall, PendingWait, WaitersPend, PendOnce, MainWaits,
           Disconnected, Callers
  <1> QED BY <1>1, <1>2, <1>3, <1>4 DEF CallsInv, Broken

\* Before start has been called, nothing else can happen.
LEMMA OnlyStart ==
  ASSUME TypeInv, NothingYet, phase = "new", Next
  PROVE  Start
  <1>1. /\ client = NewClient /\ toServer = <<>> /\ toClient = <<>> /\ ~ server.alive
        /\ \A c \in Callers : call[c].stage = "idle"
    BY DEF NothingYet
  <1>2. ~ Readable /\ Pending = {} /\ ~ client.connected /\ client.waiter = "none"
    BY <1>1 DEF Readable, NewClient, Pending
  <1>3. ~ Handler
    BY <1>2 DEF Handler, ResponseArrives, ServerRequestArrives, NotificationArrives,
                MalformedArrives, Close
  <1>4. ~ Server
    BY <1>1 DEF Server, ServerReads, ServerAnswers, ServerCalls, ServerBabbles, ServerDies,
                ServerKilled
  <1>5. ~ \E id \in Ids : Timeout(id)
    BY <1>2 DEF Timeout
  <1>6. ~ \E w \in Workers : Ask(w) \/ Retry(w)
    BY <1>1 DEF Ask, Retry, Callers
  <1>7. ~ Started /\ ~ Stops /\ ~ WaitForNotification /\ ~ WaitTimesOut
    BY <1>2 DEF Started, Stops, Stop, ShutdownAnswered, ShutdownFails, ExitEnds,
                WaitForNotification, WaitTimesOut
  <1> QED BY <1>3, <1>4, <1>5, <1>6, <1>7 DEF Next

LEMMA CleanupKeepsCalls ==
  ASSUME TypeInv, CallsInv, Cleanup
  PROVE  CallsInv' /\ \A c \in Callers : call'[c].stage # "waiting"
  <1>1. /\ client'.pending = [id \in Ids |-> Nobody]
        /\ client'.recorded = client.recorded + Cardinality(Pending)
        /\ client'.nextId = client.nextId /\ ~ client'.connected
    BY DEF Cleanup, FailedPending, TypeInv, ClientType
  <1>2. call' = AllRejected /\ phase' = "stopped"
    BY DEF Cleanup
  <1>3. CallsKept
    BY DEF CallsInv, CallsKept
  <1>4. CallsKept' /\ Pending' = {} /\ \A c \in Callers : call'[c].stage # "waiting"
    BY <1>1, <1>2, <1>3, RejectedKeepsCalls
  <1>5. NothingYet' /\ MainWaits' /\ Broken' /\ Disconnected'
    BY <1>1, <1>2, <1>4 DEF NothingYet, MainWaits, Broken, Disconnected, Callers
  <1> QED BY <1>4, <1>5 DEF CallsInv, CallsKept

\* The connection is broken: by a malformed message, or the end of the process.
LEMMA BreakKeepsCalls ==
  ASSUME TypeInv, CallsInv, phase # "new", phase # "stopped", UNCHANGED phase,
         client' = [FailedPending(client) EXCEPT !.fatal = TRUE], call' = AllRejected
  PROVE  CallsInv'
  <1>1. /\ client'.pending = [id \in Ids |-> Nobody]
        /\ client'.recorded = client.recorded + Cardinality(Pending)
        /\ client'.nextId = client.nextId
    BY DEF FailedPending, TypeInv, ClientType
  <1>2. CallsKept
    BY DEF CallsInv, CallsKept
  <1>3. CallsKept' /\ Pending' = {} /\ \A c \in Callers : call'[c].stage # "waiting"
    BY <1>1, <1>2, RejectedKeepsCalls
  <1>4. NothingYet' /\ MainWaits' /\ Broken' /\ Disconnected'
    BY <1>3 DEF NothingYet, MainWaits, Broken, Disconnected, Callers
  <1> QED BY <1>3, <1>4 DEF CallsInv, CallsKept

LEMMA QuietKeepsInv ==
  ASSUME CallsInv, phase # "new", UNCHANGED <<call, phase>>,
         client'.pending = client.pending, client'.recorded = client.recorded,
         client'.nextId = client.nextId, client'.fatal = client.fatal,
         client'.connected = client.connected
  PROVE  CallsInv'
  <1>1. CallsKept' /\ Pending' = Pending
    BY QuietKeepsCalls DEF CallsInv, CallsKept
  <1>2. NothingYet' /\ MainWaits' /\ Broken' /\ Disconnected'
    BY <1>1 DEF CallsInv, NothingYet, MainWaits, Broken, Disconnected
  <1> QED BY <1>1, <1>2 DEF CallsInv, CallsKept

\* A settled request, by a timer or an answer.
LEMMA SettledKeepsInv ==
  ASSUME TypeInv, CallsInv, phase # "new", UNCHANGED phase,
         NEW id \in Pending, client' = Settled(id),
         call'[client.pending[id]].stage # "waiting",
         \A d \in Callers : d # client.pending[id] => call'[d].stage = call[d].stage
  PROVE  CallsInv'
  <1>1. CallsKept' /\ Pending' = Pending \ {id}
    BY SettledKeepsCalls DEF CallsInv, CallsKept
  <1>2. client'.fatal = client.fatal /\ client'.connected = client.connected
    BY DEF Settled, TypeInv, ClientType
  <1>3. NothingYet' /\ MainWaits' /\ Broken' /\ Disconnected'
    BY <1>1, <1>2 DEF CallsInv, NothingYet, MainWaits, Broken, Disconnected, Callers
  <1> QED BY <1>1, <1>3 DEF CallsInv, CallsKept

LEMMA WorkerKeepsInv ==
  ASSUME TypeInv, CallsInv, NEW w \in Workers, Ask(w) \/ Retry(w), phase # "new"
  PROVE  CallsInv'
  <1>1. budget.traffic > 0 /\ UNCHANGED phase
    BY DEF Ask, Retry, Spend
  <1>2. call[w].stage # "waiting" /\ w \in Callers /\ w # Main /\ call[w] \in CallRecord
    BY LspClientAssumption DEF Ask, Retry, Callers, TypeInv, CallType
  <1>3. PICK asked \in CallRecord : Request(w, asked) /\ asked.stage = call[w].stage
    BY WorkerAsks
  <1>4. CASE client.fatal \/ ~ client.connected
    <2>1. client' = client /\ call' = [call EXCEPT ![w] = [asked EXCEPT !.stage = "failed"]]
      BY <1>3, <1>4 DEF Request, RequestAs
    <2>2. /\ call'[w].stage = "failed"
          /\ \A d \in Callers : d # w => call'[d] = call[d]
      BY <1>2, <1>3, <2>1 DEF TypeInv, CallType, CallRecord
    <2>3. Pending' = Pending
      BY <2>1 DEF Pending, Ids, MaxRequests
    <2>4. PendingWait'
      BY <1>2, <2>1, <2>2, LspClientAssumption
         DEF CallsInv, PendingWait, Ids, MaxRequests, TypeInv, ClientType, Callers
    <2>5. WaitersPend' /\ PendOnce' /\ Recorded'
      BY <2>1, <2>2, <2>3
         DEF CallsInv, WaitersPend, PendOnce, Recorded, Ids, MaxRequests, Callers
    <2>6. NothingYet' /\ MainWaits' /\ Broken' /\ Disconnected'
      BY <1>1, <1>2, <2>1, <2>2, <2>3
         DEF CallsInv, NothingYet, MainWaits, Broken, Disconnected, Callers
    <2> QED BY <2>4, <2>5, <2>6 DEF CallsInv
  <1>5. CASE ~ (client.fatal \/ ~ client.connected)
    <2>1. /\ client' = [client EXCEPT !.nextId = @ + 1, !.pending[client.nextId] = w]
          /\ call' = [call EXCEPT ![w] = [asked EXCEPT !.stage = "waiting"]]
      BY <1>3, <1>5 DEF Request, RequestAs
    <2>2. /\ client'.pending = [client.pending EXCEPT ![client.nextId] = w]
          /\ client'.recorded = client.recorded
          /\ client'.fatal = client.fatal /\ client'.connected = client.connected
      BY <2>1 DEF TypeInv, ClientType
    <2>3. client'.nextId = client.nextId + 1
      BY <2>1 DEF TypeInv, ClientType
    <2>4. \A d \in Callers : call'[d].stage = IF d = w THEN "waiting" ELSE call[d].stage
      BY <1>2, <1>3, <2>1 DEF TypeInv, CallType, CallRecord
    <2>5. CallsKept'
      BY <1>1, <1>2, <2>2, <2>3, <2>4, NextIdInRange, RequestKeepsCalls
         DEF CallsInv, CallsKept
    <2>6. NothingYet' /\ MainWaits' /\ Broken' /\ Disconnected'
      BY <1>1, <1>2, <1>5, <2>2, <2>4
         DEF CallsInv, NothingYet, MainWaits, Broken, Disconnected, Callers
    <2> QED BY <2>5, <2>6 DEF CallsInv, CallsKept
  <1> QED BY <1>4, <1>5

\* The owner's request: initialize or shutdown.
LEMMA OwnerKeepsCalls ==
  ASSUME TypeInv, CallsInv, client.nextId \in Ids, call[Main].stage # "waiting",
         client'.pending = [client.pending EXCEPT ![client.nextId] = Main],
         client'.nextId = client.nextId + 1, client'.recorded = client.recorded,
         \A d \in Callers :
            call'[d].stage = IF d = Main THEN "waiting" ELSE call[d].stage,
         phase' \in {"starting", "shutdown"}, ~ client'.fatal
  PROVE  CallsInv'
  <1>1. CallsKept'
    BY RequestKeepsCalls DEF CallsInv, CallsKept, Callers
  <1>2. NothingYet' /\ MainWaits' /\ Broken' /\ Disconnected'
    BY DEF NothingYet, MainWaits, Broken, Disconnected
  <1> QED BY <1>1, <1>2 DEF CallsInv, CallsKept

LEMMA CallsStep ==
  ASSUME TypeInv, CallsInv, [Next]_vars
  PROVE  CallsInv'
  <1>0. Main \in Callers /\ Nobody \notin Callers /\ CallType /\ ClientType
    BY LspClientAssumption DEF Callers, TypeInv
  <1>1. CASE Start
    <2>1. client = NewClient /\ \A c \in Callers : call[c].stage = "idle"
      BY <1>1 DEF Start, CallsInv, NothingYet
    <2>2. client.nextId = 1 /\ client.pending = [id \in Ids |-> Nobody]
            /\ client.recorded = 0 /\ ~ client.fatal
      BY <2>1 DEF NewClient
    <2>3. 1 \in Ids
      BY LspClientAssumption DEF Ids, MaxRequests
    <2>4. /\ client'.pending = [client.pending EXCEPT ![client.nextId] = Main]
          /\ client'.nextId = client.nextId + 1
          /\ client'.recorded = client.recorded /\ ~ client'.fatal
      BY <1>1, <2>1, <2>2 DEF Start, NewClient
    <2>5. \A d \in Callers :
             call'[d].stage = IF d = Main THEN "waiting" ELSE call[d].stage
      BY <1>0, <1>1 DEF Start, CallType, CallRecord
    <2>6. phase' = "starting"
      BY <1>1 DEF Start
    <2> QED BY <1>0, <2>1, <2>2, <2>3, <2>4, <2>5, <2>6, OwnerKeepsCalls
  <1>2. CASE ~ Start /\ Next
    <2>0. phase # "new"
      BY <1>2, OnlyStart DEF CallsInv
    <2>1. CASE Started
      <3>1. CallsKept' /\ Pending' = Pending
        BY <2>1, QuietKeepsCalls DEF Started, CallsInv, CallsKept
      <3>2. NothingYet' /\ MainWaits' /\ Broken' /\ Disconnected'
        BY <2>1, <3>1 DEF Started, CallsInv, NothingYet, MainWaits, Broken, Disconnected
      <3> QED BY <3>1, <3>2 DEF CallsInv, CallsKept
    <2>2. CASE Stop
      <3>1. CASE server.exitCode \/ client.fatal
        BY <2>2, <3>1, CleanupKeepsCalls DEF Stop
      <3>2. CASE ~ (server.exitCode \/ client.fatal)
        <4>1. CallsLeft > 0
          BY <2>2 DEF Stop, CallsLeft
        <4>2. client.nextId \in Ids
          BY <4>1, NextIdInRange
        <4>3. call[Main].stage # "waiting"
          BY <2>2 DEF Stop, CallsInv, MainWaits
        <4>4. client' = [client EXCEPT !.stopping = TRUE, !.nextId = client.nextId + 1,
                                       !.pending[client.nextId] = Main]
          BY <2>2, <3>2 DEF Stop
        <4>5. /\ client'.pending = [client.pending EXCEPT ![client.nextId] = Main]
              /\ client'.recorded = client.recorded /\ ~ client'.fatal
          BY <1>0, <3>2, <4>4 DEF ClientType
        <4>6. client'.nextId = client.nextId + 1
          BY <1>0, <4>4 DEF ClientType
        <4>7. \A d \in Callers :
                 call'[d].stage = IF d = Main THEN "waiting" ELSE call[d].stage
          BY <1>0, <2>2, <3>2 DEF Stop, CallType, CallRecord
        <4>8. phase' = "shutdown"
          BY <2>2, <3>2 DEF Stop
        <4> QED BY <4>2, <4>3, <4>5, <4>6, <4>7, <4>8, OwnerKeepsCalls
      <3> QED BY <3>1, <3>2
    <2>3. CASE ShutdownAnswered
      <3>1. CallsKept' /\ Pending' = Pending
        BY <2>3, QuietKeepsCalls DEF ShutdownAnswered, CallsInv, CallsKept
      <3>2. NothingYet' /\ MainWaits' /\ Broken' /\ Disconnected'
        BY <2>3, <3>1
           DEF ShutdownAnswered, CallsInv, NothingYet, MainWaits, Broken, Disconnected
      <3> QED BY <3>1, <3>2 DEF CallsInv, CallsKept
    <2>4. CASE ShutdownFails \/ ExitEnds
      BY <2>4, CleanupKeepsCalls DEF ShutdownFails, ExitEnds
    <2>5. CASE WaitForNotification \/ WaitTimesOut \/ ServerRequestArrives
                 \/ NotificationArrives
      <3>1. /\ client'.pending = client.pending /\ client'.recorded = client.recorded
            /\ client'.nextId = client.nextId /\ client'.fatal = client.fatal
            /\ client'.connected = client.connected
        BY <1>0, <2>5 DEF WaitForNotification, WaitTimesOut, ServerRequestArrives,
                          NotificationArrives, ClientType
      <3>2. UNCHANGED <<call, phase>>
        BY <2>5 DEF WaitForNotification, WaitTimesOut, ServerRequestArrives,
                    NotificationArrives
      <3> QED BY <2>0, <3>1, <3>2, QuietKeepsInv
    <2>6. ASSUME NEW w \in Workers, Ask(w) \/ Retry(w) PROVE CallsInv'
      BY <2>0, <2>6, WorkerKeepsInv
    <2>7. ASSUME NEW id \in Ids, Timeout(id) PROVE CallsInv'
      <3> DEFINE c == client.pending[id]
      <3>1. id \in Pending /\ client' = Settled(id) /\ call' = Rejected(c)
              /\ UNCHANGED phase
        BY <2>7 DEF Timeout
      <3>2. c \in Callers
        BY <1>0, <3>1 DEF Pending, ClientType
      <3>3. call'[c].stage = "failed" /\ \A d \in Callers : d # c => call'[d] = call[d]
        BY <1>0, <3>1, <3>2 DEF Rejected, CallType, CallRecord
      <3> QED BY <2>0, <3>1, <3>3, SettledKeepsInv
    <2>8. CASE ResponseArrives
      <3> DEFINE id == Message.id
                 c  == client.pending[id]
      <3>1. Message \in ForClient /\ Answering(Message)
        BY <2>8, PipesMove DEF ResponseArrives, Readable, Message, Answering, TypeInv
      <3>2. id \in Ids /\ UNCHANGED phase
        BY <2>8, <3>1 DEF ForClient, Answering, ResponseArrives
      <3>3. CASE c = Nobody
        BY <2>0, <2>8, <3>2, <3>3, QuietKeepsInv DEF ResponseArrives
      <3>4. CASE c # Nobody
        <4>1. id \in Pending /\ c \in Callers
          BY <1>0, <3>2, <3>4 DEF Pending, ClientType
        <4>2. client' = Settled(id)
          BY <2>8, <3>4 DEF ResponseArrives
        <4>3. call'[c].stage # "waiting" /\ \A d \in Callers : d # c => call'[d] = call[d]
          BY <1>0, <2>8, <3>4, <4>1 DEF ResponseArrives, CallType, CallRecord
        <4> QED BY <2>0, <3>2, <4>1, <4>2, <4>3, SettledKeepsInv
      <3> QED BY <3>3, <3>4
    <2>9. CASE MalformedArrives
      <3>1. Breaks /\ UNCHANGED phase /\ phase # "stopped"
        BY <2>9 DEF MalformedArrives, Readable
      <3>2. CASE client.fatal
        BY <2>0, <3>1, <3>2, QuietKeepsInv DEF Breaks
      <3>3. CASE ~ client.fatal
        BY <2>0, <3>1, <3>3, BreakKeepsCalls DEF Breaks
      <3> QED BY <3>2, <3>3
    <2>10. CASE Close
      <3>1. UNCHANGED phase /\ phase # "stopped"
        BY <2>10 DEF Close, CallsInv, Disconnected
      <3>2. CASE client.stopping \/ client.fatal
        BY <2>0, <2>10, <3>1, <3>2, QuietKeepsInv DEF Close
      <3>3. CASE ~ (client.stopping \/ client.fatal)
        BY <2>0, <2>10, <3>1, <3>3, BreakKeepsCalls DEF Close
      <3> QED BY <3>2, <3>3
    <2>11. CASE Server
      <3>1. UNCHANGED <<client, call, phase>>
        BY <2>11 DEF Server, ServerReads, ServerAnswers, ServerCalls, ServerBabbles,
                     ServerDies, ServerKilled, Ended
      <3> QED BY <2>0, <3>1, QuietKeepsInv
    <2> QED BY <1>2, <2>1, <2>2, <2>3, <2>4, <2>5, <2>6, <2>7, <2>8, <2>9, <2>10, <2>11
            DEF Next, Stops, Handler
  <1>3. CASE UNCHANGED vars
    <2>1. CallsKept' /\ Pending' = Pending
      BY <1>3, QuietKeepsCalls DEF vars, CallsInv, CallsKept
    <2>2. NothingYet' /\ MainWaits' /\ Broken' /\ Disconnected'
      BY <1>3, <2>1 DEF vars, CallsInv, NothingYet, MainWaits, Broken, Disconnected,
                        Callers
    <2> QED BY <2>1, <2>2 DEF CallsInv, CallsKept
  <1> QED BY <1>1, <1>2, <1>3

\* What is accounted for, from the entries of the map.
LEMMA AccountedFor ==
  ASSUME TypeInv, CallsInv
  PROVE  RequestsAccounted /\ NobodyWaitsInVain
  <1>0. /\ client.pending \in [Ids -> Callers \cup {Nobody}] /\ Nobody \notin Callers
    BY LspClientAssumption DEF TypeInv, ClientType, Callers
  <1>1. ASSUME NEW c \in Callers
        PROVE  Cardinality({id \in Pending : client.pending[id] = c})
                 = IF call[c].stage = "waiting" THEN 1 ELSE 0
    <2> DEFINE own == {id \in Pending : client.pending[id] = c}
    <2>1. \A i, j \in own : i = j
      BY <1>0 DEF CallsInv, PendOnce, Pending
    <2>2. own = {} <=> call[c].stage # "waiting"
      BY <1>0 DEF CallsInv, PendingWait, WaitersPend, Pending
    <2>3. Cardinality(own) = IF own = {} THEN 0 ELSE 1
      BY <2>1, AtMostOne
    <2> QED BY <2>2, <2>3
  <1>2. RequestsAccounted
    BY <1>1 DEF RequestsAccounted, CallsInv, Recorded
  <1>3. NobodyWaitsInVain
    BY <1>0 DEF NobodyWaitsInVain, CallsInv, Broken, WaitersPend, Pending
  <1> QED BY <1>2, <1>3

-----------------------------------------------------------------------------
(***************************************************************************)
(* Messages: none is new, a request is made, read, or answered              *)
(***************************************************************************)
MessagesKept == Fresh /\ InOnePlace /\ QuestionsKept

\* A caller that is still waited for has asked nothing else.
QuestionsStay ==
    \A id \in Ids : client'.pending[id] # Nobody =>
        /\ client'.pending[id] = client.pending[id]
        /\ call'[client.pending[id]].question = call[client.pending[id]].question

LEMMA MessageTypes ==
  ASSUME TypeInv
  PROVE  /\ client.nextId \in Nat
         /\ DOMAIN toServer \subseteq Nat \ {0} /\ DOMAIN toClient \subseteq Nat \ {0}
         /\ \A i \in DOMAIN toServer :
               toServer[i].type # "exit" => toServer[i].id \in Ids
         /\ \A m \in server.held : m.id \in Ids /\ m.type = "request"
         /\ \A i \in DOMAIN toClient : Answering(toClient[i]) => toClient[i].id \in Ids
         /\ Ids \subseteq Nat
  <1>1. toServer \in Seq(ForServer) /\ toClient \in Seq(ForClient)
    BY DEF TypeInv, PipesType
  <1>2. /\ DOMAIN toServer = 1..Len(toServer) /\ Len(toServer) \in Nat
        /\ \A i \in 1..Len(toServer) : toServer[i] \in ForServer
    BY <1>1, LenProperties
  <1>3. /\ DOMAIN toClient = 1..Len(toClient) /\ Len(toClient) \in Nat
        /\ \A i \in 1..Len(toClient) : toClient[i] \in ForClient
    BY <1>1, LenProperties
  <1>4. \A message \in ForServer : message.type # "exit" => message.id \in Ids
    BY DEF ForServer, Requests
  <1>5. \A message \in ForClient : Answering(message) => message.id \in Ids
    BY DEF ForClient, Answering
  <1>6. \A m \in server.held : m.id \in Ids /\ m.type = "request"
    BY DEF TypeInv, ServerType, Requests
  <1> QED BY <1>2, <1>3, <1>4, <1>5, <1>6 DEF TypeInv, ClientType, Ids

LEMMA FewerMessages ==
  ASSUME TypeInv, MessagesKept, QuestionsStay,
         client'.nextId \in Nat, client.nextId <= client'.nextId,
         server'.held \subseteq server.held, NEW n \in Nat,
         \A i \in DOMAIN toServer' : toServer'[i].type = "request" =>
            i \in Nat /\ i + n \in DOMAIN toServer /\ toServer'[i] = toServer[i + n],
         \A i \in DOMAIN toClient' : Answering(toClient'[i]) =>
            \E k \in DOMAIN toClient : toClient'[i] = toClient[k]
  PROVE  MessagesKept'
  <1>1. Fresh'
    <2>1. \A i \in DOMAIN toServer' :
             toServer'[i].type = "request" => toServer'[i].id < client'.nextId
      <3> SUFFICES ASSUME NEW i \in DOMAIN toServer', toServer'[i].type = "request"
                   PROVE  toServer'[i].id < client'.nextId
        OBVIOUS
      <3>1. i + n \in DOMAIN toServer /\ toServer'[i] = toServer[i + n]
        OBVIOUS
      <3>2. toServer[i + n].id < client.nextId
        BY <3>1 DEF MessagesKept, Fresh
      <3>3. toServer[i + n].id \in Ids
        BY <3>1, MessageTypes
      <3> QED BY <3>1, <3>2, <3>3, MessageTypes
    <2>2. \A m \in server'.held : m.id < client'.nextId
      <3> SUFFICES ASSUME NEW m \in server'.held PROVE m.id < client'.nextId
        OBVIOUS
      <3>1. m.id < client.nextId /\ m.id \in Ids
        BY MessageTypes DEF MessagesKept, Fresh
      <3> QED BY <3>1, MessageTypes
    <2>3. \A i \in DOMAIN toClient' :
             Answering(toClient'[i]) => toClient'[i].id < client'.nextId
      <3> SUFFICES ASSUME NEW i \in DOMAIN toClient', Answering(toClient'[i])
                   PROVE  toClient'[i].id < client'.nextId
        OBVIOUS
      <3>1. PICK k \in DOMAIN toClient : toClient'[i] = toClient[k]
        OBVIOUS
      <3>2. toClient[k].id < client.nextId /\ toClient[k].id \in Ids
        BY <3>1, MessageTypes DEF MessagesKept, Fresh
      <3> QED BY <3>1, <3>2, MessageTypes
    <2> QED BY <2>1, <2>2, <2>3 DEF Fresh, Answering
  <1>2. InOnePlace'
    <2>1. ASSUME NEW i \in DOMAIN toServer', NEW j \in DOMAIN toServer',
                 toServer'[i].type = "request", toServer'[j].type = "request",
                 toServer'[i].id = toServer'[j].id
          PROVE  i = j
      <3>1. /\ i + n \in DOMAIN toServer /\ toServer'[i] = toServer[i + n] /\ i \in Nat
            /\ j + n \in DOMAIN toServer /\ toServer'[j] = toServer[j + n] /\ j \in Nat
        BY <2>1
      <3>2. i + n = j + n
        BY <2>1, <3>1 DEF MessagesKept, InOnePlace
      <3> QED BY <3>1, <3>2
    <2>2. \A a, b \in server'.held : a.id = b.id => a = b
      BY DEF MessagesKept, InOnePlace
    <2>3. ASSUME NEW i \in DOMAIN toServer', NEW m \in server'.held,
                 toServer'[i].type = "request"
          PROVE  toServer'[i].id # m.id
      BY <2>3 DEF MessagesKept, InOnePlace
    <2>4. ASSUME NEW i \in DOMAIN toClient', Answering(toClient'[i])
          PROVE  /\ \A m \in server'.held : m.id # toClient'[i].id
                 /\ \A j \in DOMAIN toServer' :
                      toServer'[j].type = "request" => toServer'[j].id # toClient'[i].id
      <3>1. PICK k \in DOMAIN toClient : toClient'[i] = toClient[k]
        BY <2>4
      <3> QED BY <2>4, <3>1 DEF MessagesKept, InOnePlace
    <2> QED BY <2>1, <2>2, <2>3, <2>4 DEF InOnePlace, Answering
  <1>3. QuestionsKept'
    <2>1. ASSUME NEW id \in Ids, NEW question, IsAsked(id, question)
          PROVE  IsAsked(id, question)'
      BY <2>1 DEF IsAsked, Asked, QuestionsStay
    <2>2. ASSUME NEW i \in DOMAIN toServer', toServer'[i].type = "request"
          PROVE  IsAsked(toServer[i].id, toServer[i].question)'
      <3>1. i + n \in DOMAIN toServer /\ toServer'[i] = toServer[i + n]
        BY <2>2
      <3>2. /\ toServer[i + n].id \in Ids
            /\ IsAsked(toServer[i + n].id, toServer[i + n].question)
        BY <2>2, <3>1, MessageTypes DEF MessagesKept, QuestionsKept
      <3> QED BY <3>1, <3>2 DEF IsAsked, Asked, QuestionsStay
    <2>3. ASSUME NEW m \in server'.held
          PROVE  IsAsked(m.id, m.question)'
      <3>1. m.id \in Ids /\ IsAsked(m.id, m.question)
        BY MessageTypes DEF MessagesKept, QuestionsKept
      <3> QED BY <3>1 DEF IsAsked, Asked, QuestionsStay
    <2>4. ASSUME NEW i \in DOMAIN toClient', toClient'[i].type = "result"
          PROVE  IsAsked(toClient[i].id, toClient[i].question)'
      <3>1. PICK k \in DOMAIN toClient : toClient'[i] = toClient[k]
        BY <2>4 DEF Answering
      <3>2. toClient[k].id \in Ids /\ IsAsked(toClient[k].id, toClient[k].question)
        BY <2>4, <3>1, MessageTypes DEF MessagesKept, QuestionsKept, Answering
      <3> QED BY <3>1, <3>2 DEF IsAsked, Asked, QuestionsStay
    <2> QED BY <2>2, <2>3, <2>4 DEF QuestionsKept
  <1> QED BY <1>1, <1>2, <1>3 DEF MessagesKept

\* A request under the next identifier goes into a pipe.
LEMMA RequestSent ==
  ASSUME TypeInv, CallsInv, MessagesKept, client.nextId \in Ids,
         NEW c \in Callers, call[c].stage # "waiting",
         client'.pending = [client.pending EXCEPT ![client.nextId] = c],
         client'.nextId = client.nextId + 1,
         \A d \in Callers : d # c => call'[d].question = call[d].question,
         UNCHANGED toClient, server'.held = server.held,
         toServer' \in {toServer,
            Append(toServer, [type |-> "request", id |-> client.nextId,
                              question |-> <<c, call'[c].question>>])},
         call'[c].question \in Nat
  PROVE  MessagesKept'
  <1> DEFINE new == client.nextId
             request == [type |-> "request", id |-> new,
                         question |-> <<c, call'[c].question>>]
  <1>0. /\ request.type = "request" /\ request.id = new
        /\ request.question = <<c, call'[c].question>>
    OBVIOUS
  <1> HIDE DEF request
  <1>1. request \in ForServer
    BY DEF ForServer, Requests, Questions, request
  <1>2. /\ toServer \in Seq(ForServer) /\ new \in Nat
        /\ client.pending \in [Ids -> Callers \cup {Nobody}] /\ Nobody \notin Callers
    BY LspClientAssumption DEF TypeInv, PipesType, ClientType, Callers
  <1>3. \A i \in DOMAIN toServer' :
           \/ i \in DOMAIN toServer /\ toServer'[i] = toServer[i]
           \/ i = Len(toServer) + 1 /\ toServer'[i] = request
    BY <1>1, <1>2, AppendElements DEF request
  <1>4. \A id \in Ids : client'.pending[id] # Nobody =>
           \/ id = new /\ client'.pending[id] = c
           \/ /\ id # new /\ client'.pending[id] = client.pending[id]
              /\ client.pending[id] # c /\ client.pending[id] \in Callers
    BY <1>2 DEF CallsInv, PendingWait
  <1>5. ASSUME NEW id \in Ids, id < new, NEW question, IsAsked(id, question)
        PROVE  IsAsked(id, question)'
    <2>1. id # new
      BY <1>2, <1>5 DEF Ids
    <2> QED BY <1>4, <1>5, <2>1 DEF IsAsked, Asked
  <1>6. /\ \A i \in DOMAIN toServer : toServer[i].type = "request" =>
              toServer[i].id < new /\ toServer[i].id \in Ids
        /\ \A m \in server.held : m.id < new /\ m.id \in Ids
        /\ \A i \in DOMAIN toClient : Answering(toClient[i]) =>
              toClient[i].id < new /\ toClient[i].id \in Ids
    BY MessageTypes DEF MessagesKept, Fresh
  <1>7. \A id \in Ids : id < new => id < new + 1 /\ id # new
    BY <1>2 DEF Ids
  <1>8. Fresh'
    <2>1. ASSUME NEW i \in DOMAIN toServer', toServer'[i].type = "request"
          PROVE  toServer'[i].id < client'.nextId
      <3>1. CASE i \in DOMAIN toServer /\ toServer'[i] = toServer[i]
        BY <1>6, <1>7, <2>1, <3>1
      <3>2. CASE toServer'[i] = request
        BY <1>0, <1>2, <3>2
      <3> QED BY <1>3, <3>1, <3>2
    <2> QED BY <1>6, <1>7, <2>1 DEF Fresh, Answering
  <1>9. InOnePlace'
    <2>1. ASSUME NEW i \in DOMAIN toServer', NEW j \in DOMAIN toServer',
                 toServer'[i].type = "request", toServer'[j].type = "request",
                 toServer'[i].id = toServer'[j].id
          PROVE  i = j
      BY <1>0, <1>3, <1>6, <1>7, <2>1 DEF MessagesKept, InOnePlace
    <2>2. \A a, b \in server'.held : a.id = b.id => a = b
      BY DEF MessagesKept, InOnePlace
    <2>3. ASSUME NEW i \in DOMAIN toServer', NEW m \in server'.held,
                 toServer'[i].type = "request"
          PROVE  toServer'[i].id # m.id
      BY <1>0, <1>3, <1>6, <1>7, <2>3 DEF MessagesKept, InOnePlace
    <2>4. ASSUME NEW i \in DOMAIN toClient', Answering(toClient'[i])
          PROVE  /\ \A m \in server'.held : m.id # toClient'[i].id
                 /\ \A j \in DOMAIN toServer' :
                      toServer'[j].type = "request" => toServer'[j].id # toClient'[i].id
      BY <1>0, <1>3, <1>6, <1>7, <2>4 DEF MessagesKept, InOnePlace
    <2> QED BY <2>1, <2>2, <2>3, <2>4 DEF InOnePlace, Answering
  <1>10. QuestionsKept'
    <2>1. ASSUME NEW i \in DOMAIN toServer', toServer'[i].type = "request"
          PROVE  IsAsked(toServer[i].id, toServer[i].question)'
      <3>1. CASE i \in DOMAIN toServer /\ toServer'[i] = toServer[i]
        <4>1. IsAsked(toServer[i].id, toServer[i].question)
          BY <2>1, <3>1 DEF MessagesKept, QuestionsKept
        <4>2. toServer[i].id \in Ids /\ toServer[i].id # new
          BY <1>6, <1>7, <2>1, <3>1
        <4> QED BY <1>4, <3>1, <4>1, <4>2 DEF IsAsked, Asked
      <3>2. CASE toServer'[i] = request
        BY <1>0, <1>2, <3>2 DEF IsAsked, Asked
      <3> QED BY <1>3, <3>1, <3>2
    <2>2. ASSUME NEW m \in server'.held
          PROVE  IsAsked(m.id, m.question)'
      <3>1. m.id \in Ids /\ m.id # new /\ IsAsked(m.id, m.question)
        BY <1>6, <1>7 DEF MessagesKept, QuestionsKept
      <3> QED BY <1>4, <3>1 DEF IsAsked, Asked
    <2>3. ASSUME NEW i \in DOMAIN toClient', toClient'[i].type = "result"
          PROVE  IsAsked(toClient[i].id, toClient[i].question)'
      <3>1. /\ toClient[i].id \in Ids /\ toClient[i].id # new
            /\ IsAsked(toClient[i].id, toClient[i].question)
        BY <1>6, <1>7, <2>3 DEF MessagesKept, QuestionsKept, Answering
      <3> QED BY <1>4, <3>1 DEF IsAsked, Asked
    <2> QED BY <2>1, <2>2, <2>3 DEF QuestionsKept
  <1> QED BY <1>8, <1>9, <1>10 DEF MessagesKept

\* What is asked stays asked while the callers are left alone.
LEMMA CallersAlone ==
  ASSUME UNCHANGED <<client, call>>
  PROVE  QuestionsStay /\ \A id, question : IsAsked(id, question)' <=> IsAsked(id, question)
  BY DEF QuestionsStay, IsAsked, Asked

\* The server reads a request.
LEMMA RequestHeld ==
  ASSUME TypeInv, MessagesKept, UNCHANGED <<client, call, toClient>>,
         toServer # <<>>, toServer' = Tail(toServer), Head(toServer).type = "request",
         server'.held = server.held \cup {Head(toServer)}
  PROVE  MessagesKept'
  <1> DEFINE request == Head(toServer)
  <1>1. /\ DOMAIN Tail(toServer) \subseteq Nat \ {0} /\ DOMAIN toServer \subseteq Nat \ {0}
        /\ \A i \in DOMAIN Tail(toServer) :
              i + 1 \in DOMAIN toServer /\ Tail(toServer)[i] = toServer[i + 1]
        /\ 1 \in DOMAIN toServer /\ request = toServer[1]
    BY TailElements DEF TypeInv, PipesType
  <1>2. /\ request.id < client.nextId
        /\ \A m \in server.held : m.id # request.id
        /\ \A i \in DOMAIN toClient : Answering(toClient[i]) => toClient[i].id # request.id
        /\ IsAsked(request.id, request.question)
    BY <1>1 DEF MessagesKept, Fresh, InOnePlace, QuestionsKept
  <1>3. ASSUME NEW i \in DOMAIN Tail(toServer)
        PROVE  i + 1 \in DOMAIN toServer /\ i + 1 # 1 /\ Tail(toServer)[i] = toServer[i + 1]
    BY <1>1
  <1>4. \A i \in DOMAIN Tail(toServer) : Tail(toServer)[i].type = "request" =>
           /\ Tail(toServer)[i].id # request.id
           /\ Tail(toServer)[i].id < client.nextId
           /\ IsAsked(Tail(toServer)[i].id, Tail(toServer)[i].question)
    BY <1>1, <1>3 DEF MessagesKept, Fresh, InOnePlace, QuestionsKept
  <1>5. \A i, j \in DOMAIN Tail(toServer) :
           Tail(toServer)[i].type = "request" /\ Tail(toServer)[j].type = "request"
             /\ Tail(toServer)[i].id = Tail(toServer)[j].id => i = j
    <2> SUFFICES ASSUME NEW i \in DOMAIN Tail(toServer), NEW j \in DOMAIN Tail(toServer),
                        Tail(toServer)[i].type = "request",
                        Tail(toServer)[j].type = "request",
                        Tail(toServer)[i].id = Tail(toServer)[j].id
                 PROVE  i = j
      OBVIOUS
    <2>1. i + 1 = j + 1
      BY <1>3 DEF MessagesKept, InOnePlace
    <2> QED BY <1>1, <2>1
  <1>6. Fresh'
    BY <1>2, <1>4 DEF MessagesKept, Fresh, Answering
  <1>7. InOnePlace'
    <2>1. \A m, n \in server'.held : m.id = n.id => m = n
      BY <1>2 DEF MessagesKept, InOnePlace
    <2>2. \A i \in DOMAIN toServer', m \in server'.held :
             toServer'[i].type = "request" => toServer'[i].id # m.id
      BY <1>3, <1>4 DEF MessagesKept, InOnePlace
    <2>3. \A i \in DOMAIN toClient' : Answering(toClient'[i]) =>
             /\ \A m \in server'.held : m.id # toClient'[i].id
             /\ \A j \in DOMAIN toServer' :
                   toServer'[j].type = "request" => toServer'[j].id # toClient'[i].id
      BY <1>2, <1>3 DEF MessagesKept, InOnePlace
    <2> QED BY <1>5, <2>1, <2>2, <2>3 DEF InOnePlace, Answering
  <1>8. QuestionsKept'
    BY <1>2, <1>4, CallersAlone DEF MessagesKept, QuestionsKept, IsAsked, Asked
  <1> QED BY <1>6, <1>7, <1>8 DEF MessagesKept

\* The server answers a request that it holds, or drops one that is cancelled.
LEMMA AnswerSent ==
  ASSUME TypeInv, MessagesKept, UNCHANGED <<client, call>>,
         NEW m \in server.held, server'.held = {other \in server.held : other.id # m.id},
         NEW answer \in ForClient, Answering(answer), answer.id = m.id,
         answer.type = "result" => answer.question = m.question,
         toClient' = Append(toClient, answer),
         NEW n \in Nat,
         \A i \in DOMAIN toServer' : toServer'[i].type = "request" =>
            i \in Nat /\ i + n \in DOMAIN toServer /\ toServer'[i] = toServer[i + n]
  PROVE  MessagesKept'
  <1>1. \A i \in DOMAIN toClient' :
           \/ i \in DOMAIN toClient /\ toClient'[i] = toClient[i]
           \/ toClient'[i] = answer
    BY AppendElements DEF TypeInv, PipesType
  <1>2. Fresh'
    <2>1. \A i \in DOMAIN toServer' :
             toServer'[i].type = "request" => toServer'[i].id < client.nextId
      BY DEF MessagesKept, Fresh
    <2> QED BY <1>1, <2>1 DEF MessagesKept, Fresh, Answering
  <1>3. InOnePlace'
    <2>1. ASSUME NEW i \in DOMAIN toServer', NEW j \in DOMAIN toServer',
                 toServer'[i].type = "request", toServer'[j].type = "request",
                 toServer'[i].id = toServer'[j].id
          PROVE  i = j
      <3>1. /\ i + n \in DOMAIN toServer /\ toServer'[i] = toServer[i + n] /\ i \in Nat
            /\ j + n \in DOMAIN toServer /\ toServer'[j] = toServer[j + n] /\ j \in Nat
        BY <2>1
      <3>2. i + n = j + n
        BY <2>1, <3>1 DEF MessagesKept, InOnePlace
      <3> QED BY <3>1, <3>2
    <2>2. \A i \in DOMAIN toServer', other \in server.held :
             toServer'[i].type = "request" => toServer'[i].id # other.id
      BY DEF MessagesKept, InOnePlace
    <2>3. \A i \in DOMAIN toClient' : Answering(toClient'[i]) =>
             /\ \A other \in server'.held : other.id # toClient'[i].id
             /\ \A j \in DOMAIN toServer' :
                   toServer'[j].type = "request" => toServer'[j].id # toClient'[i].id
      <3>1. SUFFICES ASSUME NEW i \in DOMAIN toClient', Answering(toClient'[i])
                     PROVE  /\ \A other \in server'.held : other.id # toClient'[i].id
                            /\ \A j \in DOMAIN toServer' : toServer'[j].type = "request" =>
                                  toServer'[j].id # toClient'[i].id
        OBVIOUS
      <3>2. CASE i \in DOMAIN toClient /\ toClient'[i] = toClient[i]
        BY <3>1, <3>2 DEF MessagesKept, InOnePlace
      <3>3. CASE toClient'[i] = answer
        BY <2>2, <3>3
      <3> QED BY <1>1, <3>2, <3>3
    <2> QED BY <2>1, <2>2, <2>3 DEF MessagesKept, InOnePlace, Answering
  <1>4. QuestionsKept'
    <2>1. \A i \in DOMAIN toServer' : toServer'[i].type = "request" =>
             IsAsked(toServer'[i].id, toServer'[i].question)
      BY DEF MessagesKept, QuestionsKept
    <2>2. IsAsked(m.id, m.question)
      BY DEF MessagesKept, QuestionsKept
    <2>3. \A i \in DOMAIN toClient' : toClient'[i].type = "result" =>
             IsAsked(toClient'[i].id, toClient'[i].question)
      BY <1>1, <2>2 DEF MessagesKept, QuestionsKept
    <2> QED BY <2>1, <2>3 DEF MessagesKept, QuestionsKept, IsAsked, Asked
  <1> QED BY <1>2, <1>3, <1>4 DEF MessagesKept

-----------------------------------------------------------------------------
(***************************************************************************)
(* What the steps leave of the messages                                     *)
(***************************************************************************)
OldRequests ==
    \E n \in Nat : \A i \in DOMAIN toServer' : toServer'[i].type = "request" =>
        i \in Nat /\ i + n \in DOMAIN toServer /\ toServer'[i] = toServer[i + n]

OldAnswers ==
    \A i \in DOMAIN toClient' : Answering(toClient'[i]) =>
        \E k \in DOMAIN toClient : toClient'[i] = toClient[k]

LEMMA PipeServer ==
  ASSUME TypeInv,
         \/ UNCHANGED toServer
         \/ toServer' = <<>>
         \/ toServer # <<>> /\ toServer' = Tail(toServer)
         \/ \E m \in ForServer : m.type # "request" /\ toServer' = Append(toServer, m)
  PROVE  OldRequests
  <1>0. toServer \in Seq(ForServer) /\ \A i \in DOMAIN toServer : i \in Nat /\ i + 0 = i
    BY MessageTypes DEF TypeInv, PipesType
  <1>1. CASE UNCHANGED toServer
    BY <1>0, <1>1 DEF OldRequests
  <1>2. CASE toServer' = <<>>
    BY <1>2 DEF OldRequests
  <1>3. CASE toServer # <<>> /\ toServer' = Tail(toServer)
    <2>1. \A i \in DOMAIN Tail(toServer) :
             i \in Nat /\ i + 1 \in DOMAIN toServer /\ Tail(toServer)[i] = toServer[i + 1]
      BY <1>0, <1>3, TailElements
    <2> QED BY <1>3, <2>1 DEF OldRequests
  <1>4. ASSUME NEW m \in ForServer, m.type # "request", toServer' = Append(toServer, m)
        PROVE  OldRequests
    <2>1. \A i \in DOMAIN toServer' : toServer'[i].type = "request" =>
             i \in DOMAIN toServer /\ toServer'[i] = toServer[i]
      BY <1>0, <1>4, AppendElements
    <2> QED BY <1>0, <2>1 DEF OldRequests
  <1> QED BY <1>1, <1>2, <1>3, <1>4

LEMMA PipeClient ==
  ASSUME TypeInv,
         \/ UNCHANGED toClient
         \/ toClient' = <<>>
         \/ toClient # <<>> /\ toClient' = Tail(toClient)
         \/ \E dropped \in 1..Len(toClient) :
               toClient' = SubSeq(toClient, dropped + 1, Len(toClient))
         \/ \E m \in ForClient : ~ Answering(m) /\ toClient' = Append(toClient, m)
  PROVE  OldAnswers
  <1>0. toClient \in Seq(ForClient)
    BY DEF TypeInv, PipesType
  <1>1. CASE UNCHANGED toClient \/ toClient' = <<>>
    BY <1>1 DEF OldAnswers
  <1>2. CASE toClient # <<>> /\ toClient' = Tail(toClient)
    BY <1>0, <1>2, TailElements DEF OldAnswers
  <1>3. CASE \E dropped \in 1..Len(toClient) :
               toClient' = SubSeq(toClient, dropped + 1, Len(toClient))
    BY <1>0, <1>3, SuffixElements DEF OldAnswers
  <1>4. ASSUME NEW m \in ForClient, ~ Answering(m), toClient' = Append(toClient, m)
        PROVE  OldAnswers
    BY <1>0, <1>4, AppendElements DEF OldAnswers
  <1> QED BY <1>1, <1>2, <1>3, <1>4

LEMMA OldMessages ==
  ASSUME TypeInv, MessagesKept, QuestionsStay,
         client'.nextId = client.nextId, server'.held \subseteq server.held,
         OldRequests, OldAnswers
  PROVE  MessagesKept'
  <1>1. client'.nextId \in Nat /\ client.nextId <= client'.nextId
    BY DEF TypeInv, ClientType
  <1> QED BY <1>1, FewerMessages DEF OldRequests, OldAnswers

\* A request is settled: whatever becomes of its caller asks nothing else.
LEMMA SettledAsks ==
  ASSUME TypeInv, NEW id \in Pending, client' = Settled(id),
         \A c \in Callers : call'[c].question = call[c].question
  PROVE  QuestionsStay /\ client'.nextId = client.nextId
  <1>1. \A other \in Ids :
           client'.pending[other] = IF other = id THEN Nobody ELSE client.pending[other]
    BY DEF Settled, TypeInv, ClientType, Pending
  <1>2. \A other \in Ids :
           client.pending[other] # Nobody => client.pending[other] \in Callers
    BY DEF TypeInv, ClientType
  <1>3. client'.nextId = client.nextId
    BY DEF Settled, TypeInv, ClientType
  <1> QED BY <1>1, <1>2, <1>3 DEF QuestionsStay

LEMMA RejectedAsks ==
  ASSUME client'.pending = [id \in Ids |-> Nobody]
  PROVE  QuestionsStay
  BY DEF QuestionsStay

\* Whoever has an answer has had it before.
AnswersStay ==
    \A c \in Callers : call'[c].stage = "answered" =>
        /\ call[c].stage = "answered"
        /\ call'[c].answer = call[c].answer /\ call'[c].question = call[c].question

LEMMA AnswersStayMatch ==
  ASSUME AnswersMatch, AnswersStay
  PROVE  AnswersMatch'
  BY DEF AnswersMatch, AnswersStay, Asked, Callers

LEMMA AllRejectedAnswers ==
  ASSUME TypeInv, call' = AllRejected
  PROVE  AnswersStay
  <1> SUFFICES ASSUME NEW c \in Callers, call'[c].stage = "answered"
               PROVE  /\ call[c].stage = "answered"
                      /\ call'[c].answer = call[c].answer
                      /\ call'[c].question = call[c].question
    BY DEF AnswersStay
  <1>1. call[c] \in CallRecord
    BY DEF TypeInv, CallType
  <1>2. call'[c] = IF \E id \in Pending : client.pending[id] = c
                     THEN [call[c] EXCEPT !.stage = "failed"] ELSE call[c]
    BY DEF AllRejected
  <1>3. ~ \E id \in Pending : client.pending[id] = c
    BY <1>1, <1>2 DEF CallRecord
  <1> QED BY <1>2, <1>3

LEMMA MessagesInit == Init => MessagesInv
  BY DEF Init, NewClient, NewCall, NewServer, MessagesInv, Fresh, InOnePlace, QuestionsKept,
         AnswersMatch

\* The server's process has ended, or its pipes are given up.
LEMMA CleanupKeepsMessages ==
  ASSUME TypeInv, MessagesInv, Cleanup
  PROVE  MessagesInv'
  <1>1. client'.pending = [id \in Ids |-> Nobody] /\ client'.nextId = client.nextId
    BY DEF Cleanup, FailedPending, TypeInv, ClientType
  <1>2. server'.held = server.held
    BY DEF Cleanup, TypeInv, ServerType
  <1>3. OldRequests /\ OldAnswers
    BY PipeServer, PipeClient DEF Cleanup
  <1>4. MessagesKept'
    BY <1>1, <1>2, <1>3, RejectedAsks, OldMessages DEF MessagesInv, MessagesKept
  <1>5. AnswersMatch'
    BY AllRejectedAnswers, AnswersStayMatch DEF Cleanup, MessagesInv
  <1> QED BY <1>4, <1>5 DEF MessagesInv, MessagesKept

\* A step that leaves the callers alone and sends no answer.
LEMMA QuietKeepsMessages ==
  ASSUME TypeInv, MessagesInv, UNCHANGED call,
         client'.pending = client.pending, client'.nextId = client.nextId,
         server'.held \subseteq server.held, OldRequests, OldAnswers
  PROVE  MessagesInv'
  <1>1. QuestionsStay /\ AnswersStay
    BY DEF QuestionsStay, AnswersStay
  <1> QED BY <1>1, OldMessages, AnswersStayMatch DEF MessagesInv, MessagesKept

LEMMA BreakKeepsMessages ==
  ASSUME TypeInv, MessagesInv, OldRequests, OldAnswers, server'.held = server.held,
         client' = [FailedPending(client) EXCEPT !.fatal = TRUE], call' = AllRejected
  PROVE  MessagesInv'
  <1>1. client'.pending = [id \in Ids |-> Nobody] /\ client'.nextId = client.nextId
    BY DEF FailedPending, TypeInv, ClientType
  <1> QED BY <1>1, RejectedAsks, OldMessages, AllRejectedAnswers, AnswersStayMatch
          DEF MessagesInv, MessagesKept

LEMMA OwnerKeepsMessages ==
  ASSUME TypeInv, CallsInv, MessagesInv, client.nextId \in Ids, NEW q \in Nat,
         call[Main].stage # "waiting",
         client'.pending = [client.pending EXCEPT ![client.nextId] = Main],
         client'.nextId = client.nextId + 1,
         call' = [call EXCEPT ![Main].stage = "waiting", ![Main].question = q],
         UNCHANGED toClient, server'.held = server.held,
         toServer' \in {toServer,
            Append(toServer, [type |-> "request", id |-> client.nextId,
                              question |-> <<Main, q>>])}
  PROVE  MessagesInv'
  <1>1. /\ call'[Main].stage = "waiting" /\ call'[Main].question = q
        /\ \A d \in Callers : d # Main => call'[d] = call[d]
    BY DEF TypeInv, CallType, CallRecord, Callers
  <1>2. MessagesKept'
    BY <1>1, RequestSent DEF MessagesInv, MessagesKept, Callers
  <1>3. AnswersStay
    BY <1>1 DEF AnswersStay
  <1> QED BY <1>2, <1>3, AnswersStayMatch DEF MessagesInv, MessagesKept

LEMMA WorkerKeepsMessages ==
  ASSUME TypeInv, CallsInv, MessagesInv, NEW w \in Workers, Ask(w) \/ Retry(w)
  PROVE  MessagesInv'
  <1>1. /\ budget.traffic > 0 /\ UNCHANGED <<server, toClient>>
        /\ call[w].stage # "waiting" /\ w \in Callers /\ call[w] \in CallRecord
    BY LspClientAssumption DEF Ask, Retry, Spend, Callers, TypeInv, CallType
  <1>2. PICK asked \in CallRecord : Request(w, asked) /\ asked.stage = call[w].stage
    BY WorkerAsks
  <1>3. PICK stage \in {"failed", "waiting"} :
           call' = [call EXCEPT ![w] = [asked EXCEPT !.stage = stage]]
    BY <1>2 DEF Request, RequestAs
  <1>4. /\ call'[w].stage = stage /\ call'[w].question = asked.question
        /\ call'[w].question \in Nat
        /\ \A d \in Callers : d # w => call'[d] = call[d]
    BY <1>1, <1>2, <1>3 DEF TypeInv, CallType, CallRecord
  <1>5. AnswersMatch'
    BY <1>4, AnswersStayMatch DEF AnswersStay, MessagesInv
  <1>6. CASE client.fatal \/ ~ client.connected
    <2>1. UNCHANGED <<client, toServer>>
      BY <1>2, <1>6 DEF Request, RequestAs
    <2>2. QuestionsStay
      <3>1. \A id \in Ids : client.pending[id] # Nobody =>
               client.pending[id] # w /\ client.pending[id] \in Callers
        BY <1>1 DEF CallsInv, PendingWait, TypeInv, ClientType
      <3> QED BY <1>4, <2>1, <3>1 DEF QuestionsStay
    <2> QED BY <1>1, <1>5, <2>1, <2>2, PipeServer, PipeClient, OldMessages
            DEF MessagesInv, MessagesKept
  <1>7. CASE ~ (client.fatal \/ ~ client.connected)
    <2>1. /\ client' = [client EXCEPT !.nextId = @ + 1, !.pending[client.nextId] = w]
          /\ toServer' = Sent([type |-> "request", id |-> client.nextId,
                               question |-> <<w, asked.question>>])
      BY <1>2, <1>7 DEF Request, RequestAs
    <2>2. client'.pending = [client.pending EXCEPT ![client.nextId] = w]
      BY <2>1 DEF TypeInv, ClientType
    <2>3. client'.nextId = client.nextId + 1
      BY <2>1 DEF TypeInv, ClientType
    <2>4. MessagesKept'
      BY <1>1, <1>4, <2>1, <2>2, <2>3, NextIdInRange, RequestSent
         DEF Sent, MessagesInv, MessagesKept
    <2> QED BY <1>5, <2>4 DEF MessagesInv, MessagesKept
  <1> QED BY <1>6, <1>7

LEMMA MessagesStep ==
  ASSUME TypeInv, CallsInv, MessagesInv, [Next]_vars
  PROVE  MessagesInv'
  <1>0. /\ ClientType /\ CallType /\ ServerType /\ PipesType
        /\ Main \in Callers /\ Nobody \notin Callers
    BY LspClientAssumption DEF TypeInv, Callers
  <1>1. CASE Start
    <2>1. /\ client = NewClient /\ toServer = <<>> /\ toClient = <<>> /\ server.held = {}
          /\ \A c \in Callers : call[c].stage = "idle"
      BY <1>1 DEF Start, CallsInv, NothingYet
    <2>2. client.nextId = 1 /\ client.pending = [id \in Ids |-> Nobody]
      BY <2>1 DEF NewClient
    <2>3. 1 \in Ids
      BY LspClientAssumption DEF Ids, MaxRequests
    <2>4. /\ client'.pending = [client.pending EXCEPT ![client.nextId] = Main]
          /\ client'.nextId = client.nextId + 1
      BY <1>1, <2>1, <2>2 DEF Start, NewClient
    <2>5. /\ call' = [call EXCEPT ![Main].stage = "waiting", ![Main].question = 1]
          /\ UNCHANGED toClient
          /\ toServer' = <<[type |-> "request", id |-> 1, question |-> <<Main, 1>>]>>
      BY <1>1 DEF Start
    <2>6. server'.held = server.held
      BY <1>0, <1>1 DEF Start, ServerType
    <2>7. toServer' = Append(toServer, [type |-> "request", id |-> client.nextId,
                                        question |-> <<Main, 1>>])
      BY <2>1, <2>2, <2>5
    <2> QED BY <1>0, <2>1, <2>2, <2>3, <2>4, <2>5, <2>6, <2>7, OwnerKeepsMessages
  <1>2. CASE Started
    <2>1. OldRequests /\ OldAnswers
      BY <1>2, PipeServer, PipeClient DEF Started
    <2> QED BY <1>2, <2>1, QuietKeepsMessages DEF Started
  <1>3. CASE Stop
    <2>1. CASE server.exitCode \/ client.fatal
      BY <1>3, <2>1, CleanupKeepsMessages DEF Stop
    <2>2. CASE ~ (server.exitCode \/ client.fatal)
      <3>1. CallsLeft > 0
        BY <1>3 DEF Stop, CallsLeft
      <3>2. client.nextId \in Ids
        BY <3>1, NextIdInRange
      <3>3. call[Main].stage # "waiting"
        BY <1>3 DEF Stop, CallsInv, MainWaits
      <3>4. client' = [client EXCEPT !.stopping = TRUE, !.nextId = client.nextId + 1,
                                     !.pending[client.nextId] = Main]
        BY <1>3, <2>2 DEF Stop
      <3>5. client'.pending = [client.pending EXCEPT ![client.nextId] = Main]
        BY <1>0, <3>4 DEF ClientType
      <3>6. client'.nextId = client.nextId + 1
        BY <1>0, <3>4 DEF ClientType
      <3>7. /\ call' = [call EXCEPT ![Main].stage = "waiting", ![Main].question = 2]
            /\ UNCHANGED <<toClient, server>>
            /\ toServer' \in {toServer,
                  Append(toServer, [type |-> "request", id |-> client.nextId,
                                    question |-> <<Main, 2>>])}
        BY <1>3, <2>2 DEF Stop, Sent
      <3> QED BY <3>2, <3>3, <3>5, <3>6, <3>7, OwnerKeepsMessages
    <2> QED BY <2>1, <2>2
  <1>4. CASE ShutdownAnswered
    <2>1. [type |-> "exit"] \in ForServer /\ [type |-> "exit"].type # "request"
      BY DEF ForServer
    <2>2. OldRequests /\ OldAnswers
      BY <1>4, <2>1, PipeServer, PipeClient DEF ShutdownAnswered, Sent
    <2> QED BY <1>4, <2>2, QuietKeepsMessages DEF ShutdownAnswered
  <1>5. CASE ShutdownFails \/ ExitEnds
    BY <1>5, CleanupKeepsMessages DEF ShutdownFails, ExitEnds
  <1>6. CASE WaitForNotification \/ WaitTimesOut \/ ServerRequestArrives
               \/ NotificationArrives
    <2>1. client'.pending = client.pending /\ client'.nextId = client.nextId
      BY <1>0, <1>6 DEF WaitForNotification, WaitTimesOut, ServerRequestArrives,
                        NotificationArrives, ClientType
    <2>2. /\ UNCHANGED <<call, server, toServer>>
          /\ UNCHANGED toClient \/ (toClient # <<>> /\ toClient' = Tail(toClient))
      BY <1>6 DEF WaitForNotification, WaitTimesOut, ServerRequestArrives,
                  NotificationArrives, Readable
    <2> QED BY <2>1, <2>2, PipeServer, PipeClient, QuietKeepsMessages
  <1>7. ASSUME NEW w \in Workers, Ask(w) \/ Retry(w) PROVE MessagesInv'
    BY <1>7, WorkerKeepsMessages
  <1>8. ASSUME NEW id \in Ids, Timeout(id) PROVE MessagesInv'
    <2> DEFINE c == client.pending[id]
    <2>1. id \in Pending /\ client' = Settled(id) /\ call' = Rejected(c)
            /\ UNCHANGED <<server, toClient>>
      BY <1>8 DEF Timeout
    <2>2. c \in Callers
      BY <1>0, <2>1 DEF Pending, ClientType
    <2>3. /\ call'[c].stage = "failed" /\ call'[c].question = call[c].question
          /\ \A d \in Callers : d # c => call'[d] = call[d]
      BY <1>0, <2>1, <2>2 DEF Rejected, CallType, CallRecord
    <2>4. [type |-> "cancel", id |-> id] \in ForServer
            /\ [type |-> "cancel", id |-> id].type # "request"
      BY DEF ForServer
    <2>5. OldRequests /\ OldAnswers
      BY <1>8, <2>1, <2>4, PipeServer, PipeClient DEF Timeout, Sent
    <2>6. MessagesKept'
      BY <2>1, <2>3, <2>5, SettledAsks, OldMessages DEF MessagesInv, MessagesKept
    <2>7. AnswersMatch'
      BY <2>3, AnswersStayMatch DEF AnswersStay, MessagesInv
    <2> QED BY <2>6, <2>7 DEF MessagesInv, MessagesKept
  <1>9. CASE ResponseArrives
    <2> DEFINE id == Message.id
               c  == client.pending[id]
    <2>1. /\ Message \in ForClient /\ Answering(Message) /\ toClient # <<>>
          /\ toClient' = Tail(toClient) /\ UNCHANGED <<server, toServer>>
      BY <1>0, <1>9, PipesMove DEF ResponseArrives, Readable, Message, Answering
    <2>2. id \in Ids
      BY <2>1 DEF ForClient, Answering
    <2>3. OldRequests /\ OldAnswers
      BY <2>1, PipeServer, PipeClient
    <2>4. CASE c = Nobody
      BY <1>9, <2>1, <2>3, <2>4, QuietKeepsMessages DEF ResponseArrives
    <2>5. CASE c # Nobody
      <3>1. id \in Pending /\ c \in Callers
        BY <1>0, <2>2, <2>5 DEF Pending, ClientType
      <3>2. client' = Settled(id)
        BY <1>9, <2>5 DEF ResponseArrives
      <3>3. PICK stage \in {"answered", "delay", "failed"} :
              /\ call' = [call EXCEPT ![c].stage = stage,
                            ![c].answer = IF Message.type = "result"
                                            THEN Message.question ELSE call[c].answer]
              /\ stage = "answered" => Message.type = "result"
        <4> DEFINE retried == /\ Message.type = "retryable" /\ c # Main
                              /\ call[c].attempt < Attempts
        <4>1. call' = [call EXCEPT
                ![c].stage  = IF Message.type = "result" THEN "answered"
                              ELSE IF retried THEN "delay" ELSE "failed",
                ![c].answer = IF Message.type = "result"
                                THEN Message.question ELSE call[c].answer]
          BY <1>0, <1>9, <2>5, <3>1 DEF ResponseArrives, CallType
        <4> HIDE DEF retried
        <4> QED BY <4>1
      <3>4. /\ \A d \in Callers : d # c => call'[d] = call[d]
            /\ call'[c].question = call[c].question
            /\ call'[c].stage = stage
            /\ Message.type = "result" => call'[c].answer = Message.question
        BY <1>0, <3>1, <3>3 DEF CallType, CallRecord
      <3>5. MessagesKept'
        BY <2>1, <2>3, <3>1, <3>2, <3>4, SettledAsks, OldMessages
           DEF MessagesInv, MessagesKept
      <3>6. Message.type = "result" => Message.question = Asked(c)
        <4>1. 1 \in DOMAIN toClient /\ toClient[1] = Message
          BY <1>0, <2>1, TailElements DEF PipesType, Message
        <4> QED BY <2>5, <4>1 DEF MessagesInv, QuestionsKept, IsAsked
      <3>7. AnswersMatch'
        <4> SUFFICES ASSUME NEW d \in Callers, call'[d].stage = "answered"
                     PROVE  call'[d].answer = <<d, call'[d].question>>
          BY DEF AnswersMatch, Asked, Callers
        <4>1. CASE d = c
          BY <3>3, <3>4, <3>6, <4>1 DEF Asked
        <4>2. CASE d # c
          BY <3>4, <4>2 DEF MessagesInv, AnswersMatch, Asked
        <4> QED BY <4>1, <4>2
      <3> QED BY <3>5, <3>7 DEF MessagesInv, MessagesKept
    <2> QED BY <2>4, <2>5
  <1>10. CASE MalformedArrives
    <2>1. OldRequests /\ OldAnswers /\ Breaks
      BY <1>10, PipeServer, PipeClient DEF MalformedArrives
    <2>2. CASE client.fatal
      BY <2>1, <2>2, QuietKeepsMessages DEF Breaks
    <2>3. CASE ~ client.fatal
      <3>1. server'.held = server.held
        BY <1>0, <2>1, <2>3 DEF Breaks, ServerType
      <3> QED BY <2>1, <2>3, <3>1, BreakKeepsMessages DEF Breaks
    <2> QED BY <2>2, <2>3
  <1>11. CASE Close
    <2>1. OldRequests /\ OldAnswers
      BY <1>11, PipeServer, PipeClient DEF Close
    <2>2. server'.held = server.held
      BY <1>0, <1>11 DEF Close, ServerType
    <2>3. CASE client.stopping \/ client.fatal
      BY <1>11, <2>1, <2>2, <2>3, QuietKeepsMessages DEF Close
    <2>4. CASE ~ (client.stopping \/ client.fatal)
      BY <1>11, <2>1, <2>2, <2>4, BreakKeepsMessages DEF Close
    <2> QED BY <2>3, <2>4
  <1>12. CASE ServerReads
    <2> DEFINE message == Head(toServer)
    <2>1. /\ message \in ForServer /\ toServer # <<>> /\ UNCHANGED <<client, call>>
          /\ toServer' = IF message.type = "exit" THEN <<>> ELSE Tail(toServer)
      BY <1>0, <1>12, PipesMove DEF ServerReads
    <2>2. message.type \in {"request", "cancel", "exit"}
      BY <2>1 DEF ForServer, Requests
    <2>3. OldRequests
      BY <2>1, PipeServer
    <2>4. server'.held = CASE message.type = "request" -> server.held \cup {message}
                           [] message.type = "cancel" ->
                                {m \in server.held : m.id # message.id}
                           [] OTHER -> server.held
      BY <1>0, <1>12 DEF ServerReads, ServerType
    <2>5. toClient' = IF \E m \in server.held :
                            message.type = "cancel" /\ m.id = message.id
                        THEN Append(toClient, [type |-> "retryable", id |-> message.id])
                        ELSE toClient
      BY <1>12 DEF ServerReads
    <2>6. CASE message.type = "request"
      BY <2>1, <2>4, <2>5, <2>6, RequestHeld, AnswersStayMatch
         DEF MessagesInv, MessagesKept, AnswersStay
    <2>7. CASE message.type = "exit"
      BY <2>1, <2>3, <2>4, <2>5, <2>7, PipeClient, QuietKeepsMessages
    <2>8. CASE message.type = "cancel"
      <3>1. CASE \E m \in server.held : m.id = message.id
        <4>1. PICK m \in server.held : m.id = message.id
          BY <3>1
        <4>2. server'.held = {other \in server.held : other.id # m.id}
          BY <2>4, <2>8, <4>1
        <4> DEFINE answer == [type |-> "retryable", id |-> m.id]
        <4>3. answer \in ForClient /\ Answering(answer) /\ answer.id = m.id
                /\ answer.type # "result"
          BY MessageTypes DEF ForClient, Answering
        <4>4. toClient' = Append(toClient, answer)
          BY <2>5, <2>8, <4>1
        <4>5. MessagesKept'
          BY <2>1, <2>3, <4>2, <4>3, <4>4, AnswerSent
             DEF OldRequests, MessagesInv, MessagesKept
        <4> QED BY <2>1, <4>5, AnswersStayMatch DEF MessagesInv, MessagesKept, AnswersStay
      <3>2. CASE ~ \E m \in server.held : m.id = message.id
        BY <2>1, <2>3, <2>4, <2>5, <2>8, <3>2, PipeClient, QuietKeepsMessages
      <3> QED BY <3>1, <3>2
    <2> QED BY <2>2, <2>6, <2>7, <2>8
  <1>13. CASE ServerAnswers
    <2>1. PICK m \in server.held, type \in {"result", "error", "retryable"} :
            /\ server' = [server EXCEPT !.held = @ \ {m}]
            /\ toClient' = Append(toClient,
                  [type |-> type, id |-> m.id, question |-> m.question])
      BY <1>13 DEF ServerAnswers
    <2> DEFINE answer == [type |-> type, id |-> m.id, question |-> m.question]
    <2>2. /\ answer \in ForClient /\ Answering(answer) /\ answer.id = m.id
          /\ answer.question = m.question
      BY <1>0 DEF ForClient, ServerType, Requests, Answering
    <2>3. server'.held = {other \in server.held : other.id # m.id}
      BY <1>0, <2>1 DEF ServerType, MessagesInv, InOnePlace
    <2>4. OldRequests /\ UNCHANGED <<client, call>>
      BY <1>13, PipeServer DEF ServerAnswers
    <2>5. MessagesKept'
      BY <2>1, <2>2, <2>3, <2>4, AnswerSent DEF OldRequests, MessagesInv, MessagesKept
    <2> QED BY <2>4, <2>5, AnswersStayMatch DEF MessagesInv, MessagesKept, AnswersStay
  <1>14. CASE ServerCalls \/ ServerBabbles
    <2>1. /\ \A r \in Registrations, type \in {"register", "unregister"} :
                /\ [type |-> type, id |-> r] \in ForClient
                /\ ~ Answering([type |-> type, id |-> r])
          /\ \A type \in {"notification", "malformed"} :
                [type |-> type] \in ForClient /\ ~ Answering([type |-> type])
      BY DEF ForClient, Answering
    <2>2. \E m \in ForClient : ~ Answering(m) /\ toClient' = Append(toClient, m)
      BY <1>14, <2>1 DEF ServerCalls, ServerBabbles
    <2>3. UNCHANGED <<client, call, toServer>>
      BY <1>14 DEF ServerCalls, ServerBabbles
    <2>4. server'.held = server.held
      BY <1>0, <1>14 DEF ServerCalls, ServerBabbles, ServerType
    <2> QED BY <2>2, <2>3, <2>4, PipeServer, PipeClient, QuietKeepsMessages
  <1>15. CASE ServerDies \/ ServerKilled
    <2>1. UNCHANGED <<client, call, toClient>> /\ toServer' = <<>>
      BY <1>15 DEF ServerDies, ServerKilled, Ended
    <2>2. server'.held = {}
      BY <1>0, <1>15 DEF ServerDies, ServerKilled, Ended, ServerType
    <2> QED BY <2>1, <2>2, PipeServer, PipeClient, QuietKeepsMessages
  <1>16. CASE UNCHANGED vars
    BY <1>16, PipeServer, PipeClient, QuietKeepsMessages DEF vars
  <1> QED BY <1>1, <1>2, <1>3, <1>4, <1>5, <1>6, <1>7, <1>8, <1>9, <1>10, <1>11, <1>12,
             <1>13, <1>14, <1>15, <1>16 DEF Next, Stops, Handler, Server

-----------------------------------------------------------------------------
(***************************************************************************)
(* Work that is awaited: requests and cancellations in the server's pipe     *)
(***************************************************************************)
LEMMA WorkGrows ==
  ASSUME TypeInv, WorkInv, Working' => Working, Pending \subseteq Pending',
         server'.held \subseteq server.held,
         \/ UNCHANGED toServer
         \/ \E m \in ForServer : /\ m.type = "request" => m.id \in Pending'
                                 /\ toServer' = Append(toServer, m)
  PROVE  WorkInv'
  <1>1. CASE UNCHANGED toServer
    BY <1>1 DEF WorkInv, CancelFollows, WorkIsAwaited, Cancelled, Working
  <1>2. ASSUME NEW m \in ForServer, m.type = "request" => m.id \in Pending',
               toServer' = Append(toServer, m)
        PROVE  WorkInv'
    <2>1. /\ DOMAIN toServer \subseteq DOMAIN toServer'
          /\ \A i \in DOMAIN toServer : toServer'[i] = toServer[i]
          /\ \A i \in DOMAIN toServer' : i \in DOMAIN toServer \/ toServer'[i] = m
      BY <1>2, AppendElements DEF TypeInv, PipesType
    <2>2. ASSUME NEW i \in DOMAIN toServer', Working', toServer'[i].type = "request",
                 toServer'[i].id \notin Pending'
          PROVE  \E j \in DOMAIN toServer' :
                    i < j /\ toServer'[j] = [type |-> "cancel", id |-> toServer'[i].id]
      <3>1. i \in DOMAIN toServer /\ toServer'[i] = toServer[i]
        BY <1>2, <2>1, <2>2
      <3>2. PICK j \in DOMAIN toServer :
               i < j /\ toServer[j] = [type |-> "cancel", id |-> toServer[i].id]
        BY <2>2, <3>1 DEF WorkInv, CancelFollows
      <3> QED BY <2>1, <3>1, <3>2
    <2>3. ASSUME NEW other \in server'.held, Working', other.id \notin Pending'
          PROVE  \E i \in DOMAIN toServer' :
                    toServer'[i] = [type |-> "cancel", id |-> other.id]
      <3>1. PICK i \in DOMAIN toServer :
               toServer[i] = [type |-> "cancel", id |-> other.id]
        BY <2>3 DEF WorkInv, WorkIsAwaited, Cancelled, Working
      <3> QED BY <2>1, <3>1
    <2> QED BY <2>2, <2>3 DEF WorkInv, CancelFollows, WorkIsAwaited, Cancelled, Working
  <1> QED BY <1>1, <1>2

\* A request is given up: its cancellation is sent after it.
LEMMA WorkCancelled ==
  ASSUME TypeInv, WorkInv, Working' => Working, NEW id \in Pending,
         Pending' = Pending \ {id}, server'.held = server.held,
         Working' => toServer' = Append(toServer, [type |-> "cancel", id |-> id])
  PROVE  WorkInv'
  <1> DEFINE cancel == [type |-> "cancel", id |-> id]
             last   == Len(toServer) + 1
  <1> SUFFICES ASSUME Working' PROVE WorkInv'
    BY DEF WorkInv, CancelFollows, WorkIsAwaited, Working
  <1>1. cancel \in ForServer /\ cancel.type # "request"
    BY DEF ForServer, Pending
  <1>2. /\ DOMAIN toServer' = DOMAIN toServer \cup {last} /\ Len(toServer) \in Nat
        /\ DOMAIN toServer \subseteq 1..Len(toServer)
        /\ \A i \in DOMAIN toServer : toServer'[i] = toServer[i]
        /\ toServer'[last] = cancel
    BY <1>1, AppendElements DEF TypeInv, PipesType
  <1>3. \A i \in DOMAIN toServer : i < last
    BY <1>2
  <1>4. ASSUME NEW i \in DOMAIN toServer', toServer'[i].type = "request",
               toServer'[i].id \notin Pending'
        PROVE  \E j \in DOMAIN toServer' :
                  i < j /\ toServer'[j] = [type |-> "cancel", id |-> toServer'[i].id]
    <2>1. i \in DOMAIN toServer /\ toServer'[i] = toServer[i]
      BY <1>1, <1>2, <1>4
    <2>2. CASE toServer[i].id = id
      BY <1>2, <1>3, <2>1, <2>2
    <2>3. CASE toServer[i].id # id
      <3>1. PICK j \in DOMAIN toServer :
               i < j /\ toServer[j] = [type |-> "cancel", id |-> toServer[i].id]
        BY <1>4, <2>1, <2>3 DEF WorkInv, CancelFollows
      <3> QED BY <1>2, <2>1, <3>1
    <2> QED BY <2>2, <2>3
  <1>5. ASSUME NEW m \in server'.held, m.id \notin Pending'
        PROVE  \E i \in DOMAIN toServer' : toServer'[i] = [type |-> "cancel", id |-> m.id]
    <2>1. CASE m.id = id
      BY <1>2, <2>1
    <2>2. CASE m.id # id
      <3>1. PICK i \in DOMAIN toServer : toServer[i] = [type |-> "cancel", id |-> m.id]
        BY <1>5, <2>2 DEF WorkInv, WorkIsAwaited, Cancelled, Working
      <3> QED BY <1>2, <3>1
    <2> QED BY <2>1, <2>2
  <1> QED BY <1>4, <1>5 DEF WorkInv, CancelFollows, WorkIsAwaited, Cancelled, Working

\* A request is answered: the server has it no more.
LEMMA WorkAnswered ==
  ASSUME WorkInv, Working' => Working, NEW id, Pending' = Pending \ {id},
         server'.held = server.held, UNCHANGED toServer,
         \A m \in server.held : m.id # id,
         \A i \in DOMAIN toServer : toServer[i].type = "request" => toServer[i].id # id
  PROVE  WorkInv'
  BY DEF WorkInv, CancelFollows, WorkIsAwaited, Cancelled, Working

LEMMA WorkRead ==
  ASSUME TypeInv, WorkInv, ServerReads
  PROVE  WorkInv'
  <1> DEFINE message == Head(toServer)
  <1> SUFFICES ASSUME Working' PROVE WorkInv'
    BY DEF WorkInv, CancelFollows, WorkIsAwaited, Working
  <1>1. /\ message \in ForServer /\ toServer # <<>> /\ toServer \in Seq(ForServer)
        /\ UNCHANGED client
    BY PipesMove DEF ServerReads, TypeInv, PipesType
  <1>2. message.type # "exit" /\ toServer' = Tail(toServer) /\ Working
    BY DEF ServerReads, TypeInv, ServerType, Working
  <1>3. Pending' = Pending
    BY <1>1 DEF Pending, Ids, MaxRequests
  <1>4. /\ DOMAIN toServer' \subseteq Nat \ {0} /\ DOMAIN toServer \subseteq Nat \ {0}
        /\ \A i \in DOMAIN toServer' :
              i + 1 \in DOMAIN toServer /\ toServer'[i] = toServer[i + 1]
        /\ \A i \in DOMAIN toServer :
              i # 1 => i - 1 \in DOMAIN toServer' /\ toServer'[i - 1] = toServer[i]
        /\ 1 \in DOMAIN toServer /\ message = toServer[1]
    BY <1>1, <1>2, TailElements
  <1>5. server'.held = CASE message.type = "request" -> server.held \cup {message}
                         [] message.type = "cancel" ->
                              {m \in server.held : m.id # message.id}
                         [] OTHER -> server.held
    BY DEF ServerReads, TypeInv, ServerType
  <1>6. message.type \in {"request", "cancel"}
    BY <1>1, <1>2 DEF ForServer, Requests
  <1>7. ASSUME NEW i \in DOMAIN toServer', toServer'[i].type = "request",
               toServer'[i].id \notin Pending
        PROVE  \E j \in DOMAIN toServer' :
                  i < j /\ toServer'[j] = [type |-> "cancel", id |-> toServer'[i].id]
    <2>1. i + 1 \in DOMAIN toServer /\ toServer'[i] = toServer[i + 1] /\ i \in Nat /\ i > 0
      BY <1>4
    <2>2. PICK j \in DOMAIN toServer :
             i + 1 < j /\ toServer[j] = [type |-> "cancel", id |-> toServer'[i].id]
      BY <1>2, <1>7, <2>1 DEF WorkInv, CancelFollows
    <2>3. j \in Nat /\ j # 1 /\ i < j - 1
      BY <1>4, <2>1, <2>2
    <2> QED BY <1>4, <2>2, <2>3
  <1>8. ASSUME NEW m \in server'.held, m.id \notin Pending
        PROVE  \E i \in DOMAIN toServer' : toServer'[i] = [type |-> "cancel", id |-> m.id]
    <2>1. \E i \in DOMAIN toServer :
             i # 1 /\ toServer[i] = [type |-> "cancel", id |-> m.id]
      <3>1. CASE m \in server.held
        <4>1. PICK i \in DOMAIN toServer : toServer[i] = [type |-> "cancel", id |-> m.id]
          BY <1>2, <1>8, <3>1 DEF WorkInv, WorkIsAwaited, Cancelled, Working
        <4>2. i # 1
          BY <1>4, <1>5, <1>6, <4>1
        <4> QED BY <4>1, <4>2
      <3>2. CASE m \notin server.held
        <4>1. m = toServer[1] /\ m.type = "request"
          BY <1>4, <1>5, <1>6, <3>2
        <4>2. PICK j \in DOMAIN toServer :
                 1 < j /\ toServer[j] = [type |-> "cancel", id |-> m.id]
          BY <1>2, <1>4, <1>8, <4>1 DEF WorkInv, CancelFollows
        <4> QED BY <4>2
      <3> QED BY <3>1, <3>2
    <2> QED BY <1>4, <2>1
  <1> QED BY <1>3, <1>7, <1>8 DEF WorkInv, CancelFollows, WorkIsAwaited, Cancelled

LEMMA WorkInit == Init => WorkInv
  BY DEF Init, NewServer, WorkInv, CancelFollows, WorkIsAwaited, Working

\* Once nothing works, there is nothing to say.
LEMMA NoWork == ASSUME ~ Working' PROVE WorkInv'
  BY DEF WorkInv, CancelFollows, WorkIsAwaited, Working

LEMMA WorkStep ==
  ASSUME TypeInv, CallsInv, MessagesInv, WorkInv, [Next]_vars
  PROVE  WorkInv'
  <1>0. /\ ClientType /\ CallType /\ ServerType /\ PipesType
        /\ Main \in Callers /\ Nobody \notin Callers
    BY LspClientAssumption DEF TypeInv, Callers
  <1>a. client'.pending = client.pending => Pending' = Pending
    BY DEF Pending, Ids, MaxRequests
  <1>1. CASE Start
    <2>1. server.held = {}
      BY <1>1 DEF Start, CallsInv, NothingYet
    <2>2. server'.held = {}
      BY <1>0, <1>1, <2>1 DEF Start, ServerType
    <2>3. 1 \in Ids
      BY LspClientAssumption DEF Ids, MaxRequests
    <2>4. 1 \in Pending'
      BY <1>0, <1>1, <2>3 DEF Start, ClientType, Pending, Ids, MaxRequests
    <2>5. /\ DOMAIN toServer' = {1}
          /\ toServer'[1] = [type |-> "request", id |-> 1, question |-> <<Main, 1>>]
      BY <1>1 DEF Start
    <2> QED BY <2>2, <2>4, <2>5 DEF WorkInv, CancelFollows, WorkIsAwaited
  <1>2. CASE Started \/ UNCHANGED vars
    BY <1>2, <1>a, WorkGrows DEF Started, vars, Working
  <1>3. CASE Stop
    <2>1. CASE server.exitCode \/ client.fatal
      <3>1. ~ client'.connected
        BY <1>0, <1>3, <2>1 DEF Stop, Cleanup, FailedPending, ClientType
      <3> QED BY <3>1, NoWork DEF Working
    <2>2. CASE ~ (server.exitCode \/ client.fatal)
      <3>1. CallsLeft > 0
        BY <1>3 DEF Stop, CallsLeft
      <3>2. client.nextId \in Ids
        BY <3>1, NextIdInRange
      <3>3. client' = [client EXCEPT !.stopping = TRUE, !.nextId = client.nextId + 1,
                                     !.pending[client.nextId] = Main]
        BY <1>3, <2>2 DEF Stop
      <3>4. /\ client'.pending = [client.pending EXCEPT ![client.nextId] = Main]
            /\ client'.fatal = client.fatal /\ client'.connected = client.connected
        BY <1>0, <3>3 DEF ClientType
      <3>5. Pending \subseteq Pending' /\ client.nextId \in Pending'
        BY <1>0, <3>2, <3>4 DEF Pending, Ids, MaxRequests, ClientType
      <3> DEFINE request == [type |-> "request", id |-> client.nextId,
                             question |-> <<Main, 2>>]
      <3>6. request \in ForServer /\ request.id \in Pending'
        BY <1>0, <3>2, <3>5 DEF ForServer, Requests, Questions
      <3>7. UNCHANGED server /\ toServer' \in {toServer, Append(toServer, request)}
        BY <1>3, <2>2 DEF Stop, Sent
      <3>8. Working' => Working
        BY <3>4, <3>7 DEF Working
      <3> HIDE DEF request
      <3> QED BY <3>5, <3>6, <3>7, <3>8, WorkGrows
    <2> QED BY <2>1, <2>2
  <1>4. CASE ShutdownAnswered
    <2>1. [type |-> "exit"] \in ForServer /\ [type |-> "exit"].type # "request"
      BY DEF ForServer
    <2>2. /\ UNCHANGED <<client, server>>
          /\ toServer' \in {toServer, Append(toServer, [type |-> "exit"])}
      BY <1>4 DEF ShutdownAnswered, Sent
    <2>3. Working' => Working
      BY <2>2 DEF Working
    <2> QED BY <1>a, <2>1, <2>2, <2>3, WorkGrows
  <1>5. CASE ShutdownFails \/ ExitEnds
    <2>1. ~ client'.connected
      BY <1>0, <1>5 DEF ShutdownFails, ExitEnds, Cleanup, FailedPending, ClientType
    <2> QED BY <2>1, NoWork DEF Working
  <1>6. CASE WaitForNotification \/ WaitTimesOut \/ ServerRequestArrives
               \/ NotificationArrives
    <2>1. /\ client'.pending = client.pending /\ client'.fatal = client.fatal
          /\ client'.connected = client.connected
      BY <1>0, <1>6 DEF WaitForNotification, WaitTimesOut, ServerRequestArrives,
                        NotificationArrives, ClientType
    <2>2. UNCHANGED <<server, toServer>>
      BY <1>6 DEF WaitForNotification, WaitTimesOut, ServerRequestArrives,
                  NotificationArrives
    <2>3. Working' => Working
      BY <2>1, <2>2 DEF Working
    <2> QED BY <1>a, <2>1, <2>2, <2>3, WorkGrows
  <1>7. ASSUME NEW w \in Workers, Ask(w) \/ Retry(w) PROVE WorkInv'
    <2>1. budget.traffic > 0 /\ UNCHANGED server /\ w \in Callers
      BY <1>7 DEF Ask, Retry, Spend, Callers
    <2>2. PICK asked \in CallRecord : Request(w, asked)
      BY <1>7, WorkerAsks
    <2>3. CASE client.fatal \/ ~ client.connected
      <3>1. UNCHANGED client
        BY <2>2, <2>3 DEF Request, RequestAs
      <3> QED BY <2>3, <3>1, NoWork DEF Working
    <2>4. CASE ~ (client.fatal \/ ~ client.connected)
      <3> DEFINE request == [type |-> "request", id |-> client.nextId,
                             question |-> <<w, asked.question>>]
      <3>1. /\ client' = [client EXCEPT !.nextId = @ + 1, !.pending[client.nextId] = w]
            /\ toServer' = Sent(request)
        BY <2>2, <2>4 DEF Request, RequestAs
      <3>2. /\ client'.pending = [client.pending EXCEPT ![client.nextId] = w]
            /\ client'.fatal = client.fatal /\ client'.connected = client.connected
        BY <1>0, <3>1 DEF ClientType
      <3>3. client.nextId \in Ids
        BY <2>1, NextIdInRange
      <3>4. Pending \subseteq Pending' /\ client.nextId \in Pending'
        BY <1>0, <2>1, <3>2, <3>3 DEF Pending, Ids, MaxRequests, ClientType
      <3>5. request \in ForServer /\ request.id \in Pending'
        BY <2>1, <3>3, <3>4 DEF ForServer, Requests, Questions, CallRecord
      <3>6. toServer' \in {toServer, Append(toServer, request)}
        BY <3>1 DEF Sent
      <3>7. Working' => Working
        BY <2>1, <3>2 DEF Working
      <3> HIDE DEF request
      <3> QED BY <2>1, <3>4, <3>5, <3>6, <3>7, WorkGrows
    <2> QED BY <2>3, <2>4
  <1>8. ASSUME NEW id \in Ids, Timeout(id) PROVE WorkInv'
    <2>1. id \in Pending /\ client' = Settled(id) /\ UNCHANGED server
      BY <1>8 DEF Timeout
    <2>2. client'.fatal = client.fatal /\ client'.connected = client.connected
      BY <1>0, <2>1 DEF Settled, ClientType
    <2>3. Pending' = Pending \ {id}
      BY <1>0, <2>1 DEF Settled, ClientType, Pending, Ids, MaxRequests
    <2>4. Working' => Working
      BY <2>1, <2>2 DEF Working
    <2>5. Working => toServer' = Append(toServer, [type |-> "cancel", id |-> id])
      BY <1>8 DEF Timeout, Sent, Working
    <2> QED BY <2>1, <2>3, <2>4, <2>5, WorkCancelled
  <1>9. CASE ResponseArrives
    <2> DEFINE id == Message.id
    <2>1. /\ Message \in ForClient /\ Answering(Message) /\ toClient # <<>>
          /\ UNCHANGED <<server, toServer>>
      BY <1>0, <1>9, PipesMove DEF ResponseArrives, Readable, Message, Answering
    <2>2. 1 \in DOMAIN toClient /\ toClient[1] = Message
      BY <1>0, <2>1, TailElements DEF PipesType, Message
    <2>3. CASE client.pending[id] = Nobody
      BY <1>9, <1>a, <2>1, <2>3, WorkGrows DEF ResponseArrives, Working
    <2>4. CASE client.pending[id] # Nobody
      <3>1. client' = Settled(id) /\ id \in Ids
        BY <1>9, <2>1, <2>4 DEF ResponseArrives, ForClient, Answering
      <3>2. client'.fatal = client.fatal /\ client'.connected = client.connected
        BY <1>0, <3>1 DEF Settled, ClientType
      <3>3. Pending' = Pending \ {id}
        BY <1>0, <3>1 DEF Settled, ClientType, Pending, Ids, MaxRequests
      <3>4. /\ \A m \in server.held : m.id # id
            /\ \A i \in DOMAIN toServer :
                  toServer[i].type = "request" => toServer[i].id # id
        BY <2>1, <2>2 DEF MessagesInv, InOnePlace
      <3>5. Working' => Working
        BY <2>1, <3>2 DEF Working
      <3> QED BY <2>1, <3>3, <3>4, <3>5, WorkAnswered
    <2> QED BY <2>3, <2>4
  <1>10. CASE MalformedArrives
    <2>1. client'.fatal
      BY <1>0, <1>10 DEF MalformedArrives, Breaks, FailedPending, ClientType
    <2> QED BY <2>1, NoWork DEF Working
  <1>11. CASE Close
    <2>1. ~ server'.alive
      BY <1>0, <1>11 DEF Close, ServerType
    <2> QED BY <2>1, NoWork DEF Working
  <1>12. CASE ServerReads
    BY <1>12, WorkRead
  <1>13. CASE ServerAnswers \/ ServerCalls \/ ServerBabbles
    <2>1. UNCHANGED <<client, toServer>>
      BY <1>13 DEF ServerAnswers, ServerCalls, ServerBabbles
    <2>2. server'.held \subseteq server.held /\ server'.alive = server.alive
      BY <1>0, <1>13 DEF ServerAnswers, ServerCalls, ServerBabbles, ServerType
    <2>3. Working' => Working
      BY <2>1, <2>2 DEF Working
    <2> QED BY <1>a, <2>1, <2>2, <2>3, WorkGrows
  <1>14. CASE ServerDies \/ ServerKilled
    <2>1. ~ server'.alive
      BY <1>0, <1>14 DEF ServerDies, ServerKilled, Ended, ServerType
    <2> QED BY <2>1, NoWork DEF Working
  <1> QED BY <1>1, <1>2, <1>3, <1>4, <1>5, <1>6, <1>7, <1>8, <1>9, <1>10, <1>11, <1>12,
             <1>13, <1>14 DEF Next, Stops, Handler, Server

-----------------------------------------------------------------------------
(***************************************************************************)
(* Notifications                                                           *)
(***************************************************************************)
LEMMA NotificationStep ==
  ASSUME TypeInv, NoLostNotification, [Next]_vars
  PROVE  NoLostNotification'
  <1>0. ClientType
    BY DEF TypeInv
  <1>1. CASE WaitForNotification \/ WaitTimesOut
    <2>1. CASE WaitForNotification
      BY <1>0, <2>1 DEF WaitForNotification, NoLostNotification, ClientType
    <2>2. CASE WaitTimesOut
      BY <1>0, <2>2 DEF WaitTimesOut, NoLostNotification, ClientType
    <2> QED BY <1>1, <2>1, <2>2
  <1>2. CASE NotificationArrives
    BY <1>0, <1>2 DEF NotificationArrives, NoLostNotification, ClientType
  <1>3. CASE ~ (WaitForNotification \/ WaitTimesOut \/ NotificationArrives)
    <2> SUFFICES client'.waiter = client.waiter /\ client'.received = client.received
      BY DEF NoLostNotification
    <2>1. CASE Start \/ Started \/ Stops
      <3>1. CASE Start \/ Started
        BY <1>0, <3>1 DEF Start, Started, ClientType
      <3>2. CASE ShutdownAnswered
        BY <3>2 DEF ShutdownAnswered
      <3>3. CASE ShutdownFails \/ ExitEnds
        BY <1>0, <3>3 DEF ShutdownFails, ExitEnds, Cleanup, FailedPending, ClientType
      <3>4. CASE Stop
        BY <1>0, <3>4 DEF Stop, Cleanup, FailedPending, ClientType
      <3> QED BY <2>1, <3>1, <3>2, <3>3, <3>4 DEF Stops
    <2>2. ASSUME NEW w \in Workers, Ask(w) \/ Retry(w)
          PROVE  client'.waiter = client.waiter /\ client'.received = client.received
      <3>1. PICK asked \in CallRecord : Request(w, asked)
        BY <2>2, WorkerAsks
      <3> QED BY <1>0, <3>1 DEF Request, RequestAs, ClientType
    <2>3. ASSUME NEW id \in Ids, Timeout(id)
          PROVE  client'.waiter = client.waiter /\ client'.received = client.received
      BY <1>0, <2>3 DEF Timeout, Settled, ClientType
    <2>4. CASE ResponseArrives \/ ServerRequestArrives \/ MalformedArrives \/ Close
      BY <1>0, <2>4 DEF ResponseArrives, Settled, ServerRequestArrives, MalformedArrives,
                        Breaks, Close, FailedPending, ClientType
    <2>5. CASE Server \/ UNCHANGED vars
      BY <2>5 DEF Server, ServerReads, ServerAnswers, ServerCalls, ServerBabbles,
                  ServerDies, ServerKilled, Ended, vars
    <2> QED BY <1>3, <2>1, <2>2, <2>3, <2>4, <2>5 DEF Next, Handler
  <1> QED BY <1>1, <1>2, <1>3

-----------------------------------------------------------------------------
(***************************************************************************)
(* The registrations the client has follow those the server has: what the   *)
(* messages on their way make of them, message by message.                  *)
(***************************************************************************)
\* The fold exists, whatever the registrations are.
ToldFold(base, s, g) ==
    g = [t \in SUBSET (1..Len(s)) |-> IF t = {} THEN base
                                      ELSE Follows(g[t \ {Max(t)}], s[Max(t)])]

LEMMA ToldFolds ==
  ASSUME NEW base, NEW s \in Seq(ForClient)
  PROVE  \E g : ToldFold(base, s, g)
  <1> DEFINE all == 1..Len(s)
             Small(k) == {t \in SUBSET all : Cardinality(t) <= k}
             Solves(k, g) ==
               g = [t \in Small(k) |-> IF t = {} THEN base
                                       ELSE Follows(g[t \ {Max(t)}], s[Max(t)])]
             Defined(k) == \E g : Solves(k, g)
             good == {k \in Nat : Defined(k)}
  <1>0. Len(s) \in Nat /\ IsFiniteSet(all)
    BY UpTo
  <1>1. \A t \in SUBSET all : IsFiniteSet(t) /\ Cardinality(t) \in Nat
    BY <1>0, FS_Subset, FS_CardinalityType
  <1>2. \A t \in SUBSET all : t # {} =>
          /\ Max(t) \in t
          /\ Cardinality(t \ {Max(t)}) = Cardinality(t) - 1
    BY <1>0, <1>1, UpTo, FS_RemoveElement
  <1> HIDE DEF all
  <1>3. Defined(0)
    <2>1. \A t \in Small(0) : t = {}
      BY <1>1, FS_EmptySet
    <2> DEFINE g == [t \in Small(0) |-> base]
    <2>2. Solves(0, g)
      <3> HIDE DEF Small
      <3> QED BY <2>1
    <2> HIDE DEF Solves, Small
    <2> QED BY <2>2
  <1>4. ASSUME NEW k \in Nat, Defined(k) PROVE Defined(k + 1)
    <2>1. PICK g : Solves(k, g)
      BY <1>4
    <2> DEFINE more == [t \in Small(k + 1) |->
                          IF t = {} THEN base
                          ELSE Follows(g[t \ {Max(t)}], s[Max(t)])]
    <2>2. Small(k) \subseteq Small(k + 1)
      BY <1>1
    <2>3. \A t \in Small(k) : more[t] = g[t]
      <3> HIDE DEF Small
      <3> QED BY <2>1, <2>2
    <2>4. \A t \in Small(k + 1) : t # {} => t \ {Max(t)} \in Small(k)
      BY <1>1, <1>2
    <2>5. Solves(k + 1, more)
      <3> HIDE DEF Small
      <3> QED BY <2>3, <2>4
    <2> HIDE DEF Solves, Small, more
    <2> QED BY <2>5
  <1>5. 0 \in good /\ \A k \in 0..(Cardinality(all) - 1) : k \in good => k + 1 \in good
    <2>1. Cardinality(all) \in Nat
      BY <1>1
    <2> HIDE DEF Defined
    <2> QED BY <1>3, <1>4, <2>1
  <1>6. Cardinality(all) \in Nat /\ Defined(Cardinality(all))
    <2>1. Cardinality(all) \in Nat
      BY <1>1
    <2>2. 0..Cardinality(all) \subseteq good
      <3> HIDE DEF good
      <3> QED BY <2>1, <1>5, CountUp
    <2> HIDE DEF Defined
    <2> QED BY <2>1, <2>2
  <1>7. Small(Cardinality(all)) = SUBSET all
    BY <1>0, <1>1, FS_Subset
  <1> HIDE DEF Small
  <1>8. PICK g : Solves(Cardinality(all), g)
    BY <1>6
  <1>9. ToldFold(base, s, g)
    <2>1. g = [t \in SUBSET all |-> IF t = {} THEN base
                                    ELSE Follows(g[t \ {Max(t)}], s[Max(t)])]
      BY <1>7, <1>8
    <2> HIDE DEF Solves
    <2> QED BY <2>1 DEF ToldFold, all
  <1> QED BY <1>9

\* Step by step: what is told by the first messages.
Steps(base, s, path) ==
    /\ path[0] = base
    /\ \A k \in 1..Len(s) : path[k] = Follows(path[k - 1], s[k])

LEMMA ToldSteps ==
  ASSUME NEW base, NEW s \in Seq(ForClient)
  PROVE  \E path : Steps(base, s, path) /\ Told(base, s) = path[Len(s)]
  <1> DEFINE g == CHOOSE h : h = [t \in SUBSET DOMAIN s |-> IF t = {} THEN base
                                 ELSE Follows(h[t \ {Max(t)}], s[Max(t)])]
             path == [k \in 0..Len(s) |-> g[1..k]]
  <1>1. Len(s) \in Nat /\ DOMAIN s = 1..Len(s)
    OBVIOUS
  <1>2. Told(base, s) = g[DOMAIN s]
    BY DEF Told, Follows, FoldLeft, MapThenFoldSet
  <1>3. ToldFold(base, s, g)
    <2>1. PICK h : ToldFold(base, s, h)
      BY ToldFolds
    <2>2. h = [t \in SUBSET DOMAIN s |-> IF t = {} THEN base
                                        ELSE Follows(h[t \ {Max(t)}], s[Max(t)])]
      BY <1>1, <2>1 DEF ToldFold
    <2>3. g = [t \in SUBSET DOMAIN s |-> IF t = {} THEN base
                                        ELSE Follows(g[t \ {Max(t)}], s[Max(t)])]
      BY <2>2
    <2> QED BY <1>1, <2>3 DEF ToldFold
  <1> HIDE DEF g
  <1>4. g[1..0] = base
    BY <1>1, <1>3, UpTo DEF ToldFold
  <1>5. \A k \in 1..Len(s) : g[1..k] = Follows(g[1..(k - 1)], s[k])
    <2> TAKE k \in 1..Len(s)
    <2>1. 1..k # {} /\ Max(1..k) = k /\ (1..k) \ {k} = 1..(k - 1)
      BY <1>1, UpTo
    <2>2. 1..k \in SUBSET (1..Len(s))
      BY <1>1
    <2> QED BY <1>3, <2>1, <2>2 DEF ToldFold
  <1>6. path[0] = base /\ path[Len(s)] = g[1..Len(s)]
    BY <1>1, <1>4
  <1>7. \A k \in 1..Len(s) : path[k] = g[1..k] /\ path[k - 1] = g[1..(k - 1)]
    BY <1>1
  <1> HIDE DEF path
  <1>8. Steps(base, s, path) /\ Told(base, s) = path[Len(s)]
    BY <1>1, <1>2, <1>5, <1>6, <1>7 DEF Steps
  <1> QED BY <1>8

LEMMA ToldNothing ==
  ASSUME NEW base
  PROVE  Told(base, <<>>) = base
  <1>1. <<>> \in Seq(ForClient) /\ Len(<<>>) = 0
    OBVIOUS
  <1>2. PICK path : Steps(base, <<>>, path) /\ Told(base, <<>>) = path[Len(<<>>)]
    BY <1>1, ToldSteps
  <1> QED BY <1>1, <1>2 DEF Steps

LEMMA ToldMore ==
  ASSUME NEW base, NEW s \in Seq(ForClient), NEW message \in ForClient
  PROVE  Told(base, Append(s, message)) = Follows(Told(base, s), message)
  <1> DEFINE t == Append(s, message)
  <1>1. t \in Seq(ForClient) /\ Len(s) \in Nat /\ Len(t) = Len(s) + 1
        /\ t[Len(t)] = message /\ \A k \in 1..Len(s) : t[k] = s[k]
    OBVIOUS
  <1> HIDE DEF t
  <1>2. PICK old : Steps(base, s, old) /\ Told(base, s) = old[Len(s)]
    BY ToldSteps
  <1>3. PICK new : Steps(base, t, new) /\ Told(base, t) = new[Len(t)]
    BY <1>1, ToldSteps
  <1>4. \A k \in 0..(Len(s) - 1) : old[k] = new[k] => old[k + 1] = new[k + 1]
    <2> SUFFICES ASSUME NEW k \in 0..(Len(s) - 1), old[k] = new[k]
                 PROVE  old[k + 1] = new[k + 1]
      OBVIOUS
    <2>1. k + 1 \in 1..Len(s) /\ k + 1 \in 1..Len(t) /\ (k + 1) - 1 = k
      BY <1>1
    <2>2. old[k + 1] = Follows(old[k], s[k + 1]) /\ new[k + 1] = Follows(new[k], t[k + 1])
      BY <1>2, <1>3, <2>1 DEF Steps
    <2> QED BY <1>1, <2>1, <2>2
  <1>5. old[0] = new[0]
    BY <1>2, <1>3 DEF Steps
  <1>6. \A k \in 0..Len(s) : old[k] = new[k]
    <2> DEFINE same == {k \in 0..Len(s) : old[k] = new[k]}
    <2>1. 0 \in same /\ \A k \in 0..(Len(s) - 1) : k \in same => k + 1 \in same
      BY <1>1, <1>4, <1>5
    <2>2. Len(s) \in Nat
      BY <1>1
    <2>3. 0..Len(s) \subseteq same
      <3> HIDE DEF same
      <3> QED BY <2>1, <2>2, CountUp
    <2> QED BY <2>3
  <1>7. old[Len(s)] = new[Len(s)]
    BY <1>1, <1>6
  <1>8. new[Len(t)] = Follows(new[Len(s)], message)
    <2>1. Len(t) \in 1..Len(t) /\ Len(t) - 1 = Len(s)
      BY <1>1
    <2>2. new[Len(t)] = Follows(new[Len(t) - 1], t[Len(t)])
      BY <1>3, <2>1 DEF Steps
    <2> QED BY <1>1, <2>1, <2>2
  <1> QED BY <1>2, <1>3, <1>7, <1>8 DEF t

LEMMA ToldFirst ==
  ASSUME NEW base, NEW s \in Seq(ForClient), s # <<>>
  PROVE  Told(base, s) = Told(Follows(base, Head(s)), Tail(s))
  <1> DEFINE t == Tail(s)
             next == Follows(base, Head(s))
  <1>1. t \in Seq(ForClient) /\ Len(t) \in Nat /\ Len(s) = Len(t) + 1
        /\ s[1] = Head(s) /\ \A k \in 1..Len(t) : t[k] = s[k + 1]
    OBVIOUS
  <1> HIDE DEF t
  <1>2. PICK old : Steps(base, s, old) /\ Told(base, s) = old[Len(s)]
    BY ToldSteps
  <1>3. PICK new : Steps(next, t, new) /\ Told(next, t) = new[Len(t)]
    BY <1>1, ToldSteps
  <1> DEFINE later == [k \in 0..Len(t) |-> old[k + 1]]
  <1>4. \A k \in 0..Len(t) : later[k] = old[k + 1]
    OBVIOUS
  <1> HIDE DEF later
  <1>5. later[0] = new[0]
    <2>1. 1 \in 1..Len(s) /\ 1 - 1 = 0 /\ 0 \in 0..Len(t) /\ 0 + 1 = 1
      BY <1>1
    <2>2. old[1] = Follows(old[1 - 1], s[1])
      BY <1>2, <2>1 DEF Steps
    <2> QED BY <1>1, <1>2, <1>3, <1>4, <2>1, <2>2 DEF Steps
  <1>6. \A k \in 0..(Len(t) - 1) : later[k] = new[k] => later[k + 1] = new[k + 1]
    <2> SUFFICES ASSUME NEW k \in 0..(Len(t) - 1), later[k] = new[k]
                 PROVE  later[k + 1] = new[k + 1]
      OBVIOUS
    <2>1. /\ k + 1 \in 1..Len(t) /\ k + 2 \in 1..Len(s)
          /\ (k + 1) - 1 = k /\ (k + 2) - 1 = k + 1 /\ (k + 1) + 1 = k + 2
          /\ k \in 0..Len(t) /\ k + 1 \in 0..Len(t)
      BY <1>1
    <2>2. old[k + 2] = Follows(old[k + 1], s[k + 2])
      BY <1>2, <2>1 DEF Steps
    <2>3. new[k + 1] = Follows(new[k], t[k + 1])
      BY <1>3, <2>1 DEF Steps
    <2>4. t[k + 1] = s[k + 2]
      BY <1>1, <2>1
    <2>5. later[k] = old[k + 1] /\ later[k + 1] = old[k + 2]
      BY <1>4, <2>1
    <2> QED BY <2>2, <2>3, <2>4, <2>5
  <1>7. \A k \in 0..Len(t) : later[k] = new[k]
    <2> DEFINE same == {k \in 0..Len(t) : later[k] = new[k]}
    <2>1. 0 \in same /\ \A k \in 0..(Len(t) - 1) : k \in same => k + 1 \in same
      BY <1>1, <1>5, <1>6
    <2>2. Len(t) \in Nat
      BY <1>1
    <2>3. 0..Len(t) \subseteq same
      <3> HIDE DEF same
      <3> QED BY <2>1, <2>2, CountUp
    <2> QED BY <2>3
  <1>8. later[Len(t)] = old[Len(s)] /\ later[Len(t)] = new[Len(t)]
    BY <1>1, <1>4, <1>7
  <1> QED BY <1>2, <1>3, <1>8 DEF t

-----------------------------------------------------------------------------
Sound(message) == message.type # "malformed"

Whole == \A i \in DOMAIN toClient : Sound(toClient[i])

FollowInv ==
    /\ phase = "new" => server.registrations = <<>>
    /\ RegistrationsFollow

LEMMA FollowsFrom ==
  RegistrationsFollow <=>
    (Working /\ Whole => Told(client.registrations, toClient) = server.registrations)
  BY DEF RegistrationsFollow, Working, Whole, Sound

LEMMA FollowsInit == Init => FollowInv
  <1> SUFFICES ASSUME Init PROVE FollowInv
    OBVIOUS
  <1>1. server.registrations = <<>> /\ ~ server.alive
    BY DEF Init, NewServer
  <1> QED BY <1>1 DEF FollowInv, RegistrationsFollow

\* What changes neither the registrations nor the messages on their way.
LEMMA FollowsQuiet ==
  ASSUME FollowInv, phase' = "new" => phase = "new",
         Working' => /\ Working /\ toClient' = toClient
                     /\ client'.registrations = client.registrations,
         server'.registrations = server.registrations
  PROVE  FollowInv'
  <1>1. Whole' /\ toClient' = toClient => Whole
    BY DEF Whole
  <1>2. (Working /\ Whole => Told(client.registrations, toClient) = server.registrations)
    BY FollowsFrom DEF FollowInv
  <1>3. (Working' /\ Whole' => Told(client'.registrations, toClient') = server'.registrations)
    BY <1>1, <1>2
  <1>4. RegistrationsFollow'
    BY <1>3 DEF RegistrationsFollow, Working, Whole, Sound
  <1> QED BY <1>4 DEF FollowInv

\* A message is sent behind those on their way.
LEMMA FollowsSent ==
  ASSUME FollowInv, PipesType, phase' = phase, phase # "new", Working' => Working,
         NEW message \in ForClient, toClient' = Append(toClient, message),
         client'.registrations = client.registrations,
         Sound(message) =>
            server'.registrations = Follows(server.registrations, message)
  PROVE  FollowInv'
  <1>1. Told(client.registrations, toClient')
          = Follows(Told(client.registrations, toClient), message)
    BY ToldMore DEF PipesType
  <1>2. Whole' => Whole /\ Sound(message)
    <2> SUFFICES ASSUME Whole' PROVE Whole /\ Sound(message)
      OBVIOUS
    <2>1. toClient \in Seq(ForClient)
      BY DEF PipesType
    <2>2. /\ \A i \in DOMAIN toClient : i \in DOMAIN toClient' /\ toClient'[i] = toClient[i]
          /\ Len(toClient) + 1 \in DOMAIN toClient'
          /\ toClient'[Len(toClient) + 1] = message
      BY <2>1
    <2> QED BY <2>2 DEF Whole
  <1>3. (Working /\ Whole => Told(client.registrations, toClient) = server.registrations)
    BY FollowsFrom DEF FollowInv
  <1>4. (Working' /\ Whole' => Told(client'.registrations, toClient') = server'.registrations)
    BY <1>1, <1>2, <1>3
  <1>5. RegistrationsFollow'
    BY <1>4 DEF RegistrationsFollow, Working, Whole, Sound
  <1> QED BY <1>5 DEF FollowInv

\* The first message is handled.
LEMMA FollowsTaken ==
  ASSUME FollowInv, PipesType, phase' = phase, phase # "new", Working' => Working,
         toClient # <<>>, toClient' = Tail(toClient), Sound(Message),
         client'.registrations = Follows(client.registrations, Message),
         server'.registrations = server.registrations
  PROVE  FollowInv'
  <1>1. Told(client.registrations, toClient) = Told(client'.registrations, toClient')
    BY ToldFirst DEF PipesType, Message
  <1>2. Whole' => Whole
    <2> SUFFICES ASSUME Whole', NEW i \in DOMAIN toClient PROVE Sound(toClient[i])
      BY DEF Whole
    <2>1. toClient \in Seq(ForClient)
      BY DEF PipesType
    <2>2. CASE i = 1
      BY <2>1, <2>2 DEF Message
    <2>3. CASE i # 1
      <3>1. i - 1 \in DOMAIN toClient' /\ toClient'[i - 1] = toClient[i]
        BY <2>1, <2>3
      <3> QED BY <3>1 DEF Whole
    <2> QED BY <2>2, <2>3
  <1>3. (Working /\ Whole => Told(client.registrations, toClient) = server.registrations)
    BY FollowsFrom DEF FollowInv
  <1>4. (Working' /\ Whole' => Told(client'.registrations, toClient') = server'.registrations)
    BY <1>1, <1>2, <1>3
  <1>5. RegistrationsFollow'
    BY <1>4 DEF RegistrationsFollow, Working, Whole, Sound
  <1> QED BY <1>5 DEF FollowInv

LEMMA FollowsStep ==
  ASSUME TypeInv, CallsInv, FollowInv, [Next]_vars
  PROVE  FollowInv'
  <1>0. /\ ClientType /\ CallType /\ ServerType /\ PipesType
        /\ Main \in Callers /\ Nobody \notin Callers
    BY LspClientAssumption DEF TypeInv, Callers
  <1>a. Readable => phase # "new" /\ toClient # <<>> /\ Message \in ForClient
    <2>1. toClient # <<>> => toClient \in Seq(ForClient) /\ Head(toClient) \in ForClient
      BY <1>0 DEF PipesType
    <2> QED BY <2>1 DEF Readable, CallsInv, NothingYet, Message
  <1>b. phase # "stopped" \/ ~ Working
    BY DEF CallsInv, Disconnected, Working
  <1>c. server.alive => phase # "new"
    BY DEF CallsInv, NothingYet
  <1>1. CASE Start
    <2>1. /\ client.registrations = <<>> /\ toClient = <<>> /\ server.registrations = <<>>
      BY <1>1 DEF Start, CallsInv, NothingYet, NewClient, FollowInv
    <2>2. /\ client'.registrations = client.registrations /\ toClient' = toClient
          /\ server'.registrations = server.registrations /\ phase' # "new"
      BY <1>0, <1>1 DEF Start, ClientType, ServerType
    <2>3. Told(client'.registrations, toClient') = server'.registrations
      BY <2>1, <2>2, ToldNothing
    <2>4. RegistrationsFollow'
      BY <2>3 DEF RegistrationsFollow
    <2> QED BY <2>2, <2>4 DEF FollowInv
  <1>2. CASE Started \/ UNCHANGED vars
    BY <1>2, FollowsQuiet DEF Started, vars, Working
  <1>3. CASE Stop
    <2>1. CASE server.exitCode \/ client.fatal
      <3>1. /\ ~ client'.connected /\ server'.registrations = server.registrations
            /\ phase' # "new"
        BY <1>0, <1>3, <2>1 DEF Stop, Cleanup, FailedPending, ClientType, ServerType
      <3> QED BY <3>1, FollowsQuiet DEF Working
    <2>2. CASE ~ (server.exitCode \/ client.fatal)
      <3>1. /\ client'.registrations = client.registrations /\ client'.fatal = client.fatal
            /\ client'.connected = client.connected /\ UNCHANGED <<server, toClient>>
            /\ phase' # "new"
        BY <1>0, <1>3, <2>2 DEF Stop, ClientType
      <3> QED BY <3>1, FollowsQuiet DEF Working
    <2> QED BY <2>1, <2>2
  <1>4. CASE ShutdownAnswered
    BY <1>4, FollowsQuiet DEF ShutdownAnswered, Working
  <1>5. CASE ShutdownFails \/ ExitEnds
    <2>1. /\ ~ client'.connected /\ server'.registrations = server.registrations
          /\ phase' # "new"
      BY <1>0, <1>5 DEF ShutdownFails, ExitEnds, Cleanup, FailedPending, ClientType,
                        ServerType
    <2> QED BY <2>1, FollowsQuiet DEF Working
  <1>6. CASE WaitForNotification \/ WaitTimesOut
    <2>1. /\ client'.registrations = client.registrations /\ client'.fatal = client.fatal
          /\ client'.connected = client.connected
          /\ UNCHANGED <<server, toClient, phase>>
      BY <1>0, <1>6 DEF WaitForNotification, WaitTimesOut, ClientType
    <2> QED BY <2>1, FollowsQuiet DEF Working
  <1>7. ASSUME NEW w \in Workers, Ask(w) \/ Retry(w) PROVE FollowInv'
    <2>1. PICK asked \in CallRecord : Request(w, asked)
      BY <1>7, WorkerAsks
    <2>2. /\ client'.registrations = client.registrations /\ client'.fatal = client.fatal
          /\ client'.connected = client.connected
      BY <1>0, <2>1 DEF Request, RequestAs, ClientType
    <2>3. UNCHANGED <<server, toClient, phase>>
      BY <1>7 DEF Ask, Retry
    <2> QED BY <2>2, <2>3, FollowsQuiet DEF Working
  <1>8. ASSUME NEW id \in Ids, Timeout(id) PROVE FollowInv'
    <2>1. /\ client'.registrations = client.registrations /\ client'.fatal = client.fatal
          /\ client'.connected = client.connected
          /\ UNCHANGED <<server, toClient, phase>>
      BY <1>0, <1>8 DEF Timeout, Settled, ClientType
    <2> QED BY <2>1, FollowsQuiet DEF Working
  <1>9. CASE ResponseArrives \/ NotificationArrives
    <2>1. /\ client'.registrations = client.registrations /\ client'.fatal = client.fatal
          /\ client'.connected = client.connected
          /\ UNCHANGED <<server, phase>> /\ toClient' = Tail(toClient) /\ Readable
      BY <1>0, <1>9 DEF ResponseArrives, NotificationArrives, Settled, ClientType
    <2>2. Message.type \in {"result", "error", "retryable", "notification"}
      BY <1>9 DEF ResponseArrives, NotificationArrives
    <2>3. Sound(Message) /\ Follows(client.registrations, Message) = client.registrations
      BY <2>2 DEF Sound, Follows
    <2> QED BY <1>0, <1>a, <2>1, <2>3, FollowsTaken DEF Working
  <1>10. CASE ServerRequestArrives
    <2>1. /\ client'.registrations = Applied(client.registrations, Message)
          /\ client'.fatal = client.fatal /\ client'.connected = client.connected
          /\ UNCHANGED <<server, phase>> /\ toClient' = Tail(toClient) /\ Readable
          /\ Message.type \in {"register", "unregister"}
      BY <1>0, <1>10 DEF ServerRequestArrives, ClientType
    <2>2. /\ Sound(Message)
          /\ Follows(client.registrations, Message) = Applied(client.registrations, Message)
      BY <2>1 DEF Sound, Follows
    <2> QED BY <1>0, <1>a, <2>1, <2>2, FollowsTaken DEF Working
  <1>11. CASE MalformedArrives
    <2>1. client'.fatal /\ server'.registrations = server.registrations /\ phase' = phase
      BY <1>0, <1>11 DEF MalformedArrives, Breaks, FailedPending, ClientType, ServerType
    <2> QED BY <2>1, FollowsQuiet DEF Working
  <1>12. CASE Close
    <2>1. ~ server'.alive /\ server'.registrations = server.registrations /\ phase' = phase
      BY <1>0, <1>12 DEF Close, ServerType
    <2> QED BY <2>1, FollowsQuiet DEF Working
  <1>13. CASE ServerReads
    <2>1. /\ UNCHANGED <<client, phase>> /\ server'.registrations = server.registrations
          /\ server.alive
      BY <1>0, <1>13 DEF ServerReads, ServerType
    <2> DEFINE reply == [type |-> "retryable", id |-> Head(toServer).id]
    <2>2. toClient' = toClient \/ (toClient' = Append(toClient, reply) /\ reply \in ForClient)
      <3>1. /\ toClient' \in {toClient, Append(toClient, reply)}
            /\ toClient' # toClient => Head(toServer).type = "cancel"
        BY <1>13 DEF ServerReads
      <3>2. Head(toServer) \in ForServer
        BY <1>0, <1>13 DEF ServerReads, PipesType
      <3>3. Head(toServer).type = "cancel" => Head(toServer).id \in Ids
        BY <3>2 DEF ForServer, Requests
      <3> QED BY <3>1, <3>3 DEF ForClient
    <2>3. Sound(reply) /\ Follows(server.registrations, reply) = server.registrations
      BY DEF Sound, Follows
    <2> HIDE DEF reply
    <2>4. CASE toClient' = toClient
      BY <2>1, <2>4, FollowsQuiet DEF Working
    <2>5. CASE toClient' = Append(toClient, reply) /\ reply \in ForClient
      BY <1>0, <1>c, <2>1, <2>3, <2>5, FollowsSent DEF Working
    <2> QED BY <2>2, <2>4, <2>5
  <1>14. CASE ServerAnswers
    <2>1. PICK m \in server.held, type \in {"result", "error", "retryable"} :
             /\ server' = [server EXCEPT !.held = @ \ {m}]
             /\ toClient' = Append(toClient,
                              [type |-> type, id |-> m.id, question |-> m.question])
      BY <1>14 DEF ServerAnswers
    <2> DEFINE reply == [type |-> type, id |-> m.id, question |-> m.question]
    <2>2. reply \in ForClient
      BY <1>0 DEF ServerType, Requests, ForClient
    <2>3. Sound(reply) /\ Follows(server.registrations, reply) = server.registrations
      BY DEF Sound, Follows
    <2>4. /\ UNCHANGED <<client, phase>> /\ server.alive
          /\ server'.registrations = server.registrations
      BY <1>0, <1>14, <2>1 DEF ServerAnswers, ServerType
    <2>5. toClient' = Append(toClient, reply)
      BY <2>1
    <2> HIDE DEF reply
    <2> QED BY <1>0, <1>c, <2>2, <2>3, <2>4, <2>5, FollowsSent DEF Working
  <1>15. CASE ServerCalls
    <2>1. UNCHANGED <<client, phase>> /\ server.alive
      BY <1>15 DEF ServerCalls
    <2>2. ASSUME NEW r \in Registrations, r \in Range(server.registrations),
                 toClient' = Append(toClient, [type |-> "unregister", id |-> r]),
                 server' = [server EXCEPT !.registrations = Remove(@, r)]
          PROVE  FollowInv'
      <3> DEFINE m == [type |-> "unregister", id |-> r]
      <3>1. m \in ForClient
        BY DEF ForClient
      <3>2. server'.registrations = Remove(server.registrations, r)
        BY <1>0, <2>2 DEF ServerType
      <3>3. Follows(server.registrations, m) = Remove(server.registrations, r)
        BY DEF Follows, Applied
      <3>4. toClient' = Append(toClient, m)
        BY <2>2
      <3> HIDE DEF m
      <3> QED BY <1>0, <1>c, <2>1, <3>1, <3>2, <3>3, <3>4, FollowsSent DEF Working
    <2>3. ASSUME NEW r \in Registrations, r \notin Range(server.registrations),
                 toClient' = Append(toClient, [type |-> "register", id |-> r]),
                 server' = [server EXCEPT !.registrations = Append(@, r)]
          PROVE  FollowInv'
      <3> DEFINE m == [type |-> "register", id |-> r]
      <3>1. m \in ForClient
        BY DEF ForClient
      <3>2. server'.registrations = Append(server.registrations, r)
        BY <1>0, <2>3 DEF ServerType
      <3>3. Follows(server.registrations, m) = Append(server.registrations, r)
        BY DEF Follows, Applied
      <3>4. toClient' = Append(toClient, m)
        BY <2>3
      <3> HIDE DEF m
      <3> QED BY <1>0, <1>c, <2>1, <3>1, <3>2, <3>3, <3>4, FollowsSent DEF Working
    <2>4. CASE toClient' = Append(toClient, [type |-> "notification"]) /\ UNCHANGED server
      <3> DEFINE m == [type |-> "notification"]
      <3>1. m \in ForClient
        BY DEF ForClient
      <3>2. Follows(server.registrations, m) = server.registrations
        BY DEF Follows
      <3>3. toClient' = Append(toClient, m)
        BY <2>4
      <3> HIDE DEF m
      <3> QED BY <1>0, <1>c, <2>1, <2>4, <3>1, <3>2, <3>3, FollowsSent DEF Working
    <2> QED BY <1>15, <2>2, <2>3, <2>4 DEF ServerCalls
  <1>16. CASE ServerBabbles
    <2> DEFINE m == [type |-> "malformed"]
    <2>1. UNCHANGED <<client, phase, server>> /\ server.alive
      BY <1>16 DEF ServerBabbles
    <2>2. m \in ForClient /\ ~ Sound(m) /\ toClient' = Append(toClient, m)
      BY <1>16 DEF ForClient, Sound, ServerBabbles
    <2> HIDE DEF m
    <2> QED BY <1>0, <1>c, <2>1, <2>2, FollowsSent DEF Working
  <1>17. CASE ServerDies \/ ServerKilled
    <2>1. ~ server'.alive /\ server'.registrations = server.registrations /\ phase' = phase
      BY <1>0, <1>17 DEF ServerDies, ServerKilled, Ended, ServerType
    <2> QED BY <2>1, FollowsQuiet DEF Working
  <1> QED BY <1>1, <1>2, <1>3, <1>4, <1>5, <1>6, <1>7, <1>8, <1>9, <1>10, <1>11, <1>12,
             <1>13, <1>14, <1>15, <1>16, <1>17 DEF Next, Stops, Handler, Server

-----------------------------------------------------------------------------
(***************************************************************************)
(* The theorems                                                            *)
(***************************************************************************)
IInv == TypeInv /\ CallsInv /\ MessagesInv /\ WorkInv /\ NoLostNotification /\ FollowInv

LEMMA Invariance == Spec => []IInv
  <1>1. Init => IInv
    BY TypeInit, CallsInit, MessagesInit, WorkInit, FollowsInit
       DEF IInv, NoLostNotification, Init, NewClient
  <1>2. IInv /\ [Next]_vars => IInv'
    BY TypeStep, CallsStep, MessagesStep, WorkStep, NotificationStep, FollowsStep DEF IInv
  <1> QED BY <1>1, <1>2, PTL DEF Spec

\* Every request that was given an identifier is in the map or recorded in the
\* statistics, never in both, and a caller waits exactly when the map has one
\* entry for it (request, settle and failPending).
THEOREM RequestsAreAccounted == Spec => []RequestsAccounted
  <1>1. IInv => RequestsAccounted
    BY AccountedFor DEF IInv
  <1> QED BY <1>1, Invariance, PTL

\* A caller is given the answer to what it asked last, whatever answers come
\* late, after a timeout, a retry or a new question (handleMessage).
THEOREM AnswersAreMatched == Spec => []AnswersMatch
  <1>1. IInv => AnswersMatch
    BY DEF IInv, MessagesInv
  <1> QED BY <1>1, Invariance, PTL

\* A connection that is broken or stopped leaves nobody to a timer
\* (breakConnection, the close of the process and the finally of stop).
THEOREM NobodyIsLeftWaiting == Spec => []NobodyWaitsInVain
  <1>1. IInv => NobodyWaitsInVain
    BY AccountedFor DEF IInv
  <1> QED BY <1>1, Invariance, PTL

\* While the connection is whole, the server works on what somebody waits for,
\* or the cancellation is on its way (the timer of request).
THEOREM WorkIsAlwaysAwaited == Spec => []WorkIsAwaited
  <1>1. IInv => WorkIsAwaited
    BY DEF IInv, WorkInv
  <1> QED BY <1>1, Invariance, PTL

\* Nobody waits for a notification that has been received
\* (waitForNotification and the handler of notifications).
THEOREM NotificationsAreNotLost == Spec => []NoLostNotification
  <1>1. IInv => NoLostNotification
    BY DEF IInv
  <1> QED BY <1>1, Invariance, PTL

\* With the messages on their way, the client knows the registrations of a
\* method that the server has made, in their order (handleServerRequest, #registrations).
THEOREM RegistrationsAreFollowed == Spec => []RegistrationsFollow
  <1>1. IInv => RegistrationsFollow
    BY DEF IInv, FollowInv
  <1> QED BY <1>1, Invariance, PTL
=============================================================================
