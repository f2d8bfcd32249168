------------------------------ MODULE LspClient ------------------------------
(***************************************************************************)
(* The connection to the language server (packages/lsp-crawler/src/         *)
(* client.ts) and how crawlWorkspace uses it: start, requests of several    *)
(* workers with timeouts and retries, a wait for a notification, stop.      *)
(*                                                                         *)
(* An action is one callback of node: a message, a timer, the end of the    *)
(* server's process, or what a caller does between two awaits: the messages  *)
(* of one chunk are handled before a promise that they settle goes on.  The  *)
(* two pipes keep the order of messages; how their bytes are cut into       *)
(* messages is left out, except that a message may be malformed, and so are *)
(* the messages to which the server does not react: "initialized", replies. *)
(***************************************************************************)
EXTENDS Integers, FiniteSets, SequencesExt

CONSTANTS
    Workers,        \* callers of requestWithRetry
    Main,           \* crawlWorkspace itself: initialize and shutdown
    Nobody,         \* no caller
    Registrations,  \* ids of registrations of one method
    Attempts,       \* attempts of a request, 3 in the code
    MaxTraffic,     \* bound on requests of workers and messages that the server
                    \* sends of its own accord, together
    MaxFaults       \* bound on deaths, malformed messages, abandoned crawls

ASSUME LspClientAssumption ==
    /\ Main \notin Workers /\ Nobody \notin Workers \cup {Main}
    /\ Attempts \in Nat \ {0}
    /\ MaxTraffic \in Nat /\ MaxFaults \in Nat

Callers     == Workers \cup {Main}
MaxRequests == MaxTraffic + 2    \* initialize and shutdown
Ids         == 1..MaxRequests

VARIABLES
    client,    \* the fields of LspProcessClient
    call,      \* what each caller awaits
    phase,     \* where crawlWorkspace is: start, open, stop
    server,    \* the server's process and what it has to answer
    toServer,  \* its stdin
    toClient,  \* its stdout
    budget     \* what is left of the bounds

vars == <<client, call, phase, server, toServer, toClient, budget>>

NewClient == [connected |-> FALSE, fatal |-> FALSE, stopping |-> FALSE, nextId |-> 1,
              pending |-> [id \in Ids |-> Nobody], recorded |-> 0,
              registrations |-> <<>>, received |-> FALSE, waiter |-> "none"]

\* question counts what a caller has asked; answer is the question that the
\* value it was given is the answer to.
NewCall == [stage |-> "idle", attempt |-> 0, question |-> 0, answer |-> <<>>]

\* exitCode: the process has ended with a code, not by a signal.
NewServer == [alive |-> FALSE, exitCode |-> FALSE, closed |-> FALSE, killed |-> FALSE,
              held |-> {}, registrations |-> <<>>]

Pending == {id \in Ids : client.pending[id] # Nobody}
Asked(c) == <<c, call[c].question>>
Spend(what) == budget[what] > 0 /\ budget' = [budget EXCEPT ![what] = @ - 1]

\* A write to a process that has ended goes nowhere.
Sent(message) == IF server.alive THEN Append(toServer, message) ELSE toServer

-----------------------------------------------------------------------------
(***************************************************************************)
(* Requests                                                                *)
(***************************************************************************)
Rejected(c) == [call EXCEPT ![c].stage = "failed"]

\* asked: the caller's record, with the question and the attempt.
RequestAs(c, asked, id, refused) ==
    IF refused
      THEN call' = [call EXCEPT ![c] = [asked EXCEPT !.stage = "failed"]]
           /\ UNCHANGED <<client, toServer>>
      ELSE /\ client' = [client EXCEPT !.nextId = @ + 1, !.pending[id] = c]
           /\ call' = [call EXCEPT ![c] = [asked EXCEPT !.stage = "waiting"]]
           /\ toServer' = Sent([type |-> "request", id |-> id,
                                question |-> <<c, asked.question>>])

\* Mutant: the identifier of a request that was given up is used again.
RequestSmallestId(c, asked) ==
    RequestAs(c, asked, Cardinality(Pending) + 1, client.fatal \/ ~ client.connected)

\* Mutant: a request is made on a broken connection.
RequestOnBroken(c, asked) == RequestAs(c, asked, client.nextId, ~ client.connected)

Request(c, asked) ==
    RequestAs(c, asked, client.nextId, client.fatal \/ ~ client.connected)

\* The entry is removed and the request is recorded in the statistics.
Settled(id) == [client EXCEPT !.pending[id] = Nobody, !.recorded = @ + 1]

\* Mutant: what is rejected with the connection is not recorded.
FailedPendingUnrecorded(c) == [c EXCEPT !.pending = [id \in Ids |-> Nobody]]

\* failPending: every entry is recorded and rejected.
FailedPending(c) == [c EXCEPT !.pending = [id \in Ids |-> Nobody],
                              !.recorded = @ + Cardinality(Pending)]

AllRejected == [c \in Callers |->
    IF \E id \in Pending : client.pending[id] = c
      THEN [call[c] EXCEPT !.stage = "failed"] ELSE call[c]]

\* A worker asks its next question.
Ask(w) ==
    /\ phase = "open" /\ call[w].stage \notin {"waiting", "delay"}
    /\ Spend("traffic")
    /\ Request(w, [call[w] EXCEPT !.question = @ + 1, !.attempt = 1, !.answer = <<>>])
    /\ UNCHANGED <<phase, server, toClient>>

\* The worker may be one whose crawl was abandoned.
Retry(w) ==
    /\ call[w].stage = "delay"
    /\ Spend("traffic")
    /\ Request(w, [call[w] EXCEPT !.attempt = @ + 1])
    /\ UNCHANGED <<phase, server, toClient>>

\* Mutant: the server is not told.
TimeoutSilently(id) ==
    /\ id \in Pending
    /\ client' = Settled(id)
    /\ call' = Rejected(client.pending[id])
    /\ UNCHANGED <<toServer, phase, server, toClient, budget>>

\* Mutant: no timer is set for a request that is never answered.
NoTimeout(id) == FALSE

\* Only an error of the server is retried, never a timeout.
Timeout(id) ==
    /\ id \in Pending
    /\ toServer' = Sent([type |-> "cancel", id |-> id])
    /\ client' = Settled(id)
    /\ call' = Rejected(client.pending[id])
    /\ UNCHANGED <<phase, server, toClient, budget>>

-----------------------------------------------------------------------------
(***************************************************************************)
(* Messages of the server                                                  *)
(***************************************************************************)
Message == Head(toClient)

Readable == ~ server.closed /\ phase # "stopped" /\ toClient # <<>>

\* An answer that nobody waits for is dropped.  Retryable: one of the codes
\* of requestWithRetry, which initialize and shutdown do not use.
ResponseArrives ==
    /\ Readable /\ Message.type \in {"result", "error", "retryable"}
    /\ LET id == Message.id
           c  == client.pending[id]
           retried == /\ Message.type = "retryable" /\ c # Main
                      /\ call[c].attempt < Attempts
       IN  IF c = Nobody THEN UNCHANGED <<client, call>>
           ELSE /\ client' = Settled(id)
                /\ call' = [call EXCEPT
                      ![c].stage  = IF Message.type = "result" THEN "answered"
                                    ELSE IF retried THEN "delay" ELSE "failed",
                      ![c].answer = IF Message.type = "result"
                                      THEN Message.question ELSE @]
    /\ toClient' = Tail(toClient)
    /\ UNCHANGED <<phase, server, toServer, budget>>

\* Mutant: what is registered later comes first.
AppliedInFront(registrations, message) ==
    IF message.type = "register" THEN <<message.id>> \o registrations
    ELSE Remove(registrations, message.id)

\* What a request of the server makes of the registrations of a method.
Applied(registrations, message) ==
    IF message.type = "register" THEN Append(registrations, message.id)
    ELSE Remove(registrations, message.id)

\* Without a process the handler's promise is rejected, which nobody handles.
ServerRequestArrives ==
    /\ Readable /\ Message.type \in {"register", "unregister"}
    /\ client' = [client EXCEPT !.registrations = Applied(@, Message)]
    /\ toClient' = Tail(toClient)
    /\ UNCHANGED <<call, phase, server, toServer, budget>>

NotificationArrives ==
    /\ Readable /\ Message.type = "notification"
    /\ client' = [client EXCEPT !.received = TRUE,
                                !.waiter = IF @ = "waiting" THEN "received" ELSE @]
    /\ toClient' = Tail(toClient)
    /\ UNCHANGED <<call, phase, server, toServer, budget>>

\* Mutant: only a server that was asked to exit is killed.
KilledAfterExit == server.killed \/ (~ server.exitCode /\ phase = "exit")

\* Also when a signal has ended the process: exitCode stays null.
Killed == server.killed \/ ~ server.exitCode

\* breakConnection does nothing the second time.
Breaks ==
    IF client.fatal THEN UNCHANGED <<client, call, server>>
    ELSE /\ client' = [FailedPending(client) EXCEPT !.fatal = TRUE]
         /\ call' = AllRejected
         /\ server' = [server EXCEPT !.killed = Killed]

MalformedArrives ==
    /\ Readable /\ Message.type = "malformed"
    /\ Breaks
    /\ \E dropped \in 1..Len(toClient) :       \* with what followed in its chunk
          toClient' = SubSeq(toClient, dropped + 1, Len(toClient))
    /\ UNCHANGED <<phase, toServer, budget>>

\* "close": the process has ended and its output has been read.
Close ==
    /\ client.connected /\ ~ server.alive /\ ~ server.closed /\ toClient = <<>>
    /\ server' = [server EXCEPT !.closed = TRUE]
    /\ IF client.stopping \/ client.fatal
         THEN UNCHANGED <<client, call>>
         ELSE client' = [FailedPending(client) EXCEPT !.fatal = TRUE] /\ call' = AllRejected
    /\ UNCHANGED <<phase, toServer, toClient, budget>>

-----------------------------------------------------------------------------
(***************************************************************************)
(* crawlWorkspace: start, the work of the workers, stop                    *)
(***************************************************************************)
Start ==
    /\ phase = "new"
    /\ client' = [client EXCEPT !.connected = TRUE, !.nextId = 2, !.pending[1] = Main]
    /\ server' = [server EXCEPT !.alive = TRUE]
    /\ call' = [call EXCEPT ![Main].stage = "waiting", ![Main].question = 1]
    /\ toServer' = <<[type |-> "request", id |-> 1, question |-> <<Main, 1>>]>>
    /\ phase' = "starting"
    /\ UNCHANGED <<toClient, budget>>

Started ==
    /\ phase = "starting" /\ call[Main].stage \in {"answered", "failed"}
    /\ phase' = IF call[Main].stage = "answered" THEN "open" ELSE "failed"
    /\ UNCHANGED <<client, call, server, toServer, toClient, budget>>

\* Mutant: a notification that came before it is asked for is waited for.
WaitForNext ==
    /\ phase = "open" /\ client.waiter = "none"
    /\ client' = [client EXCEPT !.waiter = "waiting"]
    /\ UNCHANGED <<call, phase, server, toServer, toClient, budget>>

WaitForNotification ==
    /\ phase = "open" /\ client.waiter = "none"
    /\ client' = [client EXCEPT !.waiter = IF client.received THEN "received" ELSE "waiting"]
    /\ UNCHANGED <<call, phase, server, toServer, toClient, budget>>

WaitTimesOut ==
    /\ client.waiter = "waiting"
    /\ client' = [client EXCEPT !.waiter = "timeout"]
    /\ UNCHANGED <<call, phase, server, toServer, toClient, budget>>

\* The finally of stop.
Cleanup ==
    /\ server' = [server EXCEPT !.killed = Killed]
    /\ client' = [FailedPending(client) EXCEPT !.connected = FALSE, !.stopping = TRUE]
    /\ call' = AllRejected
    /\ phase' = "stopped"
    /\ toClient' = <<>>
    /\ UNCHANGED toServer

Busy == \E w \in Workers : call[w].stage \in {"waiting", "delay"}

\* The crawl is over, start has failed, or a rejection made the crawl fail
\* while other workers go on (mapConcurrentValues).
Stop ==
    /\ phase \in {"open", "failed"}
    /\ client.waiter # "waiting"
    /\ IF Busy THEN Spend("faults") ELSE UNCHANGED budget
    /\ IF server.exitCode \/ client.fatal
         THEN Cleanup
         ELSE /\ LET id == client.nextId IN
                 client' = [client EXCEPT !.stopping = TRUE, !.nextId = id + 1,
                                          !.pending[id] = Main]
              /\ call' = [call EXCEPT ![Main].stage = "waiting", ![Main].question = 2]
              /\ toServer' = Sent([type |-> "request", id |-> client.nextId,
                                   question |-> <<Main, 2>>])
              /\ phase' = "shutdown"
              /\ UNCHANGED <<server, toClient>>

ShutdownAnswered ==
    /\ phase = "shutdown" /\ call[Main].stage = "answered"
    /\ phase' = "exit"
    /\ toServer' = IF server.exitCode THEN toServer ELSE Sent([type |-> "exit"])
    /\ UNCHANGED <<client, call, server, toClient, budget>>

\* The request fails or two seconds pass.
ShutdownFails ==
    /\ phase = "shutdown" /\ call[Main].stage # "answered"
    /\ Cleanup
    /\ UNCHANGED budget

\* The server's output is closed, or two seconds pass.
ExitEnds ==
    /\ phase = "exit"
    /\ Cleanup
    /\ UNCHANGED budget

-----------------------------------------------------------------------------
(***************************************************************************)
(* The language server (external)                                          *)
(***************************************************************************)
ServerReads ==
    /\ server.alive /\ toServer # <<>>
    /\ LET message == Head(toServer) IN
       /\ server' = [server EXCEPT
            !.held  = CASE message.type = "request" -> @ \cup {message}
                        [] message.type = "cancel" -> {m \in @ : m.id # message.id}
                        [] OTHER -> @,
            !.alive = message.type # "exit",
            !.exitCode = message.type = "exit"]
       /\ toClient' = IF \E m \in server.held : message.type = "cancel" /\ m.id = message.id
                        THEN Append(toClient, [type |-> "retryable", id |-> message.id])
                        ELSE toClient
    /\ toServer' = IF Head(toServer).type = "exit" THEN <<>> ELSE Tail(toServer)
    /\ UNCHANGED <<client, call, phase, budget>>

ServerAnswers ==
    /\ server.alive
    /\ \E m \in server.held, type \in {"result", "error", "retryable"} :
          /\ server' = [server EXCEPT !.held = @ \ {m}]
          /\ toClient' = Append(toClient,
                [type |-> type, id |-> m.id, question |-> m.question])
    /\ UNCHANGED <<client, call, phase, toServer, budget>>

ServerCalls ==
    /\ server.alive /\ phase # "new"
    /\ Spend("traffic")
    /\ \/ \E r \in Registrations :
            IF r \in Range(server.registrations)
              THEN /\ toClient' = Append(toClient, [type |-> "unregister", id |-> r])
                   /\ server' = [server EXCEPT !.registrations = Remove(@, r)]
              ELSE /\ toClient' = Append(toClient, [type |-> "register", id |-> r])
                   /\ server' = [server EXCEPT !.registrations = Append(@, r)]
       \/ /\ toClient' = Append(toClient, [type |-> "notification"])
          /\ UNCHANGED server
    /\ UNCHANGED <<client, call, phase, toServer>>

ServerBabbles ==
    /\ server.alive /\ Spend("faults")
    /\ toClient' = Append(toClient, [type |-> "malformed"])
    /\ UNCHANGED <<client, call, phase, server, toServer>>

Ended(code) ==
    /\ server' = [server EXCEPT !.alive = FALSE, !.exitCode = code, !.held = {}]
    /\ toServer' = <<>>
    /\ UNCHANGED <<client, call, phase, toClient>>

ServerDies == server.alive /\ Spend("faults") /\ \E code \in BOOLEAN : Ended(code)

\* child.kill() sends SIGTERM.
ServerKilled == server.alive /\ server.killed /\ Ended(FALSE) /\ UNCHANGED budget

-----------------------------------------------------------------------------
Init ==
    /\ client = NewClient
    /\ call = [c \in Callers |-> NewCall]
    /\ phase = "new"
    /\ server = NewServer
    /\ toServer = <<>> /\ toClient = <<>>
    /\ budget = [traffic |-> MaxTraffic, faults |-> MaxFaults]

Handler ==
    \/ ResponseArrives \/ ServerRequestArrives \/ NotificationArrives \/ MalformedArrives
    \/ Close

Stops == Stop \/ ShutdownAnswered \/ ShutdownFails \/ ExitEnds

Server ==
    \/ ServerReads \/ ServerAnswers \/ ServerCalls \/ ServerBabbles
    \/ ServerDies \/ ServerKilled

Next ==
    \/ Start \/ Started \/ Stops
    \/ WaitForNotification \/ WaitTimesOut
    \/ \E w \in Workers : Ask(w) \/ Retry(w)
    \/ \E id \in Ids : Timeout(id)
    \/ Handler
    \/ Server

Spec == Init /\ [][Next]_vars

(***************************************************************************)
(* Fairness: timers fire, a chunk that has come is read, an operating       *)
(* system ends a process that is killed, and node continues what is settled.*)
(* The server itself need not answer anything.                              *)
(***************************************************************************)
Fairness ==
    /\ \A id \in Ids : WF_vars(Timeout(id))
    /\ WF_vars(Started)
    /\ WF_vars(ShutdownAnswered \/ ShutdownFails \/ ExitEnds)
    /\ WF_vars(ServerKilled)

FairSpec == Spec /\ Fairness

-----------------------------------------------------------------------------
(***************************************************************************)
(* Properties                                                              *)
(***************************************************************************)
\* Every request is in the map or recorded in the statistics, never in both,
\* and the map has one entry for each caller that waits.
RequestsAccounted ==
    /\ client.recorded + Cardinality(Pending) = client.nextId - 1
    /\ \A c \in Callers :
          Cardinality({id \in Pending : client.pending[id] = c})
             = IF call[c].stage = "waiting" THEN 1 ELSE 0

\* However late answers come, and after any retries and timeouts, a caller is
\* given the answer to what it asked last.
AnswersMatch ==
    \A c \in Callers : call[c].stage = "answered" => call[c].answer = Asked(c)

\* When the connection is broken or stopped, nobody is left to a timer.
NobodyWaitsInVain ==
    client.fatal \/ phase = "stopped" =>
        Pending = {} /\ \A c \in Callers : call[c].stage # "waiting"

\* While the connection is whole, the server works on what somebody waits for,
\* or its cancellation is on the way.
Cancelled(id) == \E i \in DOMAIN toServer : toServer[i] = [type |-> "cancel", id |-> id]

WorkIsAwaited ==
    server.alive /\ ~ client.fatal /\ client.connected =>
        \A m \in server.held : m.id \in Pending \/ Cancelled(m.id)

\* The registrations of a client that has handled one more message, and those of
\* a client that has handled all that are on their way.
Follows(registrations, message) ==
    IF message.type \in {"register", "unregister"}
      THEN Applied(registrations, message) ELSE registrations

Told(registrations, messages) == FoldLeft(Follows, registrations, messages)

\* With the messages on their way, the client's registrations of a method are
\* those of the server, in the same order (the last one that matches counts).
RegistrationsFollow ==
    server.alive /\ ~ client.fatal /\ client.connected
      /\ (\A i \in DOMAIN toClient : toClient[i].type # "malformed") =>
        Told(client.registrations, toClient) = server.registrations

\* Nobody waits for a notification that has been received.
NoLostNotification == ~ (client.waiter = "waiting" /\ client.received)

\* Whatever the server does, a request is settled.
RequestsSettle ==
    \A c \in Callers : (call[c].stage = "waiting") ~> (call[c].stage # "waiting")

\* Once it has been called, stop ends, and so does the server.
StopEnds == client.stopping ~> (phase = "stopped" /\ ~ server.alive)
=============================================================================
