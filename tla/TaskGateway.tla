----------------------------- MODULE TaskGateway -----------------------------
(* A POST to /v1/tasks or /v1/tasks/{id}:cancel on its way through the     *)
(* HTTP gateway.  The gateway makes a gRPC call of the server's own port   *)
(* of it and, by the retry policy of Serve, another one when the first     *)
(* ends UNAVAILABLE: because the handler returned that code, or because    *)
(* the connection broke (keepalive) while the handler went on unheard.     *)
(* Every attempt runs CreateTask or CancelTask from the start, the plugin  *)
(* included.                                                               *)
EXTENDS TaskStates, Integers, FiniteSets

CONSTANTS
  MaxAttempts,  \* "maxAttempts" of the retry policy
  MaxBroken     \* connections that break

ASSUME GatewayAssumption == MaxAttempts \in Nat \ {0} /\ MaxBroken \in Nat

VARIABLES
  post,      \* what is asked: "create" or "cancel"
  plugin,    \* a plugin is configured
  quota,     \* [limit, default]: CPUs of the Kubernetes backend, in thousandths
  request,   \* the task in the body of the request
  attempt,   \* the attempt the gateway waits for
  at,        \* attempt -> where its handler is
  code,      \* attempt -> the code its handler returned
  body,      \* attempt -> the task it is about to create
  broken,    \* attempts whose connection broke
  stored,    \* attempt -> the task it stored
  submitted, \* attempts that handed their task to the backend
  target,    \* the state of the task to cancel
  told,      \* attempts that told the backend of a cancellation
  half,      \* attempts that stored CANCELED and then met an error
  bare,      \* attempts whose plugin said 200 without a configuration
  answer     \* the HTTP status, 0 before there is one

gatewayVars == <<post, plugin, quota, request, attempt, at, code, body, broken,
                 stored, submitted, target, told, half, bare, answer>>

Attempt == 1..MaxAttempts

(* A task asks for no CPUs, for two, or is refused by Validate.            *)
Bodies == {"none asked", "two asked", "invalid"}

NoBody == "no body"

(* parseCpus: a quantity in thousandths of a CPU, rounded up to whole      *)
(* ones.  An empty or unreadable quantity (-1) is 0 for both callers.      *)
parseCpus(q) == IF q <= 0 THEN 0 ELSE (q + 999) \div 1000

(* applyDefaults for a task that asks for none.                            *)
applyDefaults(b) == IF b = "two asked" THEN 2 ELSE parseCpus(quota.default)

GetResourceLimits == parseCpus(quota.limit)

(* ValidateResources: a limit of 0 is no limit.                            *)
ValidateResources(b) == ~(GetResourceLimits > 0 /\ applyDefaults(b) > GetResourceLimits)

FirstStage == IF plugin THEN "plugin" ELSE IF post = "create" THEN "check" ELSE "read"

GatewayStart ==
  /\ attempt = 1
  /\ at = [k \in Attempt |-> IF k = 1 THEN FirstStage ELSE "none"]
  /\ code = [k \in Attempt |-> "none"]
  /\ body = [k \in Attempt |-> IF k = 1 /\ post = "create" THEN request ELSE NoBody]
  /\ broken = {} /\ submitted = {} /\ told = {} /\ half = {} /\ bare = {}
  /\ stored = [k \in Attempt |-> NoBody]

GatewayInit ==
  /\ post \in {"create", "cancel"} /\ plugin \in BOOLEAN
  /\ quota \in IF post = "create" THEN [limit : {-1, 0, 500}, default : {0, 1500}]
               ELSE [limit : {0}, default : {0}]
  /\ request \in IF post = "create" THEN Bodies ELSE {NoBody}
  /\ target \in IF post = "cancel" THEN {"RUNNING", "COMPLETE", "UNKNOWN"} ELSE {"UNKNOWN"}
  /\ GatewayStart
  /\ answer = 0

(* The request was answered: there was no such task.                       *)
GatewayOver ==
  /\ post = "cancel" /\ plugin = FALSE /\ quota = [limit |-> 0, default |-> 0]
  /\ request = NoBody /\ target = "UNKNOWN" /\ GatewayStart /\ answer = 404

----------------------------------------------------------------------------
Stage(k, s) == at' = [at EXCEPT ![k] = s]

Returns(k, c) == Stage(k, "ended") /\ code' = [code EXCEPT ![k] = c]

Config == <<post, plugin, quota, request>>

Handling(k, s) ==
  /\ at[k] = s
  /\ UNCHANGED <<Config, attempt, broken, answer>>

(* GRPCCodeFromHTTPStatus, for the codes a plugin may send.                *)
GRPCCodeFromHTTPStatus(status) ==
  CASE status = 200 -> "OK"
    [] status = 401 -> "Unauthenticated"
    [] status = 503 -> "Unavailable"
    [] OTHER -> "Unknown"

(* DoPluginAction: the code in the plugin's response, 0 for a failed call. *)
PluginCode == {0, 200, 401, 500, 503}

(* What CreateTask and CancelTask return when the plugin did not agree:    *)
(* the error with the plugin's code in gRPC terms, if there is one.  The   *)
(* code OK makes it no error: the handler returns nothing at all.          *)
PluginErr(status) == IF status = 0 THEN "Unknown" ELSE GRPCCodeFromHTTPStatus(status)

(* HandleDoPluginAction.  Any code but 200 is an error, and so is 200      *)
(* without a configuration.  Otherwise the plugin may have put another     *)
(* task in place of the one it was asked about.                            *)
PluginAction(k) ==
  /\ Handling(k, "plugin")
  /\ \/ \E status \in PluginCode :
          /\ Returns(k, PluginErr(status))
          /\ bare' = IF status = 200 THEN bare \cup {k} ELSE bare
          /\ UNCHANGED body
     \/ /\ Stage(k, IF post = "create" THEN "check" ELSE "read")
        /\ \E b \in IF post = "create" THEN Bodies ELSE {NoBody} :
             body' = [body EXCEPT ![k] = b]
        /\ UNCHANGED <<code, bare>>
  /\ UNCHANGED <<stored, submitted, target, told, half>>

(* InitTask, CheckBackendParameterSupport and ValidateResources, which all *)
(* refuse with InvalidArgument.                                            *)
CheckTask(k) ==
  /\ Handling(k, "check")
  /\ IF body[k] # "invalid" /\ ValidateResources(body[k])
     THEN Stage(k, "write") /\ UNCHANGED code
     ELSE Returns(k, "InvalidArgument")
  /\ UNCHANGED <<body, stored, submitted, target, told, half, bare>>

(* The errors of event writers: those of Google's services are gRPC errors *)
(* with a code of their own, the others have none.                         *)
WriteErr == {"Unavailable", "Unknown"}

(* The code of the writer's error kept.                                    *)
CreateErrAsIs(e) == e

(* CreateTask words the error anew (%s), which leaves it without a code.   *)
CreateErrCode(e) == "Unknown"

(* MultiWriter: the database may have stored the task before another       *)
(* writer returned the error.  Without one the goroutine of CreateTask     *)
(* submits the task.  InitTask gave it a new id, so that every attempt     *)
(* that stores one stores another one.                                     *)
WriteCreated(k) ==
  /\ Handling(k, "write") /\ post = "create"
  /\ \E ok \in BOOLEAN, storing \in BOOLEAN, e \in WriteErr :
       /\ ok => storing
       /\ stored' = IF storing THEN [stored EXCEPT ![k] = body[k]] ELSE stored
       /\ submitted' = IF ok THEN submitted \cup {k} ELSE submitted
       /\ Returns(k, IF ok THEN "OK" ELSE CreateErrCode(e))
  /\ UNCHANGED <<body, target, told, half, bare>>

(* CancelTask reads the task; an error is returned as it is, and a task    *)
(* that has ended is left alone, with a message.                           *)
ReadTask(k) ==
  /\ Handling(k, "read")
  /\ \/ \E e \in WriteErr : Returns(k, e)
     \/ target = "UNKNOWN" /\ Returns(k, "NotFound")
     \/ target \in Terminal /\ Returns(k, "OK")
     \/ target \in Active /\ Stage(k, "write") /\ UNCHANGED code
  /\ UNCHANGED <<body, stored, submitted, target, told, half, bare>>

(* It writes CANCELED, and here too an error is returned as it is.         *)
WriteCanceled(k) ==
  /\ Handling(k, "write") /\ post = "cancel"
  /\ \/ \E e \in WriteErr : Returns(k, e) /\ UNCHANGED <<target, half>>
     \/ /\ target \in Active \cup {"CANCELED"} /\ target' = "CANCELED"
        /\ \/ Stage(k, "dispatch") /\ UNCHANGED <<code, half>>
           \/ \E e \in WriteErr : Returns(k, e) /\ half' = half \cup {k}
  /\ UNCHANGED <<body, stored, submitted, told, bare>>

(* The backend is told; what it returns is only logged.                    *)
Dispatch(k) ==
  /\ Handling(k, "dispatch")
  /\ told' = told \cup {k}
  /\ Returns(k, "OK")
  /\ UNCHANGED <<body, stored, submitted, target, half, bare>>

(* The worker of the task finishes.                                        *)
TargetEnds ==
  /\ answer = 0 /\ target = "RUNNING" /\ target' = "COMPLETE"
  /\ UNCHANGED <<Config, attempt, at, code, body, broken, stored, submitted, told,
                 half, bare, answer>>

----------------------------------------------------------------------------
(* customErrorHandler, for the codes above.                                *)
HTTPStatus(c) ==
  CASE c = "OK" -> 200
    [] c = "InvalidArgument" -> 400
    [] c = "Unauthenticated" -> 401
    [] c = "NotFound" -> 404
    [] OTHER -> 500

(* The retry policy: another attempt after Unavailable, up to maxAttempts, *)
(* the answer after anything else.                                         *)
Conclude(c) ==
  IF c = "Unavailable" /\ attempt < MaxAttempts
  THEN /\ attempt' = attempt + 1
       /\ Stage(attempt + 1, FirstStage)
       /\ body' = [body EXCEPT ![attempt + 1] = IF post = "create" THEN request ELSE NoBody]
       /\ UNCHANGED answer
  ELSE answer' = HTTPStatus(c) /\ UNCHANGED <<attempt, at, body>>

GatewayReceives ==
  /\ answer = 0 /\ at[attempt] = "ended"
  /\ Conclude(code[attempt])
  /\ UNCHANGED <<Config, code, broken, stored, submitted, target, told, half, bare>>

(* The connection to the handler breaks, which is Unavailable as well.     *)
ConnectionBreaks ==
  /\ answer = 0 /\ Cardinality(broken) < MaxBroken
  /\ broken' = broken \cup {attempt}
  /\ Conclude("Unavailable")
  /\ UNCHANGED <<Config, code, stored, submitted, target, told, half, bare>>

Handler(k) ==
  \/ PluginAction(k) \/ CheckTask(k) \/ WriteCreated(k)
  \/ ReadTask(k) \/ WriteCanceled(k) \/ Dispatch(k)

GatewayNext ==
  \/ \E k \in Attempt : Handler(k)
  \/ GatewayReceives \/ ConnectionBreaks \/ TargetEnds

GatewaySpec == GatewayInit /\ [][GatewayNext]_gatewayVars

----------------------------------------------------------------------------
Created == {k \in Attempt : stored[k] # NoBody}

(* A POST to /v1/tasks stores one task at most, and one more for each time *)
(* the connection broke under a handler at work: CreateTask hides the code *)
(* of a failed write, so that the retry policy never repeats what the      *)
(* database has done.  Answered 4xx it stored nothing else, answered 200   *)
(* the task it names is stored and submitted (unless the plugin said 200   *)
(* without a configuration, which is answered 200 with no task at all),    *)
(* and what is stored passed the checks as the plugin returned it.         *)
OneTaskPerPost ==
  /\ \A j, k \in Created \ broken : j = k
  /\ answer \in {400, 401, 404} => Created \subseteq broken
  /\ answer = 200 /\ post = "create" /\ attempt \notin bare =>
       attempt \in Created \cap submitted
  /\ \A k \in Created : stored[k] # "invalid" /\ ValidateResources(stored[k])

(* A cancellation that is answered 200 reached the backend, or is about to,*)
(* or the task had ended by itself.  The exceptions: the plugin said 200   *)
(* without a configuration; and an attempt stored CANCELED, a writer after *)
(* the database was Unavailable, and the next attempt found a task that    *)
(* has ended and needs no action.                                          *)
CancelIsTold ==
  answer = 200 /\ post = "cancel" =>
    \/ told # {} \/ \E k \in broken : at[k] = "dispatch"
    \/ target = "COMPLETE"
    \/ attempt \in bare \/ half # {}

(* What the answer to a POST says has happened to tasks and backend.       *)
AnswersAreTrue == OneTaskPerPost /\ CancelIsTold
=============================================================================
