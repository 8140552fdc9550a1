-------------------------- MODULE SubmissionProofs --------------------------
(***************************************************************************)
(* Proofs about submissions.  TaskGateway, for any number of attempts and  *)
(* of broken connections: what the answer to a POST says.  TaskClient, for *)
(* any tasks and any number of requests without an answer: the commands    *)
(* that create, await and cancel tasks.  KubernetesBackend, for any number *)
(* of tasks, cancels, restarts and refused calls: the reconcile loop       *)
(* spares the jobs that have a worker.  WorkerAccount, for any number of   *)
(* tasks and restarts: the account that the workers share.                 *)
(***************************************************************************)
EXTENDS TaskGateway, TaskClient, KubernetesBackend, WorkerAccount, TLAPS

(* The provers to try on a step in turn, with the seconds each may take.   *)
USE ZenonT(5), SMTT(20), ZenonT(20), SMTT(40), SMTT(60)

-----------------------------------------------------------------------------
(* What the answer to a POST says.                                         *)

(* Where a handler may be.                                                 *)
Stages == {"none", "plugin", "check", "read", "write", "dispatch", "ended"}

(* What it may have returned.                                              *)
Codes == {"none", "OK", "Unknown", "Unavailable", "Unauthenticated", "InvalidArgument", "NotFound"}

(* The types of the variables that the argument reads.                     *)
GatewayType ==
  /\ post \in {"create", "cancel"} /\ plugin \in BOOLEAN
  /\ post = "create" => request \in Bodies
  /\ attempt \in Attempt
  /\ at \in [Attempt -> Stages]
  /\ code \in [Attempt -> Codes]
  /\ body \in [Attempt -> Bodies \cup {NoBody}]
  /\ stored \in [Attempt -> Bodies \cup {NoBody}]
  /\ broken \in SUBSET Attempt /\ submitted \in SUBSET Attempt
  /\ target \in {"RUNNING", "COMPLETE", "UNKNOWN", "CANCELED"}

(* Attempts are made in order, each one because the one before ended       *)
(* UNAVAILABLE or was lost.                                                *)
InOrder ==
  \A k \in Attempt :
    /\ k > attempt => at[k] = "none" /\ k \notin broken
    /\ k < attempt => k \in broken \/ (at[k] = "ended" /\ code[k] = "Unavailable")

(* A handler at work on a creation has a task, a checked one when it       *)
(* writes it.                                                              *)
Checked ==
  \A k \in Attempt : post = "create" =>
    /\ at[k] \notin {"read", "dispatch"}
    /\ at[k] \in {"plugin", "check", "write"} => body[k] \in Bodies
    /\ at[k] = "write" => body[k] # "invalid" /\ ValidateResources(body[k])

(* A handler that stored a task has returned, never with UNAVAILABLE.      *)
StoredOnce ==
  \A k \in Attempt : stored[k] # NoBody =>
    /\ at[k] = "ended" /\ code[k] \in {"OK", "Unknown"}
    /\ stored[k] # "invalid" /\ ValidateResources(stored[k])

(* ... and one that returned no error has stored and submitted it.         *)
OkIsStored ==
  \A k \in Attempt : post = "create" /\ at[k] = "ended" /\ code[k] = "OK" =>
    k \in bare \/ (stored[k] # NoBody /\ k \in submitted)

(* The answer is that of the last attempt, or says that it was lost.       *)
AnswerOfLast ==
  IF answer = 0 THEN attempt \notin broken
  ELSE \/ attempt \in broken /\ answer = 500
       \/ at[attempt] = "ended" /\ answer = HTTPStatus(code[attempt])

(* The cancellation of the task reached the backend or is on its way.      *)
OnItsWay == told # {} \/ half # {} \/ \E k \in Attempt : at[k] = "dispatch"

(* The cancellation reached the backend, or a handler that the gateway no  *)
(* longer hears is about to tell it.                                       *)
Reached == told # {} \/ half # {} \/ \E k \in broken : at[k] = "dispatch"

(* CANCELED is stored by a handler that then tells the backend, and only   *)
(* a lost one does so beside the attempt the gateway waits for.            *)
CancelReached ==
  /\ post = "cancel" /\ target = "CANCELED" => OnItsWay
  /\ post = "cancel" /\ at[attempt] = "ended" /\ code[attempt] = "OK" =>
       Reached \/ target = "COMPLETE" \/ attempt \in bare

(* The inductive invariant.                                                *)
GatewayInv ==
  /\ GatewayType /\ InOrder /\ Checked /\ StoredOnce /\ OkIsStored
  /\ AnswerOfLast /\ CancelReached

(* The limits are configuration.                                           *)
LEMMA QuotaStays ==
  ASSUME quota' = quota, NEW b
  PROVE  ValidateResources(b)' <=> ValidateResources(b)
BY DEF ValidateResources, GetResourceLimits, applyDefaults

(* The codes that 200 and the client errors come from.                     *)
LEMMA StatusCodes ==
  ASSUME NEW c \in Codes
  PROVE  /\ HTTPStatus(c) # 0
         /\ HTTPStatus(c) = 200 => c = "OK"
         /\ HTTPStatus(c) \in {400, 401, 404} => c \notin {"OK", "Unknown"}
BY DEF Codes, HTTPStatus

(* The invariant gives the property.                                       *)
LEMMA InvAnswers ==
  ASSUME GatewayInv
  PROVE  AnswersAreTrue
<1>1. attempt \in Attempt /\ attempt \in Nat
  BY GatewayAssumption DEF GatewayInv, GatewayType, Attempt
<1>2. ASSUME NEW k \in Attempt, stored[k] # NoBody, k \notin broken
      PROVE  k = attempt
  <2>1. ~(k > attempt) /\ ~(k < attempt)
    BY <1>2 DEF GatewayInv, InOrder, StoredOnce
  <2>2. QED
    BY <1>1, <2>1, GatewayAssumption DEF Attempt
<1>3. \A j, k \in Created \ broken : j = k
  BY <1>2 DEF Created
<1>4. code[attempt] \in Codes
  BY <1>1 DEF GatewayInv, GatewayType
<1>5. answer \in {400, 401, 404} => Created \subseteq broken
  <2> SUFFICES ASSUME answer \in {400, 401, 404}, NEW k \in Created, k \notin broken
               PROVE  FALSE
    OBVIOUS
  <2>1. k = attempt /\ code[k] \in {"OK", "Unknown"}
    BY <1>2 DEF Created, GatewayInv, StoredOnce
  <2>2. answer = HTTPStatus(code[attempt])
    BY DEF GatewayInv, AnswerOfLast
  <2>3. QED
    BY <1>4, <2>1, <2>2, StatusCodes
<1>6. answer = 200 => at[attempt] = "ended" /\ code[attempt] = "OK"
  <2>1. answer = 200 => at[attempt] = "ended" /\ answer = HTTPStatus(code[attempt])
    BY DEF GatewayInv, AnswerOfLast
  <2>2. QED
    BY <1>4, <2>1, StatusCodes
<1>7. answer = 200 /\ post = "create" /\ attempt \notin bare => attempt \in Created \cap submitted
  BY <1>1, <1>6 DEF GatewayInv, OkIsStored, Created
<1>8. \A k \in Created : stored[k] # "invalid" /\ ValidateResources(stored[k])
  BY DEF Created, GatewayInv, StoredOnce
<1>9. CancelIsTold
  BY <1>6 DEF CancelIsTold, GatewayInv, CancelReached, Reached
<1>10. QED
  BY <1>3, <1>5, <1>7, <1>8, <1>9 DEF AnswersAreTrue, OneTaskPerPost

(* It holds before the request.                                            *)
LEMMA GatewayInitInv == GatewayInit => GatewayInv
<1> SUFFICES ASSUME GatewayInit PROVE GatewayInv
  OBVIOUS
<1> USE GatewayAssumption DEF GatewayInit, GatewayStart
<1>1. 1 \in Attempt /\ attempt = 1
  BY DEF Attempt
<1>2. GatewayType
  <2>1. /\ post \in {"create", "cancel"} /\ plugin \in BOOLEAN
        /\ target \in {"RUNNING", "COMPLETE", "UNKNOWN", "CANCELED"}
        /\ post = "create" => request \in Bodies
    OBVIOUS
  <2>2. FirstStage \in Stages
    BY DEF FirstStage, Stages
  <2>3. at \in [Attempt -> Stages] /\ code \in [Attempt -> Codes]
    BY <2>2 DEF Stages, Codes
  <2>4. body \in [Attempt -> Bodies \cup {NoBody}] /\ stored \in [Attempt -> Bodies \cup {NoBody}]
    BY <2>1
  <2>5. QED
    BY <1>1, <2>1, <2>3, <2>4 DEF GatewayType
<1>3. InOrder
  BY <1>1 DEF InOrder, Attempt
<1>4. Checked
  BY DEF Checked, FirstStage
<1>5. StoredOnce /\ OkIsStored /\ AnswerOfLast
  BY DEF StoredOnce, OkIsStored, AnswerOfLast
<1>6. CancelReached
  BY <1>1 DEF CancelReached, FirstStage
<1>7. QED
  BY <1>2, <1>3, <1>4, <1>5, <1>6 DEF GatewayInv

(* What every stage of a handler has in common: the handler is of an       *)
(* attempt that was made, and only its own stage and code change.          *)
LEMMA HandlerMoves ==
  ASSUME GatewayInv, NEW k \in Attempt, Handler(k)
  PROVE  /\ at[k] \notin {"none", "ended"} /\ stored[k] = NoBody
         /\ at' \in [Attempt -> Stages] /\ code' \in [Attempt -> Codes]
         /\ \A j \in Attempt : j # k => at'[j] = at[j] /\ code'[j] = code[j]
         /\ UNCHANGED <<Config, attempt, broken, answer>>
<1> USE DEF Handling, Stage, Returns, GatewayInv, GatewayType
<1>1. at[k] \notin {"none", "ended"} /\ UNCHANGED <<Config, attempt, broken, answer>>
  BY DEF Handler, PluginAction, CheckTask, WriteCreated, ReadTask, WriteCanceled, Dispatch
<1>2. stored[k] = NoBody
  BY <1>1 DEF StoredOnce
<1>3. \E s \in Stages : at' = [at EXCEPT ![k] = s]
  BY DEF Handler, PluginAction, CheckTask, WriteCreated, ReadTask, WriteCanceled, Dispatch, Stages
<1>4. UNCHANGED code \/ \E c \in Codes : code' = [code EXCEPT ![k] = c]
  <2>1. CASE PluginAction(k)
    BY <2>1 DEF PluginAction, PluginErr, PluginCode, GRPCCodeFromHTTPStatus, Codes
  <2>2. CASE WriteCreated(k)
    BY <2>2 DEF WriteCreated, CreateErrCode, Codes
  <2>3. QED
    BY <2>1, <2>2 DEF Handler, CheckTask, ReadTask, WriteCanceled, Dispatch, WriteErr, Codes
<1>5. QED
  BY <1>1, <1>2, <1>3, <1>4

(* A handler keeps the order of the attempts and the answer.               *)
LEMMA HandlerOrder ==
  ASSUME GatewayInv, NEW k \in Attempt, Handler(k)
  PROVE  InOrder' /\ AnswerOfLast'
<1>1. at[k] \notin {"none", "ended"} /\ UNCHANGED <<attempt, broken, answer>>
  BY HandlerMoves
<1>2. \A j \in Attempt : j # k => at'[j] = at[j] /\ code'[j] = code[j]
  BY HandlerMoves
<1>3. InOrder'
  BY <1>1, <1>2 DEF GatewayInv, InOrder
<1>4. AnswerOfLast'
  <2>1. attempt \in Attempt
    BY DEF GatewayInv, GatewayType
  <2>2. QED
    BY <1>1, <1>2, <2>1 DEF GatewayInv, AnswerOfLast, HTTPStatus
<1>5. QED
  BY <1>3, <1>4

(* What a handler does to the tasks it works on.                           *)
LEMMA HandlerTasks ==
  ASSUME GatewayInv, NEW k \in Attempt, Handler(k)
  PROVE  /\ GatewayType' /\ Checked'
         /\ StoredOnce' /\ OkIsStored'
<1> USE DEF Handling, Stage, Returns
<1>1. /\ at[k] \notin {"none", "ended"} /\ stored[k] = NoBody
      /\ at' \in [Attempt -> Stages] /\ code' \in [Attempt -> Codes]
      /\ UNCHANGED <<post, plugin, quota, request, attempt, broken, answer>>
  BY HandlerMoves DEF Config
<1>2. \A j \in Attempt : j # k => at'[j] = at[j] /\ code'[j] = code[j]
  BY HandlerMoves
<1>3. \A b : ValidateResources(b)' <=> ValidateResources(b)
  BY <1>1, QuotaStays
<1>4. ASSUME PluginAction(k) PROVE GatewayType' /\ Checked' /\ StoredOnce' /\ OkIsStored'
  <2> USE <1>4 DEF PluginAction, GatewayInv
  <2>1. \E b \in Bodies \cup {NoBody} : body' = body \/ body' = [body EXCEPT ![k] = b]
    OBVIOUS
  <2>2. UNCHANGED <<stored, submitted, target>>
    OBVIOUS
  <2>3. GatewayType'
    BY <1>1, <2>1, <2>2 DEF GatewayType
  <2>4. Checked'
    <3>1. post = "create" => at'[k] \in {"ended", "check"} /\ (at'[k] = "check" => body'[k] \in Bodies)
      BY <1>1 DEF GatewayType
    <3>2. \A j \in Attempt : j # k => body'[j] = body[j]
      BY <2>1 DEF GatewayType
    <3>3. QED
      BY <1>1, <1>2, <1>3, <3>1, <3>2 DEF Checked
  <2>5. StoredOnce'
    BY <1>1, <1>2, <1>3, <2>2 DEF StoredOnce
  <2>6. at'[k] = "ended" /\ code'[k] = "OK" => k \in bare'
    BY <1>1 DEF PluginErr, PluginCode, GRPCCodeFromHTTPStatus, GatewayType
  <2>7. OkIsStored'
    <3>1. bare \subseteq bare'
      OBVIOUS
    <3>2. OkIsStored
      OBVIOUS
    <3> HIDE <1>4 DEF PluginAction
    <3>3. QED
      BY <1>1, <1>2, <2>2, <2>6, <3>1, <3>2 DEF OkIsStored
  <2>8. QED
    BY <2>3, <2>4, <2>5, <2>7
<1>5. ASSUME CheckTask(k) PROVE GatewayType' /\ Checked' /\ StoredOnce' /\ OkIsStored'
  <2> USE <1>5 DEF CheckTask, GatewayInv
  <2>1. GatewayType'
    BY <1>1 DEF GatewayType
  <2>2. Checked'
    <3>1. \/ at'[k] = "ended"
          \/ at'[k] = "write" /\ body[k] # "invalid" /\ ValidateResources(body[k])
      BY DEF GatewayType
    <3>2. post = "create" => body[k] \in Bodies
      BY DEF Checked
    <3>3. QED
      BY <1>1, <1>2, <1>3, <3>1, <3>2 DEF Checked
  <2>3. StoredOnce'
    BY <1>1, <1>2, <1>3 DEF StoredOnce
  <2>4. ~(at'[k] = "ended" /\ code'[k] = "OK")
    BY DEF GatewayType
  <2>5. OkIsStored'
    BY <1>1, <1>2, <2>4 DEF OkIsStored
  <2>6. QED
    BY <2>1, <2>2, <2>3, <2>5
<1>6. ASSUME WriteCreated(k) PROVE GatewayType' /\ Checked' /\ StoredOnce' /\ OkIsStored'
  <2> USE <1>6 DEF WriteCreated, GatewayInv
  <2>1. /\ post = "create" /\ UNCHANGED <<body, target, bare>>
        /\ body[k] \in Bodies /\ body[k] # "invalid" /\ ValidateResources(body[k])
    BY DEF Checked
  <2>2. /\ stored' = stored \/ stored' = [stored EXCEPT ![k] = body[k]]
        /\ submitted' = submitted \/ submitted' = submitted \cup {k}
    OBVIOUS
  <2>3. /\ at'[k] = "ended" /\ code'[k] \in {"OK", "Unknown"}
        /\ code'[k] = "OK" => stored' = [stored EXCEPT ![k] = body[k]] /\ k \in submitted'
    BY DEF GatewayType, CreateErrCode
  <2>4. GatewayType'
    BY <1>1, <2>1, <2>2 DEF GatewayType
  <2>5. Checked'
    BY <1>1, <1>2, <1>3, <2>1, <2>3 DEF Checked
  <2>6. stored[k] = NoBody /\ \A j \in Attempt : j # k => stored'[j] = stored[j]
    BY <1>1, <2>2 DEF GatewayType
  <2>7. stored'[k] \in {NoBody, body[k]} /\ (code'[k] = "OK" => stored'[k] = body[k])
    BY <2>2, <2>3, <2>6 DEF GatewayType
  <2>8. StoredOnce'
    BY <1>2, <1>3, <2>1, <2>3, <2>6, <2>7 DEF StoredOnce
  <2>9. OkIsStored'
    <3>1. body[k] # NoBody
      BY <2>1 DEF Bodies, NoBody
    <3>2. QED
      BY <1>1, <1>2, <2>1, <2>2, <2>3, <2>6, <2>7, <3>1 DEF OkIsStored
  <2>10. QED
    BY <2>4, <2>5, <2>8, <2>9
<1>7. ASSUME ReadTask(k) \/ WriteCanceled(k) \/ Dispatch(k)
      PROVE  GatewayType' /\ Checked' /\ StoredOnce' /\ OkIsStored'
  <2> USE DEF GatewayInv
  <2>1. at[k] \in {"read", "dispatch"} \/ post = "cancel"
    BY <1>7 DEF ReadTask, WriteCanceled, Dispatch
  <2>2. post = "cancel"
    BY <2>1 DEF Checked, GatewayType
  <2>3. UNCHANGED <<body, stored, submitted, bare>> /\ target' \in {target, "CANCELED"}
    BY <1>7 DEF ReadTask, WriteCanceled, Dispatch
  <2>4. GatewayType'
    BY <1>1, <2>3 DEF GatewayType
  <2>5. Checked' /\ OkIsStored'
    BY <1>1, <2>2 DEF Checked, OkIsStored
  <2>6. StoredOnce'
    BY <1>1, <1>2, <1>3, <2>3 DEF StoredOnce
  <2>7. QED
    BY <2>4, <2>5, <2>6
<1>8. QED
  BY <1>4, <1>5, <1>6, <1>7 DEF Handler

(* A handler and the cancellation: a task found CANCELED was canceled by   *)
(* an attempt before, whose handler is at work unheard.                    *)
LEMMA HandlerCancel ==
  ASSUME GatewayInv, NEW k \in Attempt, Handler(k)
  PROVE  CancelReached'
<1> USE DEF Handling, Stage, Returns
<1>1. /\ at[k] \notin {"none", "ended"} /\ UNCHANGED <<post, attempt, broken>>
      /\ \A j \in Attempt : j # k => at'[j] = at[j] /\ code'[j] = code[j]
  BY HandlerMoves DEF Config
<1>2. attempt \in Attempt /\ attempt \in Nat /\ broken \subseteq Attempt
  BY GatewayAssumption DEF GatewayInv, GatewayType, Attempt
<1>3. /\ told \subseteq told' /\ half \subseteq half' /\ bare \subseteq bare'
      /\ target = "COMPLETE" => target' = "COMPLETE"
  BY DEF Handler, PluginAction, CheckTask, WriteCreated, ReadTask, WriteCanceled, Dispatch, Active
<1>4. at[k] = "dispatch" => told' # {}
  BY DEF Handler, PluginAction, CheckTask, WriteCreated, ReadTask, WriteCanceled, Dispatch
<1>5. /\ OnItsWay => OnItsWay'
      /\ Reached => Reached'
  BY <1>1, <1>2, <1>3, <1>4 DEF OnItsWay, Reached
<1>6. target' = "CANCELED" => target = "CANCELED" \/ half' # {} \/ at'[k] = "dispatch"
  BY DEF Handler, PluginAction, CheckTask, WriteCreated, ReadTask, WriteCanceled, Dispatch,
         GatewayInv, GatewayType
<1>7. post = "cancel" /\ target' = "CANCELED" => OnItsWay'
  BY <1>5, <1>6 DEF GatewayInv, CancelReached, OnItsWay
<1>8. ASSUME post = "cancel", at'[attempt] = "ended", code'[attempt] = "OK"
      PROVE  Reached' \/ target' = "COMPLETE" \/ attempt \in bare'
  <2>1. CASE attempt # k
    BY <1>1, <1>2, <1>3, <1>5, <1>8, <2>1 DEF GatewayInv, CancelReached
  <2>2. CASE attempt = k
    <3>1. CASE PluginAction(k)
      BY <1>8, <2>2, <3>1 DEF PluginAction, PluginErr, PluginCode, GRPCCodeFromHTTPStatus,
                              GatewayInv, GatewayType
    <3>2. CASE CheckTask(k)
      BY <1>8, <2>2, <3>2 DEF CheckTask, GatewayInv, GatewayType
    <3>3. CASE WriteCreated(k)
      BY <1>8, <3>3 DEF WriteCreated
    <3>4. CASE WriteCanceled(k)
      BY <1>8, <2>2, <3>4 DEF WriteCanceled, WriteErr, GatewayInv, GatewayType
    <3>5. CASE Dispatch(k)
      BY <3>5 DEF Dispatch, Reached
    <3>6. CASE ReadTask(k)
      <4>1. target \in Terminal
        BY <1>8, <2>2, <3>6 DEF ReadTask, WriteErr, GatewayInv, GatewayType
      <4>2. target \in {"COMPLETE", "CANCELED"}
        BY <4>1 DEF Terminal, GatewayInv, GatewayType
      <4>3. ASSUME target = "CANCELED" PROVE Reached
        <5>1. OnItsWay
          BY <1>8, <4>3 DEF GatewayInv, CancelReached
        <5>2. ASSUME NEW j \in Attempt, at[j] = "dispatch" PROVE j \in broken
          <6>1. j # attempt
            BY <2>2, <3>6, <5>2 DEF ReadTask
          <6>2. ~(j > attempt)
            BY <5>2 DEF GatewayInv, InOrder
          <6>3. j < attempt
            BY <1>2, <6>1, <6>2, GatewayAssumption DEF Attempt
          <6>4. QED
            BY <5>2, <6>3 DEF GatewayInv, InOrder
        <5>3. QED
          BY <5>1, <5>2 DEF OnItsWay, Reached
      <4>4. QED
        BY <1>3, <1>5, <4>2, <4>3
    <3>7. QED
      BY <3>1, <3>2, <3>3, <3>4, <3>5, <3>6 DEF Handler
  <2>3. QED
    BY <2>1, <2>2
<1>9. QED
  BY <1>1, <1>7, <1>8 DEF CancelReached

(* The gateway goes on to the next attempt, or answers.                    *)
LEMMA GatewayMoves ==
  ASSUME GatewayInv, NEW c \in Codes, Conclude(c), answer = 0,
         broken' = IF attempt \in broken' THEN broken \cup {attempt} ELSE broken,
         attempt \in broken' => c = "Unavailable",
         attempt \notin broken' => at[attempt] = "ended" /\ code[attempt] = c,
         UNCHANGED <<Config, code, stored, submitted, target, told, half, bare>>
  PROVE  GatewayInv'
<1> USE DEF GatewayInv
<1>1. attempt \in Attempt /\ attempt \in Nat /\ attempt \notin broken
  BY GatewayAssumption DEF GatewayType, AnswerOfLast, Attempt
<1>2. \A b : ValidateResources(b)' <=> ValidateResources(b)
  BY QuotaStays DEF Config
<1>3. CASE c = "Unavailable" /\ attempt < MaxAttempts
  <2> DEFINE n == attempt + 1
  <2>1. /\ attempt' = n /\ at' = [at EXCEPT ![n] = FirstStage] /\ answer' = 0
        /\ body' = [body EXCEPT ![n] = IF post = "create" THEN request ELSE NoBody]
    BY <1>3 DEF Conclude, Stage
  <2>2. n \in Attempt /\ n # attempt /\ n > attempt
    BY <1>1, <1>3, GatewayAssumption DEF Attempt
  <2>3. at[n] = "none" /\ stored[n] = NoBody
    BY <2>2 DEF InOrder, StoredOnce
  <2> HIDE DEF n
  <2>4. FirstStage \in {"plugin", "check", "read"} /\ (post = "create" => FirstStage # "read")
    BY DEF FirstStage
  <2>5. \A j \in Attempt : at'[j] = IF j = n THEN FirstStage ELSE at[j]
    BY <2>1, <2>2 DEF GatewayType
  <2>6. \A j \in Attempt : j # n => body'[j] = body[j]
    BY <2>1, <2>2 DEF GatewayType
  <2>7. GatewayType'
    <3>1. at' \in [Attempt -> Stages]
      BY <2>1, <2>4 DEF GatewayType, Stages
    <3>2. body' \in [Attempt -> Bodies \cup {NoBody}]
      BY <2>1 DEF GatewayType
    <3>3. QED
      BY <1>1, <2>1, <2>2, <3>1, <3>2 DEF GatewayType, Config
  <2>8. n \notin broken'
    BY <1>1, <2>2 DEF InOrder
  <2>9. InOrder'
    <3> SUFFICES ASSUME NEW j \in Attempt
                 PROVE  /\ j > n => at'[j] = "none" /\ j \notin broken'
                        /\ j < n => j \in broken' \/ (at'[j] = "ended" /\ code'[j] = "Unavailable")
      BY <2>1 DEF InOrder
    <3>1. j \in Nat /\ (j > n => j > attempt /\ j # n) /\ (j < n => j <= attempt /\ j # n)
      BY <1>1, GatewayAssumption DEF n, Attempt
    <3>2. j > n => at'[j] = "none" /\ j \notin broken'
      BY <1>1, <2>5, <3>1 DEF InOrder
    <3>3. j = attempt => j \in broken' \/ (at'[j] = "ended" /\ code'[j] = "Unavailable")
      BY <1>3, <2>2, <2>5
    <3>4. j < attempt /\ j # n => j \in broken' \/ (at'[j] = "ended" /\ code'[j] = "Unavailable")
      BY <2>5 DEF InOrder
    <3>5. j < n => j = attempt \/ (j < attempt /\ j # n)
      BY <1>1, <3>1
    <3>6. QED
      BY <3>2, <3>3, <3>4, <3>5
  <2>10. Checked'
    BY <1>2, <2>1, <2>2, <2>4, <2>5, <2>6 DEF Checked, GatewayType, Config
  <2>11. StoredOnce' /\ OkIsStored'
    BY <1>2, <2>3, <2>4, <2>5 DEF StoredOnce, OkIsStored, Config
  <2>12. AnswerOfLast'
    BY <2>1, <2>8 DEF AnswerOfLast
  <2>13. CancelReached'
    <3>1. at'[n] # "ended"
      BY <2>2, <2>4, <2>5
    <3>2. OnItsWay => OnItsWay'
      BY <2>3, <2>5 DEF OnItsWay
    <3>3. QED
      BY <2>1, <3>1, <3>2 DEF CancelReached, Config
  <2>14. QED
    BY <2>7, <2>9, <2>10, <2>11, <2>12, <2>13
<1>4. CASE ~(c = "Unavailable" /\ attempt < MaxAttempts)
  <2>1. answer' = HTTPStatus(c) /\ UNCHANGED <<attempt, at, body>>
    BY <1>4 DEF Conclude
  <2>2. GatewayType' /\ InOrder' /\ Checked' /\ StoredOnce' /\ OkIsStored'
    BY <1>1, <1>2, <2>1 DEF GatewayType, InOrder, Checked, StoredOnce, OkIsStored, Config
  <2>3. AnswerOfLast'
    <3>1. answer' # 0
      BY <2>1, StatusCodes
    <3>2. attempt \in broken' => answer' = 500
      BY <2>1 DEF HTTPStatus
    <3>3. attempt \notin broken' => at'[attempt'] = "ended" /\ answer' = HTTPStatus(code[attempt])
      BY <2>1
    <3>4. QED
      BY <2>1, <3>1, <3>2, <3>3 DEF AnswerOfLast, HTTPStatus
  <2>4. CancelReached'
    BY <1>1, <2>1 DEF CancelReached, OnItsWay, Reached, Config
  <2>5. QED
    BY <2>2, <2>3, <2>4
<1>5. QED
  BY <1>3, <1>4

(* Every step of the gateway and of a handler keeps it.                    *)
LEMMA GatewayStepInv == GatewayInv /\ [GatewayNext]_gatewayVars => GatewayInv'
<1> SUFFICES ASSUME GatewayInv, [GatewayNext]_gatewayVars PROVE GatewayInv'
  OBVIOUS
<1>1. ASSUME NEW k \in Attempt, Handler(k) PROVE GatewayInv'
  BY <1>1, HandlerOrder, HandlerTasks, HandlerCancel DEF GatewayInv
<1>2. CASE GatewayReceives
  <2>1. attempt \in Attempt /\ attempt \notin broken /\ code[attempt] \in Codes
    BY <1>2 DEF GatewayReceives, GatewayInv, GatewayType, AnswerOfLast
  <2>2. QED
    BY <1>2, <2>1, GatewayMoves DEF GatewayReceives
<1>3. CASE ConnectionBreaks
  <2>1. "Unavailable" \in Codes /\ attempt \in broken'
    BY <1>3 DEF ConnectionBreaks, Codes
  <2>2. QED
    BY <1>3, <2>1, GatewayMoves DEF ConnectionBreaks
<1>4. CASE TargetEnds
  <2>1. \A b : ValidateResources(b)' <=> ValidateResources(b)
    BY <1>4, QuotaStays DEF TargetEnds, Config
  <2>2. /\ UNCHANGED <<post, plugin, request, attempt, at, code, body, broken, stored>>
        /\ UNCHANGED <<submitted, told, half, bare, answer>>
        /\ target' = "COMPLETE"
    BY <1>4 DEF TargetEnds, Config
  <2>3. GatewayType' /\ InOrder' /\ Checked' /\ StoredOnce' /\ OkIsStored' /\ AnswerOfLast'
    BY <2>1, <2>2 DEF GatewayInv, GatewayType, InOrder, Checked, StoredOnce, OkIsStored,
                      AnswerOfLast, HTTPStatus
  <2>4. CancelReached'
    BY <2>2 DEF CancelReached
  <2>5. QED
    BY <2>3, <2>4 DEF GatewayInv
<1>5. CASE UNCHANGED gatewayVars
  <2>1. \A b : ValidateResources(b)' <=> ValidateResources(b)
    BY <1>5, QuotaStays DEF gatewayVars
  <2>2. QED
    BY <1>5, <2>1 DEF gatewayVars, GatewayInv, GatewayType, InOrder, Checked, StoredOnce,
                      OkIsStored, AnswerOfLast, CancelReached, OnItsWay, Reached, HTTPStatus
<1>6. QED
  BY <1>1, <1>2, <1>3, <1>4, <1>5 DEF GatewayNext

(* However often the gateway repeats a call and connections break, a POST  *)
(* stores one task at most beside those of lost handlers, and its answer   *)
(* is true of the tasks and of the backend.                                *)
THEOREM AnswersCorrect == GatewaySpec => []AnswersAreTrue
<1>1. GatewayInv => AnswersAreTrue
  BY InvAnswers
<1>2. QED
  BY <1>1, GatewayInitInv, GatewayStepInv, PTL DEF GatewaySpec

-----------------------------------------------------------------------------
(* What the commands promise.                                              *)

(* Where a goroutine of a run may be.                                      *)
Work == {"none", "waitFor", "create", "wait", "returned", "error"}

(* The types of the variables that the argument reads.                     *)
ClientType ==
  /\ verb \in {"run", "create", "cancel", "wait"}
  /\ waits \in SUBSET New /\ (verb # "run" => waits = {})
  /\ \A w \in New : waitFor[w] = <<>> \/ waitFor[w] = OldTask
  /\ tstate \in [New \cup Old -> Active \cup Terminal \cup {"none"}]
  /\ gor \in [New -> Work] /\ waitedFor \in [New -> Nat] /\ unread \in [New -> SUBSET Old]
  /\ pos \in Nat \ {0} /\ done \in BOOLEAN
  /\ exit \in {"running", "ok", "failed"}

(* The tasks there were already are known to the server.                   *)
OldKnown == \A t \in Old : tstate[t] # "none"

(* The goroutines of `run`: which there are, and what each has seen.       *)
GoroutinesSaw ==
  \A w \in New :
    /\ verb # "run" => gor[w] = "none" /\ waitFor[w] = <<>>
    /\ gor[w] \in {"wait", "returned"} => tstate[w] # "none"
    /\ gor[w] = "returned" /\ w \in waits => tstate[w] = "COMPLETE"
    /\ verb = "run" /\ tstate[w] # "none" => gor[w] \notin {"none", "waitFor"}
    /\ gor[w] = "none" => waitedFor[w] = 0
    /\ gor[w] = "waitFor" => waitedFor[w] < Len(waitFor[w])
    /\ gor[w] \notin {"none", "waitFor"} => waitedFor[w] = Len(waitFor[w])
    /\ waitedFor[w] <= Len(waitFor[w])
    /\ \A k \in 1..Len(waitFor[w]) :
         k <= waitedFor[w] => tstate[waitFor[w][k]] \in Terminal \/ waitFor[w][k] \in unread[w]

(* The sequence of a command, as far as it got.                            *)
SoFar ==
  /\ verb = "run" => \A k \in 1..Len(NewTask) : k >= pos => gor[NewTask[k]] = "none"
  /\ verb = "create" => \A k \in 1..Len(NewTask) : k < pos => tstate[NewTask[k]] # "none"
  /\ verb = "cancel" => \A k \in 1..Len(OldTask) : k < pos => tstate[OldTask[k]] \in Terminal
  /\ verb = "wait" =>
       /\ pos <= Len(OldTask) + 1
       /\ done => pos > 1 /\ tstate[OldTask[pos - 1]] = "COMPLETE"

(* The inductive invariant.                                                *)
ClientInv == ClientType /\ OldKnown /\ GoroutinesSaw /\ SoFar /\ ExitIsEarned

(* The sequences and the sets of their tasks.                              *)
LEMMA Tasks ==
  /\ Len(NewTask) \in Nat \ {0} /\ Len(OldTask) \in Nat \ {0}
  /\ \A k \in 1..Len(NewTask) : NewTask[k] \in New
  /\ \A k \in 1..Len(OldTask) : OldTask[k] \in Old
  /\ \A w \in New : \E k \in 1..Len(NewTask) : w = NewTask[k]
  /\ \A t \in Old : \E k \in 1..Len(OldTask) : t = OldTask[k]
  /\ \A w \in New : w \notin Old
<1>1. /\ DOMAIN NewTask = 1..Len(NewTask) /\ DOMAIN OldTask = 1..Len(OldTask)
      /\ Len(NewTask) \in Nat /\ Len(OldTask) \in Nat
  BY ClientAssumption
<1>2. Len(NewTask) # 0 /\ Len(OldTask) # 0
  BY ClientAssumption
<1>3. QED
  BY <1>1, <1>2, ClientAssumption DEF New, Old

(* It holds when the command starts.                                       *)
LEMMA ClientInitInv == ClientInit => ClientInv
<1> SUFFICES ASSUME ClientInit PROVE ClientInv
  OBVIOUS
<1> USE DEF ClientInit
<1>1. tstate \in [New \cup Old -> Active \cup Terminal \cup {"none"}]
  BY DEF Active
<1>2. \A w \in New : waitFor[w] = <<>> \/ waitFor[w] = OldTask
  OBVIOUS
<1>3. waits \in SUBSET New /\ (verb # "run" => waits = {} /\ \A w \in New : waitFor[w] = <<>>)
  OBVIOUS
<1>4. ClientType
  <2>1. gor \in [New -> Work] /\ waitedFor \in [New -> Nat] /\ unread \in [New -> SUBSET Old]
    BY DEF Work
  <2>2. verb \in {"run", "create", "cancel", "wait"} /\ pos = 1 /\ exit = "running"
    OBVIOUS
  <2>3. done \in BOOLEAN
    OBVIOUS
  <2> HIDE DEF ClientInit
  <2>4. QED
    BY <1>1, <1>2, <1>3, <2>1, <2>2, <2>3 DEF ClientType
<1>5. OldKnown
  BY Tasks DEF OldKnown
<1>6. GoroutinesSaw
  <2>1. \A w \in New : tstate[w] = "none" /\ Len(waitFor[w]) \in Nat
    BY <1>2, Tasks
  <2>2. QED
    BY <1>3, <2>1 DEF GoroutinesSaw
<1>7. SoFar
  <2>1. Len(OldTask) \in Nat /\ \A k \in 1..Len(NewTask) : NewTask[k] \in New
    BY Tasks
  <2>2. QED
    BY <2>1 DEF SoFar
<1>8. QED
  BY <1>4, <1>5, <1>6, <1>7 DEF ClientInv, ExitIsEarned

(* Every task that a dependent task waits for was seen by its goroutine.   *)
LEMMA InvWord ==
  ASSUME ClientInv
  PROVE  CommandsKeepTheirWord
<1>1. ASSUME NEW w \in New, tstate[w] # "none", NEW k \in DOMAIN waitFor[w]
      PROVE  tstate[waitFor[w][k]] \in Terminal \/ waitFor[w][k] \in unread[w]
  <2>1. waitFor[w] \in {<<>>, OldTask}
    BY DEF ClientInv, ClientType
  <2>2. waitFor[w] = OldTask
    BY <1>1, <2>1
  <2>3. k \in 1..Len(waitFor[w]) /\ Len(waitFor[w]) \in Nat /\ waitFor[w] # <<>>
    BY <1>1, <2>2, ClientAssumption
  <2>4. verb = "run"
    BY <2>3 DEF ClientInv, GoroutinesSaw
  <2>5. waitedFor[w] = Len(waitFor[w])
    BY <1>1, <2>4 DEF ClientInv, GoroutinesSaw
  <2>6. k <= waitedFor[w]
    BY <2>3, <2>5
  <2>7. QED
    BY <2>3, <2>6 DEF ClientInv, GoroutinesSaw
<1>2. QED
  BY <1>1 DEF CommandsKeepTheirWord, DependentsWait, ClientInv

(* A task moves: none is forgotten, and none that has ended changes.       *)
LEMMA MovesInv ==
  ASSUME ClientInv, NEW t \in New \cup Old, TaskMoves(t)
  PROVE  ClientInv'
<1> USE DEF ClientInv, TaskMoves, Args
<1>1. \A u \in New \cup Old :
        /\ tstate[u] # "none" => tstate'[u] # "none"
        /\ tstate[u] \in Terminal => tstate'[u] = tstate[u]
        /\ tstate[u] = "none" => tstate'[u] = "none"
  BY DEF ClientType, Terminal, Active
<1>2. ClientType'
  BY DEF ClientType
<1>3. \A w \in New : \A k \in 1..Len(waitFor[w]) : waitFor[w][k] \in Old
  BY Tasks DEF ClientType
<1>4. "COMPLETE" \in Terminal
  BY DEF Terminal
<1>5. OldKnown'
  BY <1>1 DEF OldKnown
<1>6. GoroutinesSaw'
  BY <1>1, <1>3, <1>4 DEF GoroutinesSaw
<1>7. SoFar'
  <2>1. verb = "create" => \A k \in 1..Len(NewTask) : k < pos => tstate'[NewTask[k]] # "none"
    BY <1>1, Tasks DEF SoFar
  <2>2. verb = "cancel" => \A k \in 1..Len(OldTask) : k < pos => tstate'[OldTask[k]] \in Terminal
    BY <1>1, Tasks DEF SoFar
  <2>3. verb = "wait" /\ done => tstate'[OldTask[pos - 1]] = "COMPLETE"
    <3>1. verb = "wait" /\ done => OldTask[pos - 1] \in Old
      BY Tasks DEF SoFar, ClientType
    <3>2. QED
      BY <1>1, <1>4, <3>1 DEF SoFar
  <2>4. QED
    BY <2>1, <2>2, <2>3 DEF SoFar
<1>8. ExitIsEarned'
  BY DEF ExitIsEarned
<1>9. QED
  BY <1>2, <1>5, <1>6, <1>7, <1>8

(* The goroutines only work on a `run`.                                    *)
LEMMA GoroutineInv ==
  ASSUME ClientInv, NEW w \in New, Goroutine(w)
  PROVE  ClientInv'
<1> USE DEF ClientInv, Args, GorGoto
<1>1. verb = "run" /\ exit = "running" /\ gor[w] # "none"
  BY DEF Goroutine, WaitBefore, RunCreate, WaitAfter, GoroutinesSaw
<1>2. UNCHANGED <<verb, waits, waitFor, pos, done, exit>>
  BY DEF Goroutine, WaitBefore, RunCreate, WaitAfter
<1>3. ExitIsEarned'
  BY <1>1, <1>2 DEF ExitIsEarned
<1>4. \A v \in New : v # w => gor'[v] = gor[v]
  BY DEF Goroutine, WaitBefore, RunCreate, WaitAfter, ClientType
<1>5. gor' \in [New -> Work]
  BY DEF Goroutine, WaitBefore, RunCreate, WaitAfter, ClientType, Work
<1>6. SoFar'
  <2>1. \A k \in 1..Len(NewTask) : k >= pos => gor'[NewTask[k]] = "none"
    BY <1>1, <1>4, Tasks DEF SoFar
  <2>2. QED
    BY <1>1, <1>2, <2>1 DEF SoFar
<1>7. \A v \in New : Len(waitFor[v]) \in Nat /\ \A k \in 1..Len(waitFor[v]) : waitFor[v][k] \in Old
  BY Tasks DEF ClientType
<1>8. CASE WaitBefore(w)
  <2> DEFINE k == waitedFor[w] + 1
  <2>1. /\ gor[w] = "waitFor" /\ UNCHANGED tstate
        /\ waitedFor' = [waitedFor EXCEPT ![w] = k]
        /\ gor' = IF k = Len(waitFor[w]) THEN [gor EXCEPT ![w] = "create"] ELSE gor
    BY <1>8 DEF WaitBefore
  <2>2. k \in 1..Len(waitFor[w]) /\ k \in Nat
    BY <1>7, <2>1 DEF GoroutinesSaw, ClientType
  <2>3. waitFor[w][k] \in Old
    BY <1>7, <2>2
  <2>4. /\ unread' = unread \/ unread' = [unread EXCEPT ![w] = @ \cup {waitFor[w][k]}]
        /\ tstate[waitFor[w][k]] \in Terminal \/ waitFor[w][k] \in unread'[w]
    BY <1>8 DEF WaitBefore, WaitOver, WaitOutcome, Terminal, ClientType
  <2>5. /\ unread[w] \subseteq unread'[w] /\ unread' \in [New -> SUBSET Old]
        /\ \A v \in New : v # w => unread'[v] = unread[v] /\ waitedFor'[v] = waitedFor[v]
    <3>1. unread[w] \cup {waitFor[w][k]} \in SUBSET Old
      BY <2>3 DEF ClientType
    <3>2. unread' \in [New -> SUBSET Old]
      BY <2>4, <3>1 DEF ClientType
    <3>3. unread[w] \subseteq unread'[w] /\ \A v \in New : v # w => unread'[v] = unread[v]
      BY <2>4 DEF ClientType
    <3>4. \A v \in New : v # w => waitedFor'[v] = waitedFor[v]
      BY <2>1 DEF ClientType
    <3>5. QED
      BY <3>2, <3>3, <3>4
  <2>6. waitedFor'[w] = k /\ waitedFor' \in [New -> Nat]
    BY <2>1, <2>2 DEF ClientType
  <2>7. gor'[w] = IF k = Len(waitFor[w]) THEN "create" ELSE "waitFor"
    BY <2>1 DEF ClientType
  <2>8. ClientType' /\ OldKnown'
    BY <1>2, <1>5, <2>1, <2>5, <2>6 DEF ClientType, OldKnown
  <2>9. \A j \in 1..Len(waitFor[w]) :
          j <= k => tstate[waitFor[w][j]] \in Terminal \/ waitFor[w][j] \in unread'[w]
    <3> SUFFICES ASSUME NEW j \in 1..Len(waitFor[w]), j <= k
                 PROVE  tstate[waitFor[w][j]] \in Terminal \/ waitFor[w][j] \in unread'[w]
      OBVIOUS
    <3>1. j = k \/ j <= waitedFor[w]
      BY <1>7, <2>2 DEF ClientType
    <3>2. QED
      BY <2>4, <2>5, <3>1 DEF GoroutinesSaw
  <2>10. tstate[w] = "none"
    BY <1>1, <2>1 DEF GoroutinesSaw
  <2>11. k <= Len(waitFor[w]) /\ (k # Len(waitFor[w]) => k < Len(waitFor[w]))
    BY <1>7, <2>2
  <2> HIDE DEF k
  <2>12. GoroutinesSaw'
    BY <1>1, <1>2, <1>4, <2>1, <2>5, <2>6, <2>7, <2>9, <2>10, <2>11 DEF GoroutinesSaw
  <2>13. QED
    BY <1>3, <1>6, <2>8, <2>12
<1>9. CASE RunCreate(w)
  <2>1. /\ gor[w] = "create" /\ UNCHANGED <<waitedFor, unread>>
        /\ tstate' = tstate \/ tstate' = [tstate EXCEPT ![w] = "QUEUED"]
    BY <1>9 DEF RunCreate, ClientCreate
  <2>2. /\ gor'[w] \in {"error", "wait", "returned"}
        /\ gor'[w] # "error" => tstate'[w] = "QUEUED"
        /\ w \in waits => gor'[w] # "returned"
    BY <1>9 DEF RunCreate, ClientCreate, ClientType
  <2>3. \A u \in New \cup Old : u # w => tstate'[u] = tstate[u]
    BY <2>1 DEF ClientType
  <2>4. ClientType'
    BY <1>2, <1>5, <2>1 DEF ClientType, Active
  <2>5. w \notin Old
    BY Tasks
  <2>6. OldKnown'
    BY <2>3, <2>5 DEF OldKnown
  <2>7. GoroutinesSaw'
    BY <1>1, <1>2, <1>4, <1>7, <2>1, <2>2, <2>3, <2>5 DEF GoroutinesSaw
  <2>8. QED
    BY <1>3, <1>6, <2>4, <2>6, <2>7
<1>10. CASE WaitAfter(w)
  <2>1. /\ gor[w] = "wait" /\ UNCHANGED <<tstate, waitedFor, unread>>
        /\ gor'[w] \in {"error", "returned"}
        /\ gor'[w] = "returned" => tstate[w] = "COMPLETE"
    BY <1>10 DEF WaitAfter, WaitOver, WaitOutcome, ClientType
  <2>2. ClientType' /\ OldKnown'
    BY <1>2, <1>5, <2>1 DEF ClientType, OldKnown
  <2>3. GoroutinesSaw'
    BY <1>1, <1>2, <1>4, <2>1 DEF GoroutinesSaw
  <2>4. QED
    BY <1>3, <1>6, <2>2, <2>3
<1>11. QED
  BY <1>8, <1>9, <1>10 DEF Goroutine

(* The process that starts the goroutines of a `run` and waits for them.   *)
LEMMA RunInv ==
  ASSUME ClientInv, LaunchTask \/ RunReturns
  PROVE  ClientInv'
<1> USE DEF ClientInv, Args
<1>1. CASE LaunchTask
  <2> DEFINE w == NewTask[pos]
  <2>1. /\ verb = "run" /\ exit = "running" /\ pos <= Len(NewTask)
        /\ UNCHANGED <<verb, waits, waitFor, tstate, waitedFor, unread, done>>
    BY <1>1 DEF LaunchTask
  <2>2. pos \in 1..Len(NewTask) /\ w \in New /\ gor[w] = "none"
    BY <2>1, Tasks DEF ClientType, SoFar
  <2>3. CASE w \in badArgs
    <3>1. exit' = "failed" /\ UNCHANGED <<gor, pos>>
      BY <1>1, <2>3 DEF LaunchTask
    <3>2. QED
      BY <2>1, <3>1 DEF ClientType, OldKnown, GoroutinesSaw, SoFar, ExitIsEarned
  <2>4. CASE w \notin badArgs
    <3>1. /\ gor' = [gor EXCEPT ![w] = IF waitFor[w] = <<>> THEN "create" ELSE "waitFor"]
          /\ pos' = pos + 1 /\ UNCHANGED exit
      BY <1>1, <2>4 DEF LaunchTask, GorGoto
    <3>2. gor' \in [New -> Work]
      BY <3>1 DEF ClientType, Work
    <3>3. ClientType' /\ OldKnown' /\ ExitIsEarned'
      BY <2>1, <3>1, <3>2 DEF ClientType, OldKnown, ExitIsEarned
    <3>4. /\ gor'[w] = IF waitFor[w] = <<>> THEN "create" ELSE "waitFor"
          /\ \A v \in New : v # w => gor'[v] = gor[v]
      BY <2>2, <3>1 DEF ClientType
    <3>5. IF waitFor[w] = <<>> THEN Len(waitFor[w]) = 0 ELSE 0 < Len(waitFor[w])
      BY <2>2, Tasks DEF ClientType
    <3>6. waitedFor[w] = 0 /\ tstate[w] = "none"
      BY <2>1, <2>2 DEF GoroutinesSaw
    <3> HIDE DEF w
    <3>7. GoroutinesSaw'
      BY <2>1, <2>2, <3>4, <3>5, <3>6 DEF GoroutinesSaw
    <3>8. ASSUME NEW k \in 1..Len(NewTask), k >= pos' PROVE gor'[NewTask[k]] = "none"
      <4>1. k >= pos /\ k # pos
        BY <2>2, <3>1, <3>8, Tasks
      <4>2. NewTask[k] # w /\ NewTask[k] \in New
        BY <2>2, <4>1, Tasks, ClientAssumption DEF w
      <4>3. QED
        BY <2>1, <3>4, <4>1, <4>2 DEF SoFar
    <3>9. SoFar'
      BY <2>1, <3>8 DEF SoFar
    <3>10. QED
      BY <3>3, <3>7, <3>9
  <2>5. QED
    BY <2>3, <2>4
<1>2. CASE RunReturns
  <2>1. /\ verb = "run" /\ exit' \in {"ok", "failed"}
        /\ UNCHANGED <<verb, waits, waitFor, tstate, gor, waitedFor, unread, pos, done>>
        /\ exit' = "ok" => AllReturned
    BY <1>2 DEF RunReturns
  <2>2. ClientType' /\ OldKnown' /\ GoroutinesSaw' /\ SoFar'
    BY <2>1 DEF ClientType, OldKnown, GoroutinesSaw, SoFar
  <2>3. ExitIsEarned'
    BY <2>1 DEF ExitIsEarned, AllReturned, GoroutinesSaw, ClientType
  <2>4. QED
    BY <2>2, <2>3
<1>3. QED
  BY <1>1, <1>2

(* `task create` and `task cancel` act on one task after the other, and    *)
(* change no other task.                                                   *)
LEMMA OneByOneInv ==
  ASSUME ClientInv, CreateNext \/ CancelNext
  PROVE  ClientInv'
<1> USE DEF ClientInv, Args
<1>1. /\ verb \in {"create", "cancel"} /\ exit = "running" /\ waits = {}
      /\ UNCHANGED <<verb, waits, waitFor, gor, waitedFor, unread, done>>
  BY DEF CreateNext, CancelNext, ClientType
<1>2. \A w \in New : Len(waitFor[w]) = 0
  BY <1>1 DEF GoroutinesSaw
<1>3. CASE \/ CreateNext /\ pos > Len(NewTask)
           \/ CancelNext /\ pos > Len(OldTask)
  <2>1. exit' = "ok" /\ UNCHANGED <<tstate, pos>>
    BY <1>3 DEF CreateNext, CancelNext
  <2>2. ClientType' /\ OldKnown' /\ GoroutinesSaw' /\ SoFar'
    BY <1>1, <2>1 DEF ClientType, OldKnown, GoroutinesSaw, SoFar
  <2>3. verb = "create" => \A w \in New : tstate[w] # "none"
    <3> SUFFICES ASSUME verb = "create", NEW w \in New PROVE tstate[w] # "none"
      OBVIOUS
    <3>1. PICK k \in 1..Len(NewTask) : w = NewTask[k]
      BY Tasks
    <3>2. k < pos
      BY <1>3, Tasks DEF CancelNext, ClientType
    <3>3. QED
      BY <3>1, <3>2 DEF SoFar
  <2>4. verb = "cancel" => \A t \in Old : tstate[t] \in Terminal
    <3> SUFFICES ASSUME verb = "cancel", NEW t \in Old PROVE tstate[t] \in Terminal
      OBVIOUS
    <3>1. PICK k \in 1..Len(OldTask) : t = OldTask[k]
      BY Tasks
    <3>2. k < pos
      BY <1>3, Tasks DEF CreateNext, ClientType
    <3>3. QED
      BY <3>1, <3>2 DEF SoFar
  <2>5. ExitIsEarned'
    BY <1>1, <2>1, <2>3, <2>4 DEF ExitIsEarned
  <2>6. QED
    BY <2>2, <2>5
<1>4. CASE CreateNext /\ pos <= Len(NewTask)
  <2> DEFINE w == NewTask[pos]
  <2>1. w \in New /\ w \notin Old /\ verb = "create" /\ ~(pos > Len(NewTask))
    BY <1>4, Tasks DEF ClientType, CreateNext
  <2>2. PICK err \in BOOLEAN :
          /\ ClientCreate(w, err)
          /\ IF err \/ w \in invalid THEN exit' = "failed" /\ UNCHANGED pos
             ELSE pos' = pos + 1 /\ UNCHANGED exit
    BY <1>4, <2>1 DEF CreateNext
  <2> HIDE DEF w
  <2>3. tstate' = tstate \/ tstate' = [tstate EXCEPT ![w] = "QUEUED"]
    BY <2>2 DEF ClientCreate
  <2>4. \/ exit' = "failed" /\ pos' = pos
        \/ exit' = exit /\ pos' = pos + 1 /\ tstate'[w] = "QUEUED"
    BY <2>1, <2>2 DEF ClientCreate, ClientType
  <2>5. /\ \A u \in New \cup Old : tstate[u] # "none" => tstate'[u] # "none"
        /\ \A t \in Old : tstate'[t] = tstate[t]
    BY <2>1, <2>3 DEF ClientType
  <2>6. ClientType'
    <3>1. tstate' \in [New \cup Old -> Active \cup Terminal \cup {"none"}]
      BY <2>3 DEF ClientType, Active
    <3>2. QED
      BY <1>1, <2>4, <3>1 DEF ClientType
  <2>7. OldKnown'
    BY <2>5 DEF OldKnown
  <2>8. GoroutinesSaw'
    BY <1>1, <1>2, <2>1 DEF GoroutinesSaw
  <2>9. SoFar'
    <3>1. \A k \in 1..Len(NewTask) : k < pos => tstate'[NewTask[k]] # "none"
      BY <2>1, <2>5, Tasks DEF SoFar
    <3>2. \A k \in 1..Len(NewTask) : k < pos + 1 => k < pos \/ NewTask[k] = w
      BY Tasks DEF ClientType, w
    <3>3. QED
      BY <1>1, <2>1, <2>4, <3>1, <3>2 DEF SoFar
  <2>10. ExitIsEarned'
    BY <1>1, <2>4 DEF ExitIsEarned
  <2>11. QED
    BY <2>6, <2>7, <2>8, <2>9, <2>10
<1>5. CASE CancelNext /\ pos <= Len(OldTask)
  <2> DEFINE t == OldTask[pos]
  <2>1. t \in Old /\ verb = "cancel" /\ ~(pos > Len(OldTask))
    BY <1>5, Tasks DEF ClientType, CancelNext
  <2>2. PICK err \in BOOLEAN :
          /\ CancelTaskWithMessage(t, err)
          /\ IF err THEN exit' = "failed" /\ UNCHANGED pos
             ELSE pos' = pos + 1 /\ UNCHANGED exit
    BY <1>5, <2>1 DEF CancelNext
  <2> HIDE DEF t
  <2>3. tstate' = tstate \/ tstate' = [tstate EXCEPT ![t] = CancelOf(tstate[t])]
    BY <2>2 DEF CancelTaskWithMessage
  <2>4. \/ exit' = "failed" /\ pos' = pos
        \/ exit' = exit /\ pos' = pos + 1 /\ tstate' = [tstate EXCEPT ![t] = CancelOf(tstate[t])]
    BY <2>2 DEF CancelTaskWithMessage
  <2>5. CancelOf(tstate[t]) \in Terminal /\ "none" \notin Terminal
    BY DEF CancelOf, Terminal
  <2>6. /\ \A u \in New \cup Old : tstate[u] # "none" => tstate'[u] # "none"
        /\ \A u \in New \cup Old : tstate[u] \in Terminal => tstate'[u] \in Terminal
    BY <2>3, <2>5 DEF ClientType
  <2>7. ClientType'
    <3>1. tstate' \in [New \cup Old -> Active \cup Terminal \cup {"none"}]
      BY <2>3, <2>5 DEF ClientType
    <3>2. QED
      BY <1>1, <2>4, <3>1 DEF ClientType
  <2>8. OldKnown'
    BY <2>6 DEF OldKnown
  <2>9. GoroutinesSaw'
    BY <1>1, <1>2, <2>1 DEF GoroutinesSaw
  <2>10. SoFar'
    <3>1. \A k \in 1..Len(OldTask) : k < pos => tstate'[OldTask[k]] \in Terminal
      BY <2>1, <2>6, Tasks DEF SoFar
    <3>2. \A k \in 1..Len(OldTask) : k < pos + 1 => k < pos \/ OldTask[k] = t
      BY Tasks DEF ClientType, t
    <3>3. pos' = pos + 1 => tstate'[t] \in Terminal
      BY <2>1, <2>4, <2>5 DEF ClientType
    <3>4. QED
      BY <1>1, <2>1, <2>4, <3>1, <3>2, <3>3 DEF SoFar
  <2>11. ExitIsEarned'
    BY <1>1, <2>4 DEF ExitIsEarned
  <2>12. QED
    BY <2>7, <2>8, <2>9, <2>10, <2>11
<1>6. /\ pos > Len(NewTask) \/ pos <= Len(NewTask)
      /\ pos > Len(OldTask) \/ pos <= Len(OldTask)
  BY Tasks DEF ClientType
<1> HIDE DEF ClientInv
<1>7. CASE CreateNext
  <2>1. CASE pos > Len(NewTask)
    BY <1>3, <1>7, <2>1
  <2>2. CASE pos <= Len(NewTask)
    BY <1>4, <1>7, <2>2
  <2>3. QED
    BY <1>6, <2>1, <2>2
<1>8. CASE CancelNext
  BY <1>3, <1>5, <1>6, <1>8
<1>9. QED
  BY <1>7, <1>8

(* `task wait`, whose `done` is about the task it read last.               *)
LEMMA WaitInv ==
  ASSUME ClientInv, WaitNext
  PROVE  ClientInv'
<1> USE DEF ClientInv, Args
<1>1. /\ verb = "wait" /\ exit = "running" /\ waits = {}
      /\ UNCHANGED <<verb, waits, waitFor, tstate, gor, waitedFor, unread>>
  BY DEF WaitNext, ClientType
<1>2. OldKnown' /\ GoroutinesSaw'
  BY <1>1 DEF OldKnown, GoroutinesSaw
<1>3. CASE pos > Len(OldTask)
  <2>1. \/ done /\ exit' = "ok" /\ UNCHANGED <<pos, done>>
        \/ pos' = 1 /\ ~done' /\ exit' = exit
    BY <1>3 DEF WaitNext
  <2>2. done' \in BOOLEAN
    BY <1>3 DEF WaitNext, ClientType
  <2>3. ClientType'
    BY <1>1, <2>1, <2>2 DEF ClientType
  <2>4. SoFar'
    BY <1>1, <2>1, Tasks DEF SoFar
  <2>5. pos - 1 = Len(OldTask)
    BY <1>1, <1>3, Tasks DEF SoFar, ClientType
  <2>6. ExitIsEarned'
    BY <1>1, <2>1, <2>5 DEF ExitIsEarned, SoFar
  <2>7. QED
    BY <1>2, <2>3, <2>4, <2>6
<1>4. CASE ~(pos > Len(OldTask))
  <2>1. \/ exit' = "failed" /\ UNCHANGED <<pos, done>>
        \/ /\ exit' = exit /\ pos' = pos + 1
           /\ done' => tstate[OldTask[pos]] = "COMPLETE"
    BY <1>4 DEF WaitNext, WaitOutcome
  <2>2. done' \in BOOLEAN
    BY <1>4 DEF WaitNext, ClientType
  <2>3. ClientType'
    BY <1>1, <2>1, <2>2 DEF ClientType
  <2>4. pos <= Len(OldTask) /\ pos + 1 > 1 /\ (pos + 1) - 1 = pos /\ pos + 1 <= Len(OldTask) + 1
    <3>1. pos \in Nat \ {0} /\ Len(OldTask) \in Nat
      BY Tasks DEF ClientType
    <3>2. QED
      BY <1>4, <3>1
  <2>5. SoFar'
    <3>1. CASE UNCHANGED <<pos, done>>
      BY <1>1, <3>1 DEF SoFar
    <3>2. CASE pos' = pos + 1 /\ (done' => tstate[OldTask[pos]] = "COMPLETE")
      <4>1. pos' <= Len(OldTask) + 1 /\ pos' > 1 /\ pos' - 1 = pos
        BY <2>4, <3>2
      <4>2. done' => tstate'[OldTask[pos' - 1]] = "COMPLETE"
        BY <1>1, <3>2, <4>1
      <4>3. QED
        BY <1>1, <4>1, <4>2 DEF SoFar
    <3>3. QED
      BY <2>1, <3>1, <3>2
  <2>6. ExitIsEarned'
    BY <1>1, <2>1 DEF ExitIsEarned
  <2>7. QED
    BY <1>2, <2>3, <2>5, <2>6
<1>5. QED
  BY <1>3, <1>4

(* A command that ends well has done what it was asked, and a task given   *)
(* --wait-for is created after those it waits for, for any tasks and       *)
(* whatever requests get no answer.                                        *)
THEOREM CommandsCorrect == ClientSpec => []CommandsKeepTheirWord
<1>1. ClientInv /\ [ClientNext]_clientVars => ClientInv'
  <2> SUFFICES ASSUME ClientInv, [ClientNext]_clientVars PROVE ClientInv'
    OBVIOUS
  <2>1. CASE Command
    BY <2>1, RunInv, OneByOneInv, WaitInv DEF Command
  <2>2. CASE \E w \in New : Goroutine(w)
    BY <2>2, GoroutineInv
  <2>3. CASE \E t \in New \cup Old : TaskMoves(t)
    BY <2>3, MovesInv
  <2>4. CASE UNCHANGED clientVars
    BY <2>4 DEF clientVars, ClientInv, ClientType, OldKnown, GoroutinesSaw, SoFar, ExitIsEarned
  <2>5. QED
    BY <2>1, <2>2, <2>3, <2>4 DEF ClientNext
<1>2. ClientInv => CommandsKeepTheirWord
  BY InvWord
<1>3. QED
  BY <1>1, <1>2, ClientInitInv, PTL DEF ClientSpec

-----------------------------------------------------------------------------
(* The reconcile loop.                                                     *)

(* How far Submit is with a task.                                          *)
SubmitStage == {"none", "ready", "owned", "pv", "pvc", "error", "failed", "done"}

(* The listings of jobs that the reconciler can hold.                      *)
JobList == UNION {[D -> JobState] : D \in SUBSET Task}

(* Where the reconciler is in its first pass.                              *)
Backlog == [pc : {"start"}] \cup [pc : {"backlog", "sweep"}, ids : SUBSET Task]

(* Where the reconciler is in a tick, with the listing it took.            *)
Ticks ==
  [pc : {"tick"}]
    \cup [pc : {"list"}, at : 1..3, jobs : JobList]
    \cup [pc : {"job"}, at : 1..3, jobs : JobList, ids : SUBSET Task]
    \cup [pc : {"orphans"}, jobs : JobList]

(* Where a call of cleanResources is.                                      *)
CleanCall == [pc : {"no"}] \cup [pc : {"job", "execs", "pv"}, id : Task]

(* Where a call of Cancel is.                                              *)
CancelCall == [pc : {"idle"}] \cup [pc : {"checked", "dispatch"}, id : Task]

(* The values of the variables that the argument reads.                    *)
KubeType ==
  /\ state \in [Task -> State]
  /\ submit \in [Task -> SubmitStage]
  /\ job \in [Task -> JobState]
  /\ cancel \in [Canceler -> CancelCall]
  /\ clean \in [Cleaner -> CleanCall]
  /\ rec \in Backlog \cup Ticks

(* CreateJob of the task is over and will not come again.                  *)
Submitted(t) == state[t] # "UNKNOWN" /\ submit[t] # "ready"

(* The states of a job that no worker runs in.                             *)
Resting == {"none", "stuck", "rejected"} \cup Done

(* A job exists only of a task that was stored and submitted, and Submit   *)
(* is not called before the task is stored.                                *)
JobsOnce ==
  \A t \in Task :
    /\ job[t] # "none" => Submitted(t)
    /\ submit[t] = "ready" => state[t] # "UNKNOWN"

(* A list of jobs may be old: what was done then is done or gone now.      *)
ListInv ==
  rec.pc \in {"list", "job", "orphans"} =>
    \A t \in DOMAIN rec.jobs :
      /\ Submitted(t)
      /\ rec.jobs[t] \in Done => job[t] \in {"none", rec.jobs[t]}

(* A job that a tick is about to delete is one of a submitted task and has *)
(* no worker.                                                              *)
CleanInv ==
  (clean[Reconciler].pc = "job" /\ rec \in Ticks) =>
    Submitted(clean[Reconciler].id) /\ job[clean[Reconciler].id] \in Resting

(* The resources in the cluster are those of tasks.                        *)
Unowned == pv \subseteq Task /\ exec \subseteq Task

(* The inductive invariant.                                                *)
KubeInv == KubeType /\ JobsOnce /\ ListInv /\ CleanInv

(* What every step does to tasks and jobs.                                 *)
JobsRest ==
  \A t \in Task :
    /\ state[t] # "UNKNOWN" => state'[t] # "UNKNOWN"
    /\ Submitted(t) =>
         /\ Submitted(t)'
         /\ job[t] \in Resting => job'[t] \in Resting
         /\ job[t] \in Done \cup {"none"} => job'[t] \in {"none", job[t]}
    /\ job'[t] # "none" => Submitted(t)'
    /\ submit'[t] = "ready" => state'[t] # "UNKNOWN"

(* Whether the reconciler is in a tick shows in its place.                 *)
LEMMA TicksType ==
  /\ rec \in Ticks <=> rec \in Backlog \cup Ticks /\ rec.pc \in {"tick", "list", "job", "orphans"}
BY DEF Ticks, Backlog

(* A listing stays right as long as the jobs it lists rest.                *)
LEMMA ListKept ==
  ASSUME KubeInv, JobsRest, UNCHANGED rec
  PROVE  ListInv'
<1>1. rec.pc \in {"list", "job", "orphans"} => rec.jobs \in JobList
  BY DEF KubeInv, KubeType, Ticks, Backlog
<1>2. rec.pc \in {"list", "job", "orphans"} => \A t \in DOMAIN rec.jobs : t \in Task
  BY <1>1 DEF JobList
<1>3. QED
  BY <1>2 DEF KubeInv, ListInv, JobsRest, Done, Submitted

(* So does a job about to be deleted.                                      *)
LEMMA CleanKept ==
  ASSUME KubeInv, JobsRest, clean'[Reconciler] = clean[Reconciler], UNCHANGED rec
  PROVE  CleanInv'
<1>1. clean[Reconciler].pc = "job" => clean[Reconciler].id \in Task
  BY DEF KubeInv, KubeType, Cleaner, CleanCall
<1>2. QED
  BY <1>1 DEF KubeInv, CleanInv, JobsRest

(* A step of anyone but the reconciler.                                    *)
LEMMA OutsideStep ==
  ASSUME KubeInv, JobsRest, KubeType', UNCHANGED rec, clean'[Reconciler] = clean[Reconciler]
  PROVE  KubeInv'
<1>1. JobsOnce'
  BY DEF JobsRest, JobsOnce
<1>2. QED
  BY <1>1, ListKept, CleanKept DEF KubeInv

(* No event makes a stored task unknown again.                             *)
LEMMA WriteState ==
  ASSUME KubeType, NEW t \in Task, NEW s \in State \ {"UNKNOWN"}, NEW err, MultiWrite(t, s, err)
  PROVE  state' \in [Task -> State] /\ \A u \in Task : state[u] # "UNKNOWN" => state'[u] # "UNKNOWN"
BY DEF MultiWrite, KubeType

(* A step that leaves the jobs alone and begins no submission of a task    *)
(* that was there.                                                         *)
LEMMA SameJobs ==
  ASSUME KubeInv, UNCHANGED job, \A u \in Task : state[u] # "UNKNOWN" => state'[u] # "UNKNOWN",
         \A u \in Task : submit'[u] = "ready" => submit[u] = "ready" \/ (state[u] = "UNKNOWN" /\ state'[u] # "UNKNOWN")
  PROVE  JobsRest
<1>1. \A u \in Task : Submitted(u) => Submitted(u)'
  BY DEF Submitted
<1>2. QED
  BY <1>1 DEF JobsRest, KubeInv, JobsOnce

(* CreateTask keeps the invariant.                                         *)
LEMMA ServiceStep ==
  ASSUME KubeInv, NEW t \in Task, Service(t)
  PROVE  KubeInv'
<1>1. UNCHANGED <<job, clean, rec, cancel>>
  BY DEF Service, CreateTask, SubmitFailed, backendVars, clusterVars
<1>2. ASSUME NEW err \in BOOLEAN, CreateTask(t, err) PROVE KubeInv'
  <2>1. state[t] = "UNKNOWN" /\ state' = [state EXCEPT ![t] = "QUEUED"]
        /\ \E p \in {"none", "ready"} : submit' = [submit EXCEPT ![t] = p]
    BY <1>2 DEF CreateTask, SubmitGoto
  <2>2. KubeType'
    BY <1>1, <2>1 DEF KubeInv, KubeType, SubmitStage, State, Active
  <2>3. JobsRest
    BY <1>1, <2>1, SameJobs DEF KubeInv, KubeType, Submitted
  <2>4. QED
    BY <1>1, <2>2, <2>3, OutsideStep
<1>3. CASE SubmitFailed(t)
  <2>1. PICK err : MultiWrite(t, "SYSTEM_ERROR", err)
    BY <1>3 DEF SubmitFailed
  <2>2. state' \in [Task -> State] /\ \A u \in Task : state[u] # "UNKNOWN" => state'[u] # "UNKNOWN"
    BY <2>1, WriteState DEF KubeInv, State, Terminal
  <2>3. submit' = [submit EXCEPT ![t] = "done"]
    BY <1>3 DEF SubmitFailed, SubmitGoto
  <2>4. KubeType' /\ JobsRest
    BY <1>1, <2>2, <2>3, SameJobs DEF KubeInv, KubeType, SubmitStage, Submitted
  <2>5. QED
    BY <1>1, <2>4, OutsideStep
<1>4. QED
  BY <1>2, <1>3 DEF Service

(* Every step of Submit keeps it.                                          *)
LEMMA SubmitStep ==
  ASSUME KubeInv, NEW t \in Task, Submit(t)
  PROVE  KubeInv'
<1>0. t # Reconciler /\ t \in Cleaner
  BY CleanerAssumption DEF Cleaner
<1>1. /\ UNCHANGED <<rec, cancel>>
      /\ submit[t] \notin {"none", "failed", "done"}
      /\ \E p \in SubmitStage \ {"ready"} : submit' = [submit EXCEPT ![t] = p]
      /\ UNCHANGED clean \/ clean' = [clean EXCEPT ![t] = [pc |-> "job", id |-> t]]
  BY DEF Submit, SubmitError, CreateJob, CreateOwned, CreatePV, CreatePVC, GiveUp, Proceed, SubmitGoto,
         StartClean, SubmitStage
<1>2. clean'[Reconciler] = clean[Reconciler]
      /\ clean' \in [Cleaner -> CleanCall]
  <2>1. clean \in [Cleaner -> CleanCall]
    BY DEF KubeInv, KubeType
  <2>2. [pc |-> "job", id |-> t] \in CleanCall
    <3>1. [pc |-> "job", id |-> t] \in [pc : {"job", "execs", "pv"}, id : Task]
      OBVIOUS
    <3>2. QED
      BY <3>1 DEF CleanCall
  <2>3. Reconciler \in Cleaner
    BY DEF Cleaner
  <2>4. QED
    BY <1>0, <1>1, <2>1, <2>2, <2>3
<1>3. CASE SubmitError(t)
  <2>1. PICK err : MultiWrite(t, "SYSTEM_ERROR", err)
    BY <1>3 DEF SubmitError, Write
  <2>2. state' \in [Task -> State] /\ \A u \in Task : state[u] # "UNKNOWN" => state'[u] # "UNKNOWN"
    BY <2>1, WriteState DEF KubeInv, State, Terminal
  <2>3. UNCHANGED job
    BY <1>3 DEF SubmitError, clusterVars
  <2>4. KubeType'
    BY <1>1, <1>2, <2>2, <2>3 DEF KubeInv, KubeType
  <2>5. JobsRest
    BY <1>1, <2>2, <2>3, SameJobs DEF KubeInv, KubeType
  <2>6. QED
    BY <1>1, <1>2, <2>4, <2>5, OutsideStep
<1>4. CASE CreateJob(t) /\ UNCHANGED state
  <2>1. submit[t] = "ready" /\ (UNCHANGED job \/ job' = [job EXCEPT ![t] = "zero"])
    BY <1>4 DEF CreateJob
  <2>2. KubeType'
    BY <1>1, <1>2, <1>4, <2>1 DEF KubeInv, KubeType, JobState
  <2>3. JobsRest
    BY <1>1, <1>4, <2>1 DEF JobsRest, Submitted, KubeInv, KubeType, JobsOnce
  <2>4. QED
    BY <1>1, <1>2, <2>2, <2>3, OutsideStep
<1>5. CASE UNCHANGED <<job, state>>
  <2>1. KubeType' /\ JobsRest
    BY <1>1, <1>2, <1>5, SameJobs DEF KubeInv, KubeType, Submitted
  <2>2. QED
    BY <1>1, <1>2, <2>1, OutsideStep
<1>6. QED
  BY <1>3, <1>4, <1>5 DEF Submit, CreateOwned, CreatePV, CreatePVC

(* Every step of Cancel keeps it.                                          *)
LEMMA CancelStep ==
  ASSUME KubeInv, NEW c \in Canceler, Cancel(c)
  PROVE  KubeInv'
<1>0. c # Reconciler /\ c \in Cleaner
  BY CleanerAssumption DEF Cleaner
<1>1. /\ UNCHANGED <<submit, job, rec>>
      /\ UNCHANGED clean \/ (cancel[c].pc = "dispatch" /\ clean' = [clean EXCEPT ![c] = [pc |-> "job", id |-> cancel[c].id]])
  BY DEF Cancel, CancelRead, CancelWrite, StartClean, backendVars, clusterVars
<1>2. clean'[Reconciler] = clean[Reconciler]
      /\ clean' \in [Cleaner -> CleanCall]
  BY <1>0, <1>1 DEF KubeInv, KubeType, CleanCall, CancelCall, Cleaner
<1>3. UNCHANGED state \/ \E err : cancel[c].id \in Task /\ MultiWrite(cancel[c].id, "CANCELED", err)
  <2>1. cancel[c].pc = "checked" => cancel[c].id \in Task
    BY DEF KubeInv, KubeType, CancelCall
  <2>2. QED
    BY <2>1 DEF Cancel, CancelRead, CancelWrite
<1>4. state' \in [Task -> State] /\ \A u \in Task : state[u] # "UNKNOWN" => state'[u] # "UNKNOWN"
  BY <1>3, WriteState DEF KubeInv, KubeType, State, Terminal
<1>5. cancel' \in [Canceler -> CancelCall]
  <2>0. cancel \in [Canceler -> CancelCall]
    BY DEF KubeInv, KubeType
  <2>1. ASSUME NEW t \in Task, CancelRead(c, t) PROVE cancel' \in [Canceler -> CancelCall]
    BY <2>0, <2>1 DEF CancelRead, CancelGoto, CancelCall
  <2>2. CASE CancelWrite(c)
    BY <2>0, <2>2 DEF CancelWrite, CancelGoto, CancelCall, Idle
  <2>3. CASE CancelGoto(c, Idle)
    BY <2>0, <2>3 DEF CancelGoto, CancelCall, Idle
  <2>4. QED
    BY <2>1, <2>2, <2>3 DEF Cancel
<1>6. KubeType'
  BY <1>1, <1>2, <1>4, <1>5 DEF KubeInv, KubeType
<1>7. JobsRest
  BY <1>1, <1>4, SameJobs DEF KubeInv, KubeType
<1>8. QED
  BY <1>1, <1>2, <1>6, <1>7, OutsideStep

(* Every step of the cluster keeps it.                                     *)
LEMMA PodStep ==
  ASSUME KubeInv, NEW t \in Task, Pod(t)
  PROVE  KubeInv'
<1>1. /\ UNCHANGED <<state, submit, cancel, clean, rec>>
      /\ \/ UNCHANGED job
         \/ job[t] \in {"zero", "retrying", "pending", "active"} /\ \E j \in JobState \ {"none"} : job' = [job EXCEPT ![t] = j]
  BY DEF Pod, PodStarts, PodComes, PodEnds, PodGone, controllerVars, serviceVars, JobState
<1>2. KubeType'
  BY <1>1 DEF KubeInv, KubeType
<1>3. JobsRest
  BY <1>1 DEF JobsRest, Submitted, KubeInv, KubeType, JobsOnce, Resting, Done
<1>4. QED
  BY <1>1, <1>2, <1>3, OutsideStep

(* Every step of a worker keeps it.                                        *)
LEMMA WorkerKept ==
  ASSUME KubeInv, NEW t \in Task, WorkerStep(t)
  PROVE  KubeInv'
<1>1. UNCHANGED <<submit, cancel, job, clean, rec>>
  BY DEF WorkerStep, WorkerActs
<1>2. UNCHANGED state \/ \E s \in State \ {"UNKNOWN"}, err \in BOOLEAN : MultiWrite(t, s, err)
  BY DEF WorkerStep, WorkerActs, WorkerStarts, WorkerRuns, WorkerEnds, WorkerPolls, Report, Write,
         State, Active, Terminal
<1>3. state' \in [Task -> State] /\ \A u \in Task : state[u] # "UNKNOWN" => state'[u] # "UNKNOWN"
  BY <1>2, WriteState DEF KubeInv, KubeType
<1>4. KubeType' /\ JobsRest
  BY <1>1, <1>3, SameJobs DEF KubeInv, KubeType
<1>5. QED
  BY <1>1, <1>4, OutsideStep

(* A clean-up step, of the reconciler's own or another's.                  *)
LEMMA CleanUpStep ==
  ASSUME KubeInv, NEW a \in Cleaner, cleanResources(a)
  PROVE  KubeInv'
<1>1. UNCHANGED <<state, submit, cancel, rec>>
  BY DEF cleanResources, serviceVars
<1>2. clean[a].pc \in {"job", "execs", "pv"} /\ clean[a].id \in Task
  BY DEF cleanResources, DeleteJob, DeleteExecutorJobs, DeletePV, KubeInv, KubeType, CleanCall
<1>3. \/ clean' = [clean EXCEPT ![a] = NoClean]
      \/ \E p \in {"execs", "pv"} : clean' = [clean EXCEPT ![a].pc = p]
  BY DEF cleanResources, DeleteJob, DeleteExecutorJobs, DeletePV, CleanGoto
<1>4. clean' \in [Cleaner -> CleanCall]
  BY <1>2, <1>3 DEF KubeInv, KubeType, NoClean, CleanCall
<1>5. UNCHANGED job \/ job' = [job EXCEPT ![clean[a].id] = "none"]
  BY DEF cleanResources, DeleteJob, DeleteExecutorJobs, DeletePV
<1>6. KubeType'
  BY <1>1, <1>2, <1>4, <1>5 DEF KubeInv, KubeType, JobState
<1>7. JobsRest
  BY <1>1, <1>2, <1>5 DEF JobsRest, Submitted, KubeInv, KubeType, JobsOnce, Resting, Done
<1>8. CASE a # Reconciler
  <2>1. clean'[Reconciler] = clean[Reconciler]
    BY <1>3, <1>8 DEF KubeInv, KubeType, Cleaner
  <2>2. QED
    BY <1>1, <1>6, <1>7, <2>1, OutsideStep
<1>9. CASE a = Reconciler
  <2>0. clean \in [Cleaner -> CleanCall] /\ clean[a] \in [pc : {"job", "execs", "pv"}, id : Task]
    BY <1>2 DEF KubeInv, KubeType, CleanCall
  <2>1. clean'[Reconciler].pc # "job"
    BY <1>3, <1>9, <2>0 DEF NoClean
  <2>2. JobsOnce' /\ CleanInv'
    BY <1>7, <2>1 DEF JobsRest, JobsOnce, CleanInv
  <2>3. QED
    BY <1>1, <1>6, <1>7, <2>2, ListKept DEF KubeInv
<1>10. QED
  BY <1>8, <1>9

(* A restart of the server keeps it.                                       *)
LEMMA RestartStep ==
  ASSUME KubeInv, Restart
  PROVE  KubeInv'
<1>1. KubeType'
  BY DEF Restart, KubeInv, KubeType, SubmitStage, Idle, NoClean, CleanCall, CancelCall, clusterVars, Backlog
<1>2. JobsOnce'
  BY DEF Restart, KubeInv, KubeType, JobsOnce, Submitted, clusterVars
<1>3. ListInv' /\ CleanInv'
  BY DEF Restart, ListInv, CleanInv, Ticks
<1>4. QED
  BY <1>1, <1>2, <1>3 DEF KubeInv

(* Nor does the SYSTEM_ERROR that the reconciler writes.                   *)
LEMMA ErrorState ==
  ASSUME KubeType, NEW t \in Task, UNCHANGED state \/ writeSystemError(t)
  PROVE  state' \in [Task -> State] /\ \A u \in Task : state[u] # "UNKNOWN" => state'[u] # "UNKNOWN"
BY DEF writeSystemError, KubeType, State, Terminal

(* A step of the reconciler.                                               *)
LEMMA RecStep ==
  ASSUME KubeInv, UNCHANGED <<submit, cancel, job>>,
         state' \in [Task -> State], \A u \in Task : state[u] # "UNKNOWN" => state'[u] # "UNKNOWN",
         rec' \in Backlog \cup Ticks, UNCHANGED clean \/ \E t \in Task : RecClean(t), ListInv', CleanInv'
  PROVE  KubeInv'
<1>1. clean' \in [Cleaner -> CleanCall]
  BY DEF RecClean, StartClean, KubeInv, KubeType, CleanCall
<1>2. KubeType'
  BY <1>1 DEF KubeInv, KubeType
<1>3. JobsRest
  BY SameJobs
<1>4. QED
  BY <1>2, <1>3 DEF JobsRest, JobsOnce, KubeInv

(* A step that leaves the reconciler looking deletes nothing.              *)
LEMMA NoCleaning ==
  ASSUME Looking, UNCHANGED clean
  PROVE  CleanInv'
BY DEF Looking, NoClean, CleanInv

(* The reconciler turns to deleting the resources of a task whose job      *)
(* rests.                                                                  *)
LEMMA Cleaning ==
  ASSUME KubeInv, NEW t \in Task, RecClean(t), Submitted(t)', job'[t] \in Resting
  PROVE  CleanInv'
BY DEF RecClean, StartClean, KubeInv, KubeType, CleanInv, Cleaner

(* The backlog of a restarted server.                                      *)
LEMMA BacklogStep ==
  ASSUME KubeInv, Unowned, Looking, BacklogList \/ BacklogClean \/ Sweep
  PROVE  KubeInv'
<1>1. UNCHANGED <<state, submit, cancel, job>>
  BY DEF BacklogList, BacklogClean, Sweep, recVars, clusterVars
<1>2. \/ rec' \in Backlog /\ (UNCHANGED clean \/ \E t \in Task : RecClean(t))
      \/ rec' = [pc |-> "tick"] /\ UNCHANGED clean
  <2>1. CASE BacklogList
    <3>1. PICK ids \in SUBSET Task : rec' \in {[pc |-> "backlog", ids |-> ids], [pc |-> "tick"]}
      BY <2>1 DEF BacklogList
    <3>2. QED
      BY <2>1, <3>1 DEF BacklogList, NoCleanUp, Backlog
  <2>2. CASE BacklogClean
    <3>1. rec.pc = "backlog" /\ rec \in [pc : {"backlog", "sweep"}, ids : SUBSET Task]
      BY <2>2 DEF BacklogClean, KubeInv, KubeType, Backlog, Ticks
    <3>2. CASE \E t \in rec.ids : rec' = [rec EXCEPT !.ids = @ \ {t}] /\ RecClean(t)
      BY <3>1, <3>2 DEF Backlog
    <3>3. CASE rec' \in [pc : {"sweep"}, ids : {pv \cup exec, pv, exec, {}}] /\ NoCleanUp
      BY <3>3 DEF Backlog, Unowned, NoCleanUp
    <3>4. QED
      BY <2>2, <3>2, <3>3 DEF BacklogClean
  <2>3. CASE Sweep
    <3>1. rec.pc = "sweep" /\ rec \in [pc : {"backlog", "sweep"}, ids : SUBSET Task]
      BY <2>3 DEF Sweep, KubeInv, KubeType, Backlog, Ticks
    <3>2. CASE \E t \in rec.ids : rec' = [rec EXCEPT !.ids = @ \ {t}] /\ (RecClean(t) \/ NoCleanUp)
      BY <3>1, <3>2 DEF Backlog, NoCleanUp
    <3>3. CASE rec' = [pc |-> "tick"] /\ NoCleanUp
      BY <3>3 DEF NoCleanUp
    <3>4. QED
      BY <2>3, <3>2, <3>3 DEF Sweep
  <2>4. QED
    BY <2>1, <2>2, <2>3
<1>3. CASE rec' \in Backlog /\ (UNCHANGED clean \/ \E t \in Task : RecClean(t))
  <2>1. ListInv' /\ CleanInv'
    BY <1>3 DEF ListInv, CleanInv, Backlog, Ticks
  <2>2. QED
    BY <1>1, <1>3, <2>1, RecStep DEF KubeInv, KubeType
<1>4. CASE rec' = [pc |-> "tick"] /\ UNCHANGED clean
  <2>1. ListInv' /\ CleanInv'
    BY <1>4, NoCleaning DEF ListInv
  <2>2. rec' \in Ticks
    BY <1>4 DEF Ticks
  <2>3. QED
    BY <1>1, <1>4, <2>1, <2>2, RecStep DEF KubeInv, KubeType
<1>5. QED
  BY <1>2, <1>3, <1>4

(* Every step keeps the resources those of tasks.                          *)
LEMMA UnownedStep ==
  ASSUME Unowned, [Next]_vars
  PROVE  Unowned'
<1>1. ASSUME NEW t \in Task, Service(t) \/ Submit(t) \/ Pod(t) PROVE Unowned'
  BY <1>1 DEF Service, backendVars, Submit, CreateJob, CreateOwned, CreatePV, CreatePVC, SubmitError, Pod,
              PodStarts, PodComes, PodEnds, PodGone, controllerVars, clusterVars, Unowned
<1>2. ASSUME NEW t \in Task, WorkerStep(t) PROVE Unowned'
  BY <1>2 DEF WorkerStep, Unowned
<1>3. ASSUME NEW c \in Canceler, Cancel(c) PROVE Unowned'
  BY <1>3 DEF Cancel, backendVars, clusterVars, Unowned
<1>4. ASSUME NEW a \in Cleaner, cleanResources(a) PROVE Unowned'
  BY <1>4 DEF cleanResources, DeleteJob, DeleteExecutorJobs, DeletePV, Unowned
<1>5. CASE reconcile
  BY <1>5 DEF reconcile, BacklogList, BacklogClean, Sweep, TickList, ListTasks, reconcileJob, Orphans, recVars,
              clusterVars, Unowned
<1>6. CASE Restart
  BY <1>6 DEF Restart, clusterVars, Unowned
<1>7. CASE UNCHANGED vars
  BY <1>7 DEF vars, clusterVars, Unowned
<1>8. QED
  BY <1>1, <1>2, <1>3, <1>4, <1>5, <1>6, <1>7 DEF Next

(* What is left of a listing when one job is matched.                      *)
LEMMA WithoutList ==
  ASSUME NEW jobs \in JobList, NEW t
  PROVE  /\ Without(jobs, t) \in JobList
         /\ DOMAIN Without(jobs, t) \subseteq DOMAIN jobs
         /\ \A u \in DOMAIN Without(jobs, t) : Without(jobs, t)[u] = jobs[u]
<1>1. PICK D \in SUBSET Task : jobs \in [D -> JobState]
  BY DEF JobList
<1>2. Without(jobs, t) \in [D \ {t} -> JobState] /\ D \ {t} \in SUBSET Task
  BY <1>1 DEF Without
<1>3. Without(jobs, t) \in JobList
  BY <1>2 DEF JobList
<1>4. QED
  BY <1>1, <1>2, <1>3 DEF Without

(* The reconciler goes on with the list it has, or with less of it.        *)
LEMMA ShorterList ==
  ASSUME KubeInv, rec.pc \in {"list", "job", "orphans"}, UNCHANGED <<submit, job>>,
         \A u \in Task : state[u] # "UNKNOWN" => state'[u] # "UNKNOWN",
         rec'.pc \in {"list", "job", "orphans"} =>
           rec'.jobs = rec.jobs \/ \E t : rec'.jobs = Without(rec.jobs, t)
  PROVE  ListInv'
<1>1. rec.jobs \in JobList
  BY DEF KubeInv, KubeType, Ticks, Backlog
<1>2. \A t \in DOMAIN rec.jobs : t \in Task
  BY <1>1 DEF JobList
<1>3. SUFFICES ASSUME rec'.pc \in {"list", "job", "orphans"}, NEW u \in DOMAIN rec'.jobs
               PROVE  Submitted(u)' /\ (rec'.jobs[u] \in Done => job'[u] \in {"none", rec'.jobs[u]})
  BY DEF ListInv
<1>4. u \in DOMAIN rec.jobs /\ rec'.jobs[u] = rec.jobs[u]
  BY <1>1, <1>3, WithoutList
<1>5. QED
  BY <1>2, <1>4 DEF KubeInv, ListInv, Submitted

(* Where a tick goes from the listing of one state to the next.            *)
LEMMA NextStateType ==
  ASSUME NEW n \in 1..3, NEW jobs \in JobList
  PROVE  NextState(n, jobs) \in Ticks /\ NextState(n, jobs).pc \in {"list", "orphans"} /\ NextState(n, jobs).jobs = jobs
BY DEF NextState, Ticks

(* Listing the jobs keeps the invariant.                                   *)
LEMMA TickListStep ==
  ASSUME KubeInv, Looking, TickList
  PROVE  KubeInv'
<1>1. UNCHANGED <<state, submit, cancel, job, clean>>
  BY DEF TickList, recVars, clusterVars, NoCleanUp
<1> DEFINE jobs == [t \in {u \in Task : job[u] # "none"} |-> job[t]]
<1>2. jobs \in JobList
  <2>1. jobs \in [{u \in Task : job[u] # "none"} -> JobState] /\ {u \in Task : job[u] # "none"} \in SUBSET Task
    BY DEF KubeInv, KubeType
  <2>2. QED
    BY <2>1 DEF JobList
<1>3. rec' = [pc |-> "list", at |-> 1, jobs |-> jobs]
  BY DEF TickList
<1>4. rec' \in Ticks
  <2>1. rec' \in [pc : {"list"}, at : 1..3, jobs : JobList]
    BY <1>2, <1>3
  <2>2. QED
    BY <2>1 DEF Ticks
<1>5. ListInv'
  BY <1>1, <1>3 DEF ListInv, KubeInv, JobsOnce, Submitted
<1>6. QED
  BY <1>1, <1>4, <1>5, NoCleaning, RecStep DEF KubeInv, KubeType

(* So does listing the tasks of one state.                                 *)
LEMMA ListTasksStep ==
  ASSUME KubeInv, Looking, ListTasks
  PROVE  KubeInv'
<1>1. UNCHANGED <<state, submit, cancel, job, clean>>
  BY DEF ListTasks, recVars, clusterVars, NoCleanUp
<1>2. rec.pc = "list" /\ rec.at \in 1..3 /\ rec.jobs \in JobList
  BY DEF ListTasks, KubeInv, KubeType, Backlog, Ticks
<1>3. \/ rec' = NextState(rec.at, rec.jobs)
      \/ \E ids \in SUBSET Task : rec' = [pc |-> "job", at |-> rec.at, jobs |-> rec.jobs, ids |-> ids]
  BY DEF ListTasks
<1>4. rec' \in Ticks /\ rec'.jobs = rec.jobs
  BY <1>2, <1>3, NextStateType DEF Ticks
<1>5. ListInv'
  BY <1>1, <1>2, <1>4, ShorterList
<1>6. QED
  BY <1>1, <1>4, <1>5, NoCleaning, RecStep DEF KubeInv, KubeType

(* Where a tick goes from a matched job.                                   *)
LEMMA MatchedType ==
  ASSUME KubeInv, rec.pc = "job", NEW t \in rec.ids
  PROVE  /\ Matched(t) \in Ticks
         /\ Matched(t).jobs = Without(rec.jobs, t)
<1>1. rec \in [pc : {"job"}, at : 1..3, jobs : JobList, ids : SUBSET Task]
  BY DEF KubeInv, KubeType, Backlog, Ticks
<1>2. Without(rec.jobs, t) \in JobList
  BY <1>1, WithoutList
<1>3. CASE rec.ids = {t}
  BY <1>1, <1>2, <1>3, NextStateType DEF Matched
<1>4. CASE rec.ids # {t}
  BY <1>1, <1>2, <1>4 DEF Matched, Ticks
<1>5. QED
  BY <1>3, <1>4

(* What the reconciler deletes is at rest.                                 *)
LEMMA ReconcileJobStep ==
  ASSUME KubeInv, Looking, reconcileJob
  PROVE  KubeInv'
<1>1. UNCHANGED <<submit, cancel, job>> /\ rec.pc = "job"
  BY DEF reconcileJob, recVars, clusterVars
<1>2. PICK t \in rec.ids :
        /\ rec' = Matched(t)
        /\ \/ FailedJob(t)
           \/ WaitingJob(t)
           \/ t \in DOMAIN rec.jobs /\ rec.jobs[t] = "succeeded" /\ RecClean(t) /\ Ok /\ UNCHANGED state
           \/ t \in DOMAIN rec.jobs /\ NoCleanUp /\ Fault /\ UNCHANGED state
           \/ NoJob(t)
  BY DEF reconcileJob
<1>3. t \in Task
  BY <1>1 DEF KubeInv, KubeType, Backlog, Ticks
<1>4. UNCHANGED state \/ writeSystemError(t)
  BY <1>2 DEF FailedJob, WaitingJob, NoJob, Nothing
<1>5. state' \in [Task -> State] /\ \A u \in Task : state[u] # "UNKNOWN" => state'[u] # "UNKNOWN"
  BY <1>3, <1>4, ErrorState DEF KubeInv
<1>6. rec' \in Ticks /\ ListInv'
  BY <1>1, <1>2, <1>5, MatchedType, ShorterList
<1>7. \/ UNCHANGED clean
      \/ /\ RecClean(t) /\ t \in DOMAIN rec.jobs
         /\ rec.jobs[t] \in Done \/ job[t] \in {"stuck", "rejected"}
  BY <1>2 DEF FailedJob, WaitingJob, NoJob, Nothing, NoCleanUp, Done
<1>8. CASE UNCHANGED clean
  BY <1>1, <1>5, <1>6, <1>8, NoCleaning, RecStep
<1>9. ASSUME RecClean(t), t \in DOMAIN rec.jobs, rec.jobs[t] \in Done \/ job[t] \in {"stuck", "rejected"}
      PROVE  KubeInv'
  <2>1. Submitted(t) /\ job[t] \in Resting
    BY <1>1, <1>9 DEF KubeInv, ListInv, Resting, Done
  <2>2. Submitted(t)'
    BY <1>1, <1>3, <1>5, <2>1 DEF Submitted
  <2>3. CleanInv'
    BY <1>1, <1>3, <1>9, <2>1, <2>2, Cleaning
  <2>4. QED
    BY <1>1, <1>3, <1>5, <1>6, <1>9, <2>3, RecStep
<1>10. QED
  BY <1>7, <1>8, <1>9

(* So does the deletion of jobs that no task matched.                      *)
LEMMA OrphansStep ==
  ASSUME KubeInv, Looking, Orphans
  PROVE  KubeInv'
<1>1. UNCHANGED <<state, submit, cancel, job>> /\ rec.pc = "orphans"
  BY DEF Orphans, recVars, clusterVars
<1>2. rec \in [pc : {"orphans"}, jobs : JobList]
  BY <1>1 DEF KubeInv, KubeType, Backlog, Ticks
<1>3. ASSUME NEW t \in DOMAIN rec.jobs, rec' = [rec EXCEPT !.jobs = Without(@, t)],
             IF rec.jobs[t] \in Done THEN RecClean(t) ELSE NoCleanUp
      PROVE  KubeInv'
  <2>1. t \in Task
    BY <1>2 DEF JobList
  <2>2. rec' \in Ticks /\ rec'.jobs = Without(rec.jobs, t)
    BY <1>2, <1>3, WithoutList DEF Ticks
  <2>3. ListInv'
    BY <1>1, <2>2, ShorterList
  <2>4. CASE rec.jobs[t] \in Done
    <3>1. RecClean(t) /\ Submitted(t)' /\ job'[t] \in Resting
      BY <1>1, <1>3, <2>4 DEF KubeInv, ListInv, Resting, Submitted
    <3>2. QED
      BY <1>1, <2>1, <2>2, <2>3, <3>1, Cleaning, RecStep DEF KubeInv, KubeType
  <2>5. CASE rec.jobs[t] \notin Done
    BY <1>1, <1>3, <2>2, <2>3, <2>5, NoCleaning, RecStep DEF NoCleanUp, KubeInv, KubeType
  <2>6. QED
    BY <2>4, <2>5
<1>4. CASE rec' = [pc |-> "tick"] /\ NoCleanUp
  <2>1. ListInv' /\ rec' \in Ticks
    BY <1>4 DEF ListInv, Ticks
  <2>2. QED
    BY <1>1, <1>4, <2>1, NoCleaning, RecStep DEF NoCleanUp, KubeInv, KubeType
<1>5. QED
  BY <1>3, <1>4 DEF Orphans

(* The reconcile loop deletes no worker job that has a running pod or that *)
(* Kubernetes still retries, however old its list of jobs: SparesWorkers,  *)
(* for any number of tasks, cancels, restarts and refused calls            *)
(* (reconcileJob, reconcileOnce).                                          *)
THEOREM SparesCorrect == Spec => []SparesWorkers
<1>1. Init => KubeInv /\ Unowned
  <2> SUFFICES ASSUME Init PROVE KubeInv /\ Unowned
    OBVIOUS
  <2>1. KubeType
    BY DEF Init, ServiceInit, KubeType, State, SubmitStage, JobState, CleanCall, CancelCall, Idle, NoClean, Backlog
  <2>2. JobsOnce /\ ListInv /\ CleanInv /\ Unowned
    BY DEF Init, ServiceInit, JobsOnce, ListInv, CleanInv, Ticks, Unowned
  <2>3. QED
    BY <2>1, <2>2 DEF KubeInv
<1>2. KubeInv /\ Unowned /\ [Next]_vars => KubeInv' /\ Unowned'
  <2> SUFFICES ASSUME KubeInv, Unowned, [Next]_vars PROVE KubeInv'
    BY UnownedStep
  <2>1. CASE reconcile
    BY <2>1, BacklogStep, TickListStep, ListTasksStep, ReconcileJobStep, OrphansStep DEF reconcile
  <2>2. CASE UNCHANGED vars
    BY <2>2 DEF vars, serviceVars, clusterVars, KubeInv, KubeType, JobsOnce, ListInv, CleanInv, Submitted
  <2>3. QED
    BY <2>1, <2>2, ServiceStep, SubmitStep, PodStep, WorkerKept, CancelStep, CleanUpStep, RestartStep DEF Next
<1>3. KubeInv => SparesWorkers
  BY TicksType DEF KubeInv, KubeType, CleanInv, Resting, SparesWorkers
<1>4. QED
  BY <1>1, <1>2, <1>3, PTL DEF Spec

-----------------------------------------------------------------------------
(* The account that workers share.                                         *)

(* The types of the variables that the argument reads.                     *)
AccountType ==
  /\ account \in BOOLEAN
  /\ pod \in [Sharer -> {"none", "live", "terminating"}]
  /\ cleaning \in [Sharer -> {"no", "job", "look", "delete", "over"}]
  /\ late \in SUBSET Sharer

(* Between its look for pods and its deletion a clean-up may rely on what  *)
(* it saw: a pod that is there now and was not then is late.               *)
LooksHold ==
  \A s \in Sharer : cleaning[s] = "delete" =>
    \A t \in Sharer : pod[t] = "live" => t \in late

(* The inductive invariant.                                                *)
AccountInv == AccountType /\ AccountKept /\ LooksHold

(* The steps of createResources before and after the account touch neither *)
(* pods nor account, and Cancel after a failure begins a new clean-up.     *)
LEMMA SetupStep ==
  ASSUME AccountInv, NEW t \in Sharer,
         UNCHANGED <<account, pod, late>>,
         Fails(t) \/ UNCHANGED cleaning
  PROVE  AccountInv'
<1>1. /\ cleaning' \in [Sharer -> {"no", "job", "look", "delete", "over"}]
      /\ \A s \in Sharer : cleaning'[s] = "delete" => cleaning[s] = "delete"
  BY DEF AccountInv, AccountType, Fails
<1>2. QED
  BY <1>1 DEF AccountInv, AccountType, AccountKept, LooksHold

(* The inductive step, by action.                                          *)
LEMMA AccountStep ==
  ASSUME AccountInv, AccountNext
  PROVE  AccountInv'
<1> PICK t \in Sharer :
      \/ CreateWorkerJob(t) \/ CreateConfigMap(t) \/ GetServiceAccount(t) \/ CreateServiceAccount(t)
      \/ CreateRole(t) \/ CreateRoleBinding(t)
      \/ AccountPodComes(t) \/ AccountPodGoes(t)
      \/ CleanStarts(t) \/ CleanJob(t) \/ LookForPods(t) \/ DeleteServiceAccount(t)
  BY DEF AccountNext
<1>1. CASE CreateWorkerJob(t)
  BY <1>1, SetupStep DEF CreateWorkerJob
<1>2. CASE CreateConfigMap(t) \/ CreateRole(t) \/ CreateRoleBinding(t)
  BY <1>2, SetupStep DEF CreateConfigMap, CreateRole, CreateRoleBinding, CreateOwnedObject
<1>3. CASE GetServiceAccount(t)
  BY <1>3, SetupStep DEF GetServiceAccount
<1>4. CASE CreateServiceAccount(t)
  <2>1. CASE UNCHANGED account
    BY <1>4, <2>1, SetupStep DEF CreateServiceAccount
  <2>2. CASE account' = TRUE /\ UNCHANGED cleaning
    BY <1>4, <2>2 DEF CreateServiceAccount, AccountInv, AccountType, AccountKept, LooksHold
  <2>3. QED
    BY <1>4, <2>1, <2>2 DEF CreateServiceAccount
<1>5. CASE AccountPodComes(t)
  BY <1>5 DEF AccountPodComes, AccountInv, AccountType, AccountKept, LooksHold
<1>6. CASE AccountPodGoes(t)
  BY <1>6 DEF AccountPodGoes, AccountInv, AccountType, AccountKept, LooksHold
<1>7. CASE CleanStarts(t) \/ CleanJob(t)
  BY <1>7 DEF CleanStarts, CleanJob, CleanGoes, AccountInv, AccountType, AccountKept, LooksHold
<1>8. CASE LookForPods(t)
  BY <1>8 DEF LookForPods, Attached, CleanGoes, AccountInv, AccountType, AccountKept, LooksHold
<1>9. CASE DeleteServiceAccount(t)
  BY <1>9 DEF DeleteServiceAccount, CleanGoes, AccountInv, AccountType, AccountKept, LooksHold
<1>10. QED
  BY <1>1, <1>2, <1>3, <1>4, <1>5, <1>6, <1>7, <1>8, <1>9

(* However many tasks name the account and in whatever order they are set  *)
(* up and cleaned up, no clean-up takes the account from a worker's pod it *)
(* could have seen (DeleteServiceAccount, isServiceAccountAttachedToPods). *)
THEOREM AccountCorrect == AccountSpec => []AccountKept
<1>1. AccountInit => AccountInv
  BY DEF AccountInit, Blank, AccountInv, AccountType, AccountKept, LooksHold
<1>2. AccountInv /\ [AccountNext]_accountVars => AccountInv'
  <2>1. AccountInv /\ UNCHANGED accountVars => AccountInv'
    BY DEF accountVars, AccountInv, AccountType, AccountKept, LooksHold
  <2>2. QED
    BY <2>1, AccountStep
<1>3. AccountInv => AccountKept
  BY DEF AccountInv
<1>4. QED
  BY <1>1, <1>2, <1>3, PTL DEF AccountSpec
=============================================================================
