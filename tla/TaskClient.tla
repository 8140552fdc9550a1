----------------------------- MODULE TaskClient -----------------------------
(* The commands that talk to a server over HTTP: `funnel run`, with one    *)
(* goroutine per task, and `funnel task create`, `task cancel` and         *)
(* `task wait`.  A request may fail, or its answer be lost after the       *)
(* server acted, and tasks move on while a command polls them.             *)
EXTENDS TaskStates, Naturals, Sequences

CONSTANTS
  NewTask,          \* sequence of the tasks a command is to create
  OldTask,          \* sequence of tasks there are already, named by a command
  MaxClientFaults   \* requests without an answer

New == {NewTask[k] : k \in DOMAIN NewTask}
Old == {OldTask[k] : k \in DOMAIN OldTask}

ASSUME ClientAssumption ==
  /\ NewTask \in Seq(New) /\ OldTask \in Seq(Old)
  /\ NewTask # <<>> /\ OldTask # <<>>
  /\ \A i, j \in 1..Len(NewTask) : NewTask[i] = NewTask[j] => i = j
  /\ New \cap Old = {}

VARIABLES
  verb,      \* the command: "run", "create", "cancel" or "wait"
  waits,     \* tasks given with --wait
  waitFor,   \* the tasks that each new task waits for (--wait-for)
  invalid,   \* new tasks that Validate refuses
  badArgs,   \* new tasks whose arguments do not parse
  tstate,    \* what the server has: a state, or "none" before the creation
  gor,       \* what the goroutine of each new task does
  waitedFor, \* how many of waitFor it is done with
  unread,    \* the tasks it could not read while it waited for them
  pos,       \* how far the command itself is in its sequence
  done,      \* the variable of that name in WaitForTask
  exit,      \* "running", "ok" or "failed"
  clientFaults

clientVars == <<verb, waits, waitFor, invalid, badArgs, tstate, gor, waitedFor,
                unread, pos, done, exit, clientFaults>>

(* Flags of each task of `run` (without --print, which only prints the     *)
(* tasks), of which the first waits for nothing and at most one is         *)
(* refused.                                                                *)
ClientInit ==
  /\ verb \in {"run", "create", "cancel", "wait"}
  /\ \/ /\ verb = "run"
        /\ waits \in SUBSET New
        /\ \E names \in {<<>>, OldTask} :
             waitFor = [w \in New |-> IF w = NewTask[1] THEN <<>> ELSE names]
        /\ badArgs \in {{}} \cup {{w} : w \in New}
     \/ /\ verb # "run"
        /\ waits = {} /\ badArgs = {}
        /\ waitFor = [w \in New |-> <<>>]
  /\ invalid \in (IF verb \in {"run", "create"}
                  THEN {{}} \cup {{w} : w \in New} ELSE {{}})
  /\ invalid = {} \/ badArgs = {}
  /\ tstate = [t \in New \cup Old |-> IF t \in New THEN "none" ELSE "QUEUED"]
  /\ gor = [w \in New |-> "none"] /\ waitedFor = [w \in New |-> 0]
  /\ unread = [w \in New |-> {}]
  /\ pos = 1 /\ done = FALSE /\ exit = "running" /\ clientFaults = 0

(* No command at all.                                                      *)
ClientOver ==
  /\ verb = "wait" /\ waits = {} /\ invalid = {} /\ badArgs = {}
  /\ waitFor = [w \in New |-> <<>>]
  /\ tstate = [t \in New \cup Old |-> IF t \in New THEN "none" ELSE "COMPLETE"]
  /\ gor = [w \in New |-> "none"] /\ waitedFor = [w \in New |-> 0]
  /\ unread = [w \in New |-> {}]
  /\ pos = 1 /\ done = TRUE /\ exit = "ok" /\ clientFaults = MaxClientFaults

----------------------------------------------------------------------------
Args == <<verb, waits, waitFor, invalid, badArgs>>

NoAnswer(err) ==
  /\ err => clientFaults < MaxClientFaults
  /\ clientFaults' = IF err THEN clientFaults + 1 ELSE clientFaults

GorGoto(w, s) == gor' = [gor EXCEPT ![w] = s]

(* The tasks whose states the command reads.                               *)
Watched ==
  IF verb = "run" THEN waits \cup UNION {{waitFor[w][k] : k \in DOMAIN waitFor[w]} : w \in New} ELSE Old

(* A task the server has ends in some state.  The states before are all    *)
(* the same to a client, and so is what happens to tasks it does not read, *)
(* or after the command.                                                   *)
TaskMoves(t) ==
  /\ exit = "running" /\ t \in Watched /\ tstate[t] \in Active
  /\ \E s \in Terminal : tstate' = [tstate EXCEPT ![t] = s]
  /\ UNCHANGED <<Args, gor, waitedFor, unread, pos, done, exit, clientFaults>>

(* The switch of WaitForTask on the state GetTask returned.                *)
WaitOutcome(s) ==
  IF s = "COMPLETE" THEN "done"
  ELSE IF s \in {"EXECUTOR_ERROR", "SYSTEM_ERROR", "CANCELED"} THEN "error"
  ELSE "again"

(* CreateTask of the client: Validate, the POST, and whether the server    *)
(* has the task afterwards.  An answer that does not come is an error, and *)
(* the task may have been created.                                         *)
ClientCreate(w, err) ==
  \E applied \in BOOLEAN :
    /\ NoAnswer(err)
    /\ w \in invalid => ~err /\ ~applied
    /\ w \notin invalid /\ ~err => applied
    /\ tstate' = IF applied THEN [tstate EXCEPT ![w] = "QUEUED"] ELSE tstate

----------------------------------------------------------------------------
(* Run: the tasks are started in the order of the scatter file, and        *)
(* arguments that do not parse end the process, with the goroutines that   *)
(* were started before.                                                    *)
LaunchTask ==
  /\ verb = "run" /\ exit = "running" /\ pos <= Len(NewTask)
  /\ LET w == NewTask[pos] IN
     IF w \in badArgs
     THEN exit' = "failed" /\ UNCHANGED <<gor, pos>>
     ELSE /\ GorGoto(w, IF waitFor[w] = <<>> THEN "create" ELSE "waitFor")
          /\ pos' = pos + 1 /\ UNCHANGED exit
  /\ UNCHANGED <<Args, tstate, waitedFor, unread, done, clientFaults>>

(* WaitForTask of one task returns: the task ended, or could not be read.  *)
WaitOver(err, s) == err \/ WaitOutcome(s) # "again"

(* _run before the creation: WaitForTask for each of waitFor, with what it *)
(* returns dropped.                                                        *)
WaitBefore(w) ==
  /\ exit = "running" /\ gor[w] = "waitFor"
  /\ LET t == waitFor[w][waitedFor[w] + 1] IN
     \E err \in BOOLEAN :
       /\ NoAnswer(err)
       /\ WaitOver(err, tstate[t])
       /\ unread' = IF err THEN [unread EXCEPT ![w] = @ \cup {t}] ELSE unread
       /\ waitedFor' = [waitedFor EXCEPT ![w] = @ + 1]
       /\ IF waitedFor[w] + 1 = Len(waitFor[w])
          THEN GorGoto(w, "create") ELSE UNCHANGED gor
  /\ UNCHANGED <<Args, tstate, pos, done, exit>>

(* _run: the creation, then the end or the wait for the new task.          *)
RunCreate(w) ==
  /\ exit = "running" /\ gor[w] = "create"
  /\ \E err \in BOOLEAN :
       /\ ClientCreate(w, err)
       /\ GorGoto(w, IF err \/ w \in invalid THEN "error"
                     ELSE IF w \in waits THEN "wait" ELSE "returned")
  /\ UNCHANGED <<Args, waitedFor, unread, pos, done, exit>>

(* _run returns WaitForTask of the new task.                               *)
WaitAfter(w) ==
  /\ exit = "running" /\ gor[w] = "wait"
  /\ \E err \in BOOLEAN :
       /\ NoAnswer(err)
       /\ WaitOver(err, tstate[w])
       /\ GorGoto(w, IF err \/ WaitOutcome(tstate[w]) = "error"
                     THEN "error" ELSE "returned")
  /\ UNCHANGED <<Args, tstate, waitedFor, unread, pos, done, exit>>

(* The end of the first goroutine taken for the end of all.                *)
AnyReturned == \E w \in New : gor[w] = "returned"

(* wg.Wait returned.                                                       *)
AllReturned == \A w \in New : gor[w] = "returned"

(* taskGroup.wait: the first error on the channel, or the end of every     *)
(* goroutine.  The process ends, and the other goroutines with it.         *)
RunReturns ==
  /\ verb = "run" /\ exit = "running" /\ pos > Len(NewTask)
  /\ \/ (\E w \in New : gor[w] = "error") /\ exit' = "failed"
     \/ AllReturned /\ exit' = "ok"
  /\ UNCHANGED <<Args, tstate, gor, waitedFor, unread, pos, done, clientFaults>>

----------------------------------------------------------------------------
(* task create: one task after the other, up to the first error.           *)
CreateNext ==
  /\ verb = "create" /\ exit = "running"
  /\ IF pos > Len(NewTask)
     THEN exit' = "ok" /\ UNCHANGED <<tstate, pos, clientFaults>>
     ELSE \E err \in BOOLEAN :
            /\ ClientCreate(NewTask[pos], err)
            /\ IF err \/ NewTask[pos] \in invalid
               THEN exit' = "failed" /\ UNCHANGED pos
               ELSE pos' = pos + 1 /\ UNCHANGED exit
  /\ UNCHANGED <<Args, gor, waitedFor, unread, done>>

(* What the server makes of a task: one that may still change is canceled, *)
(* and for any other there is a message, which messageHandler puts into    *)
(* the body in place of the empty response.                                *)
CancelOf(s) == IF s \in Terminal THEN s ELSE "CANCELED"

(* CancelTaskWithMessage: the POST; a message is as good as the response.  *)
CancelTaskWithMessage(t, err) ==
  \E applied \in BOOLEAN :
    /\ NoAnswer(err)
    /\ ~err => applied
    /\ tstate' = IF applied THEN [tstate EXCEPT ![t] = CancelOf(@)] ELSE tstate

(* task cancel: one id after the other, up to the first error.             *)
CancelNext ==
  /\ verb = "cancel" /\ exit = "running"
  /\ IF pos > Len(OldTask)
     THEN exit' = "ok" /\ UNCHANGED <<tstate, pos, clientFaults>>
     ELSE \E err \in BOOLEAN :
            /\ CancelTaskWithMessage(OldTask[pos], err)
            /\ IF err THEN exit' = "failed" /\ UNCHANGED pos
               ELSE pos' = pos + 1 /\ UNCHANGED exit
  /\ UNCHANGED <<Args, gor, waitedFor, unread, done>>

(* task wait: WaitForTask of several tasks.  Each is read in every round,  *)
(* and "done" is what the last one of the round left in it.                *)
WaitNext ==
  /\ verb = "wait" /\ exit = "running"
  /\ IF pos > Len(OldTask)
     THEN /\ IF done THEN exit' = "ok" /\ UNCHANGED <<pos, done>>
             ELSE pos' = 1 /\ done' = FALSE /\ UNCHANGED exit
          /\ UNCHANGED clientFaults
     ELSE \E err \in BOOLEAN :
            /\ NoAnswer(err)
            /\ LET out == WaitOutcome(tstate[OldTask[pos]]) IN
               IF err \/ out = "error"
               THEN exit' = "failed" /\ UNCHANGED <<pos, done>>
               ELSE pos' = pos + 1 /\ done' = (out = "done") /\ UNCHANGED exit
  /\ UNCHANGED <<Args, tstate, gor, waitedFor, unread>>

Goroutine(w) == WaitBefore(w) \/ RunCreate(w) \/ WaitAfter(w)

Command == LaunchTask \/ RunReturns \/ CreateNext \/ CancelNext \/ WaitNext

ClientNext ==
  \/ Command
  \/ \E w \in New : Goroutine(w)
  \/ \E t \in New \cup Old : TaskMoves(t)

ClientSpec == ClientInit /\ [][ClientNext]_clientVars

----------------------------------------------------------------------------
(* A script that chains commands relies on this: when a command ends       *)
(* without an error, `run` has created every task and those given --wait   *)
(* are COMPLETE, `task create` has created every task, every task of       *)
(* `task cancel` has ended, and the last task of `task wait` is COMPLETE.  *)
(* Only the last one: WaitForTask is documented to return "once all tasks  *)
(* are in a terminal state", but keeps the outcome of the last task of a   *)
(* round only, and the others may still run.                               *)
ExitIsEarned ==
  exit = "ok" =>
    /\ verb \in {"run", "create"} => \A w \in New : tstate[w] # "none"
    /\ \A w \in waits : tstate[w] = "COMPLETE"
    /\ verb = "cancel" => \A t \in Old : tstate[t] \in Terminal
    /\ verb = "wait" => tstate[OldTask[Len(OldTask)]] = "COMPLETE"

(* A task given --wait-for is created after every task it waits for has    *)
(* ended, well or not, except for those that could not be read: _run drops *)
(* the error of WaitForTask, so one request without an answer releases the *)
(* dependent task.                                                         *)
DependentsWait ==
  \A w \in New : tstate[w] # "none" =>
    \A k \in DOMAIN waitFor[w] : tstate[waitFor[w][k]] \in Terminal \/ waitFor[w][k] \in unread[w]

(* What the commands promise to a script that chains them.                 *)
CommandsKeepTheirWord == ExitIsEarned /\ DependentsWait
=============================================================================
