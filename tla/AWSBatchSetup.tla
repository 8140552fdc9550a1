--------------------------- MODULE AWSBatchSetup ---------------------------
(* `funnel aws batch create-all-resources` and `create-job-def`: the       *)
(* compute environment, the job queue, the job definition and the three    *)
(* roles that the AWS Batch backend submits its jobs with.  A command      *)
(* issues one request after the other, each of which may fail or have its  *)
(* answer lost, and remembers nothing: an operator starts it again, and    *)
(* another operator may run it at the same time.                           *)
EXTENDS Naturals, FiniteSets

CONSTANTS
  Operator,        \* people who run the commands
  MaxSetupFaults   \* requests that fail

VARIABLES
  command,    \* what each operator runs: "all", "def" or "def --force"
  roleGiven,  \* JobDef.JobRoleArn is configured
  sstep,      \* the request each command makes next, "ok" or "failed"
  roles,      \* the roles there are
  granted,    \* the policies of each role
  env,        \* the compute environment: "none", "creating", "VALID", "INVALID"
  queue,      \* there is a job queue
  jobDef,     \* there is an active job definition
  setupFaults

setupVars == <<command, roleGiven, sstep, roles, granted, env, queue, jobDef,
               setupFaults>>

Role == {"service", "instance", "job"}

(* The policies the commands give a role: one of Amazon's own each for the *)
(* batch service and the instances, two written inline for the job.        *)
Needed == [r \in Role |-> IF r = "job" THEN {"S3", "DynamoDB"} ELSE {r}]

Whole(r) == Needed[r] \subseteq granted[r]

FirstRequest(c) == IF c = "all" THEN "DescribeEnv" ELSE "DescribeDef"

SetupInit ==
  /\ command \in [Operator -> {"all", "def", "def --force"}]
  /\ roleGiven \in BOOLEAN
  /\ sstep = [o \in Operator |-> FirstRequest(command[o])]
  /\ roles = {} /\ granted = [r \in Role |-> {}]
  /\ env = "none" /\ queue = FALSE /\ jobDef = FALSE
  /\ setupFaults = 0

(* Everything was set up.                                                  *)
SetupOver ==
  /\ command = [o \in Operator |-> "def"] /\ roleGiven = TRUE
  /\ sstep = [o \in Operator |-> "ok"]
  /\ roles = {} /\ granted = [r \in Role |-> {}]
  /\ env = "none" /\ queue = FALSE /\ jobDef = TRUE
  /\ setupFaults = MaxSetupFaults

----------------------------------------------------------------------------
At(o, s) == sstep[o] = s /\ UNCHANGED <<command, roleGiven>>

Go(o, s) == sstep' = [sstep EXCEPT ![o] = s]

Err(err) ==
  /\ err => setupFaults < MaxSetupFaults
  /\ setupFaults' = IF err THEN setupFaults + 1 ELSE setupFaults

Made == <<roles, granted, env, queue, jobDef>>

(* The requests by which CreateComputeEnvironment sees to a role.          *)
GetRole(r)    == [service  |-> "GetServiceRole",
                  instance |-> "GetInstanceRole",
                  job      |-> "GetJobRole"][r]
CreateRole(r) == [service  |-> "CreateServiceRole",
                  instance |-> "CreateInstanceRole",
                  job      |-> "CreateJobRole"][r]
Attach(r)     == [service  |-> "AttachService",
                  instance |-> "AttachInstance"][r]
RoleDone(r)   == [service  |-> "GetInstanceRole",
                  instance |-> "CreateEnv",
                  job      |-> "ListPolicies"][r]

(* DescribeComputeEnvironments before anything else; its error is dropped, *)
(* and nothing described then means that nothing is there.  An environment *)
(* that exists is not an error of the command.  Otherwise the security     *)
(* groups and the subnets are looked up, where an error does end it.       *)
DescribeEnv(o) ==
  /\ At(o, "DescribeEnv")
  /\ \E err \in BOOLEAN :
       /\ Err(err)
       /\ IF env # "none" /\ ~err
          THEN Go(o, "DescribeQueue")
          ELSE \/ Go(o, "GetServiceRole")
               \/ err /\ Go(o, "failed")
  /\ UNCHANGED Made

(* GetRole: any error, not only a missing role, leads to CreateRole.       *)
LookForRole(o, r) ==
  /\ At(o, GetRole(r))
  /\ \E err \in BOOLEAN :
       /\ Err(err)
       /\ Go(o, IF r \in roles /\ ~err THEN RoleDone(r) ELSE CreateRole(r))
  /\ UNCHANGED Made

(* CreateRole, refused when the role exists.  The answer may be lost after *)
(* the role was made.                                                      *)
MakeRole(o, r) ==
  /\ At(o, CreateRole(r))
  /\ \E err \in BOOLEAN, applied \in BOOLEAN :
       /\ Err(err)
       /\ ~err => applied
       /\ roles' = IF applied THEN roles \cup {r} ELSE roles
       /\ Go(o, IF err \/ r \in roles THEN "failed"
                ELSE IF r = "job" THEN RoleDone(r) ELSE Attach(r))
  /\ UNCHANGED <<granted, env, queue, jobDef>>

(* AttachRolePolicy, only on the path where this command made the role.    *)
AttachPolicy(o, r) ==
  /\ At(o, Attach(r))
  /\ \E err \in BOOLEAN, applied \in BOOLEAN :
       /\ Err(err)
       /\ ~err => applied
       /\ granted' = IF applied THEN [granted EXCEPT ![r] = Needed[r]] ELSE granted
       /\ Go(o, IF err THEN "failed" ELSE RoleDone(r))
  /\ UNCHANGED <<roles, env, queue, jobDef>>

(* CreateComputeEnvironment, refused when the name is taken, and the       *)
(* DescribeComputeEnvironments after it, whose error does end the command. *)
CreateEnv(o) ==
  /\ At(o, "CreateEnv")
  /\ \E err \in BOOLEAN, applied \in BOOLEAN :
       /\ Err(err)
       /\ ~err => applied
       /\ env' = IF applied /\ env = "none" THEN "creating" ELSE env
       /\ Go(o, IF err \/ env # "none" THEN "failed" ELSE "DescribeQueue")
  /\ UNCHANGED <<roles, granted, queue, jobDef>>

(* AWS looks at the roles of a new environment when it starts it.          *)
EnvSettles ==
  /\ env = "creating"
  /\ env' = IF Whole("service") /\ Whole("instance") THEN "VALID" ELSE "INVALID"
  /\ UNCHANGED <<command, roleGiven, sstep, roles, granted, queue, jobDef,
                 setupFaults>>

DescribeQueue(o) ==
  /\ At(o, "DescribeQueue")
  /\ \E err \in BOOLEAN :
       /\ Err(err)
       /\ Go(o, IF queue /\ ~err THEN "DescribeDef" ELSE "CreateQueue")
  /\ UNCHANGED Made

(* CreateJobQueue, refused when the name is taken or the environment is    *)
(* not VALID yet.  The command does not wait for the environment.          *)
CreateQueue(o) ==
  /\ At(o, "CreateQueue")
  /\ \E err \in BOOLEAN, applied \in BOOLEAN :
       /\ Err(err)
       /\ ~err => applied
       /\ queue' = (queue \/ (applied /\ env = "VALID"))
       /\ Go(o, IF err \/ queue \/ env # "VALID" THEN "failed" ELSE "DescribeDef")
  /\ UNCHANGED <<roles, granted, env, jobDef>>

(* CreateJobDefinition(overwrite): an active revision is enough unless     *)
(* --force; the role is the configured one, or "FunnelEcsTaskRole".        *)
DescribeDef(o) ==
  /\ At(o, "DescribeDef")
  /\ \E err \in BOOLEAN :
       /\ Err(err)
       /\ err => command[o] # "def --force"
       /\ Go(o, IF jobDef /\ ~err /\ command[o] # "def --force" THEN "ok"
                ELSE IF roleGiven THEN "RegisterDef" ELSE GetRole("job"))
  /\ UNCHANGED Made

(* Any policy taken for both.                                              *)
HasAnyPolicy == granted["job"] # {}

(* AttachRolePolicies: the names of the policies of the role joined, and   *)
(* both names searched in the result.                                      *)
HasPolicies == {"S3", "DynamoDB"} \subseteq granted["job"]

ListPolicies(o) ==
  /\ At(o, "ListPolicies")
  /\ \E err \in BOOLEAN :
       /\ Err(err)
       /\ Go(o, IF err THEN "failed"
                ELSE IF HasPolicies THEN "RegisterDef" ELSE "PutS3")
  /\ UNCHANGED Made

(* PutRolePolicy: the S3 policy first, then the one for DynamoDB.          *)
PutPolicy(o, p) ==
  /\ At(o, IF p = "S3" THEN "PutS3" ELSE "PutDynamoDB")
  /\ \E err \in BOOLEAN, applied \in BOOLEAN :
       /\ Err(err)
       /\ ~err => applied
       /\ granted' = IF applied THEN [granted EXCEPT !["job"] = @ \cup {p}]
                     ELSE granted
       /\ Go(o, IF err THEN "failed"
                ELSE IF p = "S3" THEN "PutDynamoDB" ELSE "RegisterDef")
  /\ UNCHANGED <<roles, env, queue, jobDef>>

(* RegisterJobDefinition and the DescribeJobDefinitions after it.          *)
RegisterDef(o) ==
  /\ At(o, "RegisterDef")
  /\ \E err \in BOOLEAN, applied \in BOOLEAN :
       /\ Err(err)
       /\ ~err => applied
       /\ jobDef' = (jobDef \/ applied)
       /\ Go(o, IF err THEN "failed" ELSE "ok")
  /\ UNCHANGED <<roles, granted, env, queue>>

(* The operator runs a failed command again.                               *)
Rerun(o) ==
  /\ At(o, "failed")
  /\ Go(o, FirstRequest(command[o]))
  /\ UNCHANGED <<Made, setupFaults>>

(* The service role and the instance role, seen to one after the other.    *)
ServiceRole(o) ==
  LookForRole(o, "service") \/ MakeRole(o, "service") \/ AttachPolicy(o, "service")

InstanceRole(o) ==
  LookForRole(o, "instance") \/ MakeRole(o, "instance") \/ AttachPolicy(o, "instance")

CreateJobRole(o) == LookForRole(o, "job") \/ MakeRole(o, "job")

AttachRolePolicies(o) ==
  ListPolicies(o) \/ \E p \in {"S3", "DynamoDB"} : PutPolicy(o, p)

(* What create-job-def does, and create-all-resources does last.           *)
CreateJobDefinition(o) ==
  DescribeDef(o) \/ CreateJobRole(o) \/ AttachRolePolicies(o) \/ RegisterDef(o)

Request(o) ==
  \/ DescribeEnv(o) \/ ServiceRole(o) \/ InstanceRole(o) \/ CreateEnv(o)
  \/ DescribeQueue(o) \/ CreateQueue(o)
  \/ CreateJobDefinition(o)

SetupNext == EnvSettles \/ \E o \in Operator : Request(o) \/ Rerun(o)

SetupSpec == SetupInit /\ [][SetupNext]_setupVars

----------------------------------------------------------------------------
(* A command that returned without an error left everything usable,        *)
(* whatever failed in the earlier attempts and whoever worked beside it:   *)
(* there is a job definition whose role, unless it was configured, has     *)
(* both policies, and after create-all-resources a queue on a VALID        *)
(* compute environment.  AttachRolePolicies looks at the policies and not  *)
(* at the role, since an earlier attempt may have stopped in between.      *)
SetupIsWhole ==
  \A o \in Operator : sstep[o] = "ok" =>
    /\ jobDef
    /\ roleGiven \/ Whole("job")
    /\ command[o] = "all" => queue /\ env = "VALID"
=============================================================================
