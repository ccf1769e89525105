----------------------------- MODULE FragmentJobs -----------------------------
(***************************************************************************)
(* The queue of browser jobs that buy Premium on Fragment, the accounts    *)
(* (browser profiles) they need, and the runners that work on them.         *)
(*                                                                         *)
(* A job belongs to one order.  A runner claims the oldest claimable job    *)
(* and an account for it, both under a lease that its heartbeats prolong,   *)
(* opens the account's profile in its browser, and reports a captured       *)
(* payment or a failure.  The rows know a claim only by the runner's name;  *)
(* the server never stops a runner, it can only refuse its requests.  So a  *)
(* runner may be at work on a job, and in a profile, that is no longer its. *)
(*                                                                         *)
(* A transaction that locks the job is two actions: one locks the job and   *)
(* loads its order, the other commits.  So are the three that write what    *)
(* they read without a lock: an administrator's retry of a job, the         *)
(* worker's renewal of one, and the monitor that frees accounts.           *)
(***************************************************************************)
EXTENDS Integers, FiniteSets

CONSTANTS Jobs,        \* fragment_jobs, numbered in the order of created_at
          Accounts,    \* fragment_accounts
          Runners,     \* runner processes, by FRAGMENT_RUNNER_ID
          Kinds,       \* the failures that happen
          MaxAttempts, \* fragment_jobs.max_attempts
          Lease,       \* ticks a lease lasts without a heartbeat
          MaxAdmin,    \* bound on the requests of administrators
          MaxFaults    \* bound on crashes, lost answers and missed heartbeats

NoJob   == 0
NoOne   == "none"
NoLease == -1

\* What makes the work on a page fail, by stage: the login, the way to the
\* purchase form, the steps in the form (in observe mode, or without
\* auto_click, it stops for a review), the capture.  RETRY is whatever is not a
\* RunnerFailure, and a capture that timed out.
LoginFailures    == {"LOGIN_REQUIRED"}
FormFailures     == {"SELECTOR_ERROR"}
InteractFailures == FormFailures \cup {"REVIEW"}
CaptureFailures  == {"RETRY", "REVIEW"}
Failures == LoginFailures \cup InteractFailures \cup CaptureFailures

ASSUME JobsAssumption ==
    /\ Jobs \subseteq Nat \ {NoJob}
    /\ "RETRY" \in Kinds /\ Kinds \subseteq Failures
    /\ NoOne \notin Runners \cup Accounts
    /\ MaxAttempts \in [Jobs -> Nat]
    /\ Lease \in Nat \ {0}
    /\ {MaxAdmin, MaxFaults} \subseteq Nat

VARIABLES job,      \* the rows of fragment_jobs
          hold,     \* lease_runner_id, lease_job_id, lease_expires_at of accounts
          login,    \* fragment_accounts.status
          enabled,  \* fragment_accounts.is_enabled
          order,    \* orders.status of the job's order, "PAST" when paid or over
          work,     \* what each runner process is doing
          monitor,  \* accounts the monitor read as expired and is about to free
          requeue,  \* a retry or a renewal between its SELECT and its UPDATE
          lost,     \* history: runners at work whose account's lease is gone
          admin,    \* administrators' requests so far
          faults    \* faults so far

accountVars == <<hold, login, enabled>>
otherVars   == <<monitor, requeue, admin>>
vars == <<job, accountVars, order, work, otherVars, lost, faults>>

Stopped  == {"FAILED", "MANUAL_REVIEW", "LOGIN_REQUIRED", "SELECTOR_ERROR"}
Busy     == {"CLAIMED"}  \* or WAIT_CAPTURE, from which nothing tells it
Finished == Stopped \cup {"COMPLETED"}

Free == [runner |-> NoOne, job |-> NoJob, lease |-> NoLease]
Off  == [pc |-> "idle", job |-> NoJob, account |-> NoOne, claim |-> 0,
         kind |-> "none", seen |-> FALSE]
NewJob == [status |-> "NONE", account |-> NoOne, runner |-> NoOne,
           attempts |-> 0, lease |-> NoLease]
NoRequest == [job |-> NoJob, status |-> "NONE", runner |-> NoOne, lease |-> NoLease]

AtWork(r) == work[r].pc \notin {"idle", "down"}
Owns(r)   == job[work[r].job].runner = r
Fault     == faults < MaxFaults /\ faults' = faults + 1

\* The transaction of a runner's request holds the lock on the job's row.
Locked(j) == \E r \in Runners : /\ work[r].job = j
                                /\ work[r].pc \in {"capturing", "reporting"}

----------------------------------------------------------------------------
(* Claim.                                                                  *)

\* Variant: a job whose lease expired is not taken over.
ClaimableFresh(j) == ~Locked(j) /\ job[j].status \in {"QUEUED", "RETRY_WAIT"}

\* Waiting jobs (a retry's delay may be over at any time), and jobs whose
\* runner let the lease expire; SKIP LOCKED.
Claimable(j) ==
    /\ ~Locked(j)
    /\ \/ job[j].status \in {"QUEUED", "RETRY_WAIT"}
       \/ job[j].status \in Busy /\ job[j].lease = 0

Usable(a) == enabled[a] /\ login[a] = "ACTIVE"

Available(a) == Usable(a) /\ hold[a].lease \in {NoLease, 0}

\* The account the job had before, if it is available, else any other.
Candidates(j) ==
    IF job[j].account # NoOne /\ Available(job[j].account)
      THEN {job[j].account} ELSE {a \in Accounts : Available(a)}

\* claim_fragment_job, for the oldest claimable job.
Claim(r, j, a) ==
    /\ work[r].pc = "idle"
    /\ Claimable(j) /\ \A i \in Jobs : Claimable(i) => j <= i
    /\ a \in Candidates(j)
    /\ job' = [job EXCEPT ![j] =
                 [status |-> "CLAIMED", account |-> a, runner |-> r,
                  attempts |-> @.attempts + 1, lease |-> Lease]]
    /\ hold' = [hold EXCEPT ![a] = [runner |-> r, job |-> j, lease |-> Lease]]
    /\ UNCHANGED <<login, enabled, order, otherVars, lost>>

\* The runner gets the job and opens the account's profile ...
ClaimAnswered(r, j, a) ==
    /\ Claim(r, j, a)
    /\ work' = [work EXCEPT ![r] = [Off EXCEPT !.pc = "working", !.job = j,
                                      !.account = a, !.claim = job'[j].attempts]]
    /\ UNCHANGED faults

\* ... or the answer is lost and it goes on polling.
ClaimLost(r, j, a) ==
    /\ Claim(r, j, a)
    /\ Fault
    /\ UNCHANGED work

----------------------------------------------------------------------------
(* Heartbeats.                                                             *)

\* Variant: a heartbeat makes the sender the runner of the job.
HeartbeatAdopts(r) ==
    LET j == work[r].job  a == job[j].account IN
    /\ AtWork(r) /\ ~Locked(j)
    /\ job' = [job EXCEPT ![j].runner = r, ![j].lease = Lease]
    /\ hold' = IF hold[a].job = j THEN [hold EXCEPT ![a].lease = Lease] ELSE hold
    /\ UNCHANGED <<login, enabled, order, work, otherVars, lost, faults>>

\* Variant: a heartbeat prolongs the lease of the account whoever has it.
HeartbeatAnyAccount(r) ==
    LET j == work[r].job  a == job[j].account IN
    /\ AtWork(r) /\ Owns(r) /\ ~Locked(j)
    /\ job' = [job EXCEPT ![j].lease = Lease]
    /\ hold' = [hold EXCEPT ![a].lease = Lease, ![a].job = j]
    /\ UNCHANGED <<login, enabled, order, work, otherVars, lost, faults>>

\* heartbeat_job, for the runner the job names; a refusal changes nothing, and
\* the runner works on.
Heartbeat(r) ==
    LET j == work[r].job  a == job[j].account IN
    /\ AtWork(r) /\ Owns(r) /\ ~Locked(j)
    /\ job' = [job EXCEPT ![j].lease = Lease]
    /\ hold' = IF hold[a].job = j THEN [hold EXCEPT ![a].lease = Lease] ELSE hold
    /\ UNCHANGED <<login, enabled, order, work, otherVars, lost, faults>>

----------------------------------------------------------------------------
(* The end of a job.                                                       *)

\* Variant: the account is freed whoever leased it since.
ReleaseAny(j) == [hold EXCEPT ![job[j].account] = Free]

\* release_account: the job's account, if the lease is still for this job.
Release(j) ==
    IF hold[job[j].account].job = j
      THEN [hold EXCEPT ![job[j].account] = Free] ELSE hold

\* The work on the page fails, or the request to capture is refused.
WorkFails(r) ==
    /\ work[r].pc = "working"
    /\ \E kind \in Kinds : work' = [work EXCEPT ![r].pc = "failing", ![r].kind = kind]
    /\ UNCHANGED <<job, accountVars, order, otherVars, lost, faults>>

\* require_runner_job, for a capture (only of an order that waits for it) and
\* for a failure.
OpenRequest(r) ==
    LET waits == order[work[r].job] = "WAIT_FRAGMENT" IN
    /\ AtWork(r) /\ Owns(r) /\ ~Locked(work[r].job)
    /\ \/ work[r].pc = "working" /\ waits
       \/ work[r].pc = "failing"
    /\ work' = [work EXCEPT ![r].seen = waits,
                            ![r].pc = IF @ = "working" THEN "capturing"
                                                       ELSE "reporting"]
    /\ UNCHANGED <<job, accountVars, order, otherVars, lost, faults>>

Idle(r)   == work' = [work EXCEPT ![r] = Off] /\ lost' = lost \ {r}
Fails(r)  == work' = [work EXCEPT ![r].pc = "failing",
                                  ![r].kind = "RETRY"]

\* capture commits: the payment was prepared, or waits for a review.  If the
\* answer is lost the runner goes on to report a failure of the finished job.
CaptureCommit(r) ==
    LET j == work[r].job  a == job[j].account IN
    /\ work[r].pc = "capturing"
    /\ \E success \in BOOLEAN :
          /\ job' = [job EXCEPT ![j].lease = NoLease,
                                ![j].status = IF success THEN "COMPLETED"
                                                         ELSE "MANUAL_REVIEW"]
          /\ order' = [order EXCEPT ![j] = IF success THEN "PAST"
                                                      ELSE "MANUAL_REVIEW"]
          /\ login' = IF success THEN [login EXCEPT ![a] = "ACTIVE"] ELSE login
    /\ hold' = Release(j)
    /\ \/ Idle(r) /\ UNCHANGED faults
       \/ Fails(r) /\ lost' = lost \cup {r} /\ Fault
    /\ UNCHANGED <<enabled, otherVars>>

\* The transaction is rolled back.
CaptureAbort(r) ==
    /\ work[r].pc = "capturing"
    /\ Fails(r)
    /\ UNCHANGED <<job, accountVars, order, otherVars, lost, faults>>

\* Variant: out of attempts, a job rests in what failed.
FailedStatusKind(j, kind) ==
    IF job[j].attempts < MaxAttempts[j] THEN "RETRY_WAIT" ELSE kind

\* The status a failed job comes to rest in.
FailedStatus(j, kind) ==
    IF kind \in {"LOGIN_REQUIRED", "SELECTOR_ERROR"} THEN kind
    ELSE IF kind = "REVIEW" THEN "MANUAL_REVIEW"
    ELSE IF job[j].attempts < MaxAttempts[j] THEN "RETRY_WAIT" ELSE "FAILED"

\* mark_job_failed: the order follows if it was waiting, the account loses its
\* good standing with its login or its page, and is released.
ReportCommit(r) ==
    LET j == work[r].job  kind == work[r].kind  end == FailedStatus(j, kind) IN
    /\ work[r].pc = "reporting"
    /\ job' = [job EXCEPT ![j].status = end, ![j].lease = NoLease,
                          ![j].runner = IF end = "RETRY_WAIT" THEN NoOne ELSE @]
    /\ order' = [order EXCEPT ![j] =
                   IF ~work[r].seen \/ end = "RETRY_WAIT" THEN @
                   ELSE IF end = "FAILED" THEN "FAILED" ELSE "MANUAL_REVIEW"]
    /\ login' = [login EXCEPT ![job[j].account] =
                   CASE kind = "LOGIN_REQUIRED" -> "LOGIN_REQUIRED"
                     [] kind = "SELECTOR_ERROR" -> "ERROR"
                     [] OTHER -> @]
    /\ hold' = Release(j)
    /\ Idle(r)
    /\ UNCHANGED <<enabled, otherVars, faults>>

\* The report is refused, because the job has another runner or none ...
ReportRefused(r) ==
    /\ work[r].pc = "failing" /\ ~Owns(r)
    /\ Idle(r)
    /\ UNCHANGED <<job, accountVars, order, otherVars, faults>>

\* ... or does not get through, and is not repeated.
ReportLost(r) ==
    /\ work[r].pc = "failing"
    /\ Fault
    /\ Idle(r)
    /\ UNCHANGED <<job, accountVars, order, otherVars>>

\* The process dies (a request the server has begun to serve runs on), and
\* another is started under its name.
RunnerDies(r) ==
    /\ work[r].pc \in {"idle", "working", "failing"}
    /\ Fault
    /\ work' = [work EXCEPT ![r] = [Off EXCEPT !.pc = "down"]]
    /\ lost' = lost \ {r}
    /\ UNCHANGED <<job, accountVars, order, otherVars>>

RunnerStarts(r) ==
    /\ work[r].pc = "down"
    /\ Idle(r)
    /\ UNCHANGED <<job, accountVars, order, otherVars, faults>>

----------------------------------------------------------------------------
(* Time.                                                                   *)

Older(lease) == IF lease > 0 THEN lease - 1 ELSE lease

\* A lease runs out under a runner at work: its heartbeats were refused or did
\* not get through for the whole of the lease.
Lapsing ==
    {r \in Runners : /\ AtWork(r)
                     /\ LET a == work[r].account IN
                           hold[a].runner = r /\ hold[a].lease = 1}
JobLapses ==
    \E r \in Runners : AtWork(r) /\ Owns(r) /\ job[work[r].job].lease = 1

Tick ==
    /\ \/ \E j \in Jobs : job[j].lease > 0
       \/ \E a \in Accounts : hold[a].lease > 0
    /\ job' = [j \in Jobs |-> [job[j] EXCEPT !.lease = Older(@)]]
    /\ hold' = [a \in Accounts |-> [hold[a] EXCEPT !.lease = Older(@)]]
    /\ lost' = lost \cup Lapsing
    /\ IF Lapsing # {} \/ JobLapses THEN Fault ELSE UNCHANGED faults
    /\ UNCHANGED <<login, enabled, order, work, otherVars>>

----------------------------------------------------------------------------
(* The monitor of stale runners.                                           *)

Expired(r) == {a \in Accounts : hold[a].runner = r /\ hold[a].lease = 0}

\* monitor_fragment_runners finds a runner that does not report its status any
\* more, and its expired accounts ...
MonitorRead(r) ==
    /\ monitor = {}
    /\ work[r].pc = "down"
    /\ Expired(r) # {}
    /\ monitor' = Expired(r)
    /\ UNCHANGED <<job, accountVars, order, work, requeue, admin, lost, faults>>

\* Whoever is at work in one of these accounts under its lease loses it.
Evicted(accounts) ==
    {r \in Runners : /\ AtWork(r) /\ work[r].account \in accounts
                     /\ hold[work[r].account].runner = r}

\* ... and frees them, whoever has leased them since.
MonitorWrite ==
    /\ monitor # {}
    /\ hold' = [a \in Accounts |-> IF a \in monitor THEN Free ELSE hold[a]]
    /\ lost' = lost \cup Evicted(monitor)
    /\ monitor' = {}
    /\ UNCHANGED <<job, login, enabled, order, work, requeue, admin, faults>>

----------------------------------------------------------------------------
(* Jobs put back into the queue.                                           *)

Requests == admin < MaxAdmin /\ admin' = admin + 1

\* ensure_fragment_job creates the job of an order.
CreateJob(j) ==
    /\ order[j] = "WAIT_FRAGMENT"
    /\ job[j].status = "NONE"
    /\ job' = [job EXCEPT ![j].status = "QUEUED"]
    /\ UNCHANGED <<accountVars, order, work, otherVars, lost, faults>>

\* retry_job and ensure_fragment_job read the row of the job, the second only
\* of a job that has stopped.
RequeueRead(by, j) ==
    /\ order[j] = "WAIT_FRAGMENT"
    /\ requeue[by] = NoRequest
    /\ \/ by = "worker" /\ job[j].status \in Stopped /\ UNCHANGED admin
       \/ by = "admin" /\ job[j].status # "NONE" /\ Requests
    /\ requeue' = [requeue EXCEPT ![by] =
                     [job |-> j, status |-> job[j].status,
                      runner |-> job[j].runner, lease |-> job[j].lease]]
    /\ UNCHANGED <<job, accountVars, order, work, monitor, lost, faults>>

\* The columns whose value differs from the one read are written; the others
\* keep what the row says now.
Write(read, new, now) == IF read = new THEN now ELSE new

RequeueWrite(by) ==
    LET j == requeue[by].job  read == requeue[by]  now == job[j] IN
    /\ read # NoRequest
    /\ ~Locked(j)
    /\ job' = [job EXCEPT ![j] =
                 [now EXCEPT !.status = Write(read.status, "QUEUED", now.status),
                             !.runner = Write(read.runner, NoOne, now.runner),
                             !.lease  = Write(read.lease, NoLease, now.lease)]]
    /\ requeue' = [requeue EXCEPT ![by] = NoRequest]
    /\ UNCHANGED <<accountVars, order, work, monitor, admin, lost, faults>>

----------------------------------------------------------------------------
(* Administrators and the rest of the order's life.                        *)

\* release_account of the admin API.
ReleaseAccount(a) ==
    /\ Requests
    /\ hold[a] # Free
    /\ hold' = [hold EXCEPT ![a] = Free]
    /\ lost' = lost \cup Evicted({a})
    /\ UNCHANGED <<job, login, enabled, order, work, monitor, requeue,
                   faults>>

\* update_account: the account is repaired, or disabled.
UpdateAccount(a) ==
    /\ Requests
    /\ \/ login' = [login EXCEPT ![a] = "ACTIVE"] /\ UNCHANGED enabled
       \/ enabled' = [enabled EXCEPT ![a] = ~@] /\ UNCHANGED login
    /\ UNCHANGED <<job, hold, order, work, monitor, requeue, lost, faults>>

\* The order of a job is retried and waits for the runner again, ...
ReopenOrder(j) ==
    /\ Requests
    /\ order[j] \in {"FAILED", "MANUAL_REVIEW"}
    /\ order' = [order EXCEPT ![j] = "WAIT_FRAGMENT"]
    /\ UNCHANGED <<job, accountVars, work, monitor, requeue, lost, faults>>

\* ... or ends by what the provider reports.
EndOrder(j) ==
    /\ order[j] # "PAST"
    /\ order' = [order EXCEPT ![j] = "PAST"]
    /\ UNCHANGED <<job, accountVars, work, otherVars, lost, faults>>

----------------------------------------------------------------------------

Requesters == {"admin", "worker"}

JobsInit ==
    /\ job = [j \in Jobs |-> NewJob]
    /\ hold = [a \in Accounts |-> Free]
    /\ login = [a \in Accounts |-> "ACTIVE"]
    /\ enabled = [a \in Accounts |-> TRUE]
    /\ order = [j \in Jobs |-> "WAIT_FRAGMENT"]
    /\ work = [r \in Runners |-> Off]
    /\ monitor = {}
    /\ requeue = [by \in Requesters |-> NoRequest]
    /\ lost = {}
    /\ admin = 0
    /\ faults = 0

ClaimStep(r) ==
    \E j \in Jobs, a \in Accounts : ClaimAnswered(r, j, a) \/ ClaimLost(r, j, a)

\* What a runner at work does next; its failure is reported once.
WorkStep(r) ==
    \/ WorkFails(r) \/ OpenRequest(r) \/ CaptureCommit(r) \/ CaptureAbort(r)
    \/ ReportCommit(r) \/ ReportRefused(r)

RunnerStep(r) ==
    \/ ClaimStep(r) \/ WorkStep(r) \/ Heartbeat(r) \/ ReportLost(r)
    \/ RunnerDies(r) \/ RunnerStarts(r) \/ MonitorRead(r)

JobStep(j) ==
    \/ CreateJob(j) \/ ReopenOrder(j) \/ EndOrder(j)
    \/ \E by \in Requesters : RequeueRead(by, j)

AccountStep(a) == ReleaseAccount(a) \/ UpdateAccount(a)

JobsNext ==
    \/ \E r \in Runners : RunnerStep(r)
    \/ \E j \in Jobs : JobStep(j)
    \/ \E a \in Accounts : AccountStep(a)
    \/ \E by \in Requesters : RequeueWrite(by)
    \/ MonitorWrite
    \/ Tick

JobsSpec == JobsInit /\ [][JobsNext]_vars

\* A runner polls for jobs and ends what it began (every wait has a timeout),
\* time passes, and an open transaction ends.
JobsFairness ==
    /\ \A r \in Runners : WF_vars(ClaimStep(r)) /\ WF_vars(WorkStep(r))
    /\ \A by \in Requesters : WF_vars(RequeueWrite(by))
    /\ WF_vars(Tick)

FairJobsSpec == JobsSpec /\ JobsFairness

----------------------------------------------------------------------------
(* Properties.                                                             *)

JobStatus == Finished \cup Busy \cup {"NONE", "QUEUED", "RETRY_WAIT"}

Row ==
    [status : JobStatus,
     account : Accounts \cup {NoOne}, runner : Runners \cup {NoOne},
     attempts : Nat, lease : {NoLease} \cup 0..Lease]

Task ==
    [pc : {"idle", "down", "working", "capturing", "failing", "reporting"},
     job : Jobs \cup {NoJob}, account : Accounts \cup {NoOne}, claim : Nat,
     kind : Kinds \cup {"none"}, seen : BOOLEAN]

JobsTypeOK ==
    /\ job \in [Jobs -> Row]
    /\ hold \in [Accounts -> [runner : Runners \cup {NoOne}, job : Jobs \cup {NoJob},
                              lease : {NoLease} \cup 0..Lease]]
    /\ login \in [Accounts -> {"ACTIVE", "LOGIN_REQUIRED", "ERROR"}]
    /\ enabled \in [Accounts -> BOOLEAN]
    /\ order \in [Jobs -> {"WAIT_FRAGMENT", "PAST", "MANUAL_REVIEW", "FAILED"}]
    /\ work \in [Runners -> Task]
    /\ \A r \in Runners : AtWork(r) => work[r].job \in Jobs /\ work[r].account \in Accounts
    /\ monitor \subseteq Accounts
    /\ requeue \in [Requesters ->
          [job : Jobs \cup {NoJob}, status : JobStatus, runner : Runners \cup {NoOne},
           lease : {NoLease} \cup 0..Lease]]
    /\ lost \subseteq Runners
    /\ admin \in 0..MaxAdmin
    /\ faults \in 0..MaxFaults

\* Two runners never work in one profile, unless a lease lapsed under a runner
\* at work, an administrator freed the account, the monitor freed it after
\* somebody else had leased it, or a runner did not learn that its own capture
\* freed it: reports of others, retries of jobs, renewals and claims that take
\* over a job never cause it.
ProfileNotShared ==
    \A r, s \in Runners :
        /\ r # s
        /\ AtWork(r) /\ AtWork(s)
        /\ work[r].account = work[s].account
        => r \in lost \/ s \in lost

\* The runner's name is as good as a fencing token: a runner whose requests
\* for a job are still accepted is at work under the latest claim of the job.
AcceptedMeansLatestClaim ==
    \A r \in Runners : AtWork(r) /\ Owns(r) => job[work[r].job].attempts = work[r].claim

\* The account a heartbeat prolongs, or a report releases, is leased to the
\* runner of the job, although the code compares only the job.
LeaseIsTheRunners ==
    \A j \in Jobs :
        LET row == job[j] IN
        row.runner # NoOne /\ row.account # NoOne /\ hold[row.account].job = j
            => hold[row.account].runner = row.runner

\* A claim whose lease a stale write erased: no runner can take it over.
Erased(j) == job[j].status \in Busy /\ job[j].lease = NoLease

\* A job that is queued, waits for a retry or was left by its runner comes to an
\* end, as long as an account is usable.
JobsComeToAnEnd ==
    \A j \in Jobs :
        job[j].status \notin Finished \cup {"NONE"} ~>
            \/ job[j].status \in Finished
            \/ Erased(j)
            \/ \A a \in Accounts : ~Usable(a)
=============================================================================
