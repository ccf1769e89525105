------------------------- MODULE FragmentJobs_proofs -------------------------
(***************************************************************************)
(* Proofs about FragmentJobs: the runner's name fences its reports, and a   *)
(* profile has one runner until its lease is taken from it.                *)
(***************************************************************************)
EXTENDS FragmentJobs, TLAPS

\* A transaction of a runner's request locks a row that names the runner.
LockedIsOwned ==
    \A r \in Runners : work[r].pc \in {"capturing", "reporting"} => Owns(r)

\* A row that names a runner names an account.
RunnerHasAccount == \A j \in Jobs : job[j].runner # NoOne => job[j].account # NoOne

\* A runner at work that was not deprived of it has its account's lease.
WorkIsLeased ==
    \A r \in Runners : AtWork(r) /\ r \notin lost =>
        LET h == hold[work[r].account] IN
        h.runner = r /\ h.job = work[r].job /\ h.lease > 0

JobsInv ==
    /\ JobsTypeOK
    /\ LockedIsOwned
    /\ RunnerHasAccount
    /\ AcceptedMeansLatestClaim
    /\ LeaseIsTheRunners
    /\ WorkIsLeased

----------------------------------------------------------------------------

HoldRow == [runner : Runners \cup {NoOne}, job : Jobs \cup {NoJob},
            lease : {NoLease} \cup 0..Lease]

RequestRow == [job : Jobs \cup {NoJob}, status : JobStatus,
               runner : Runners \cup {NoOne}, lease : {NoLease} \cup 0..Lease]

LEMMA Leases == Lease \in {NoLease} \cup 0..Lease /\ NoLease \in {NoLease} \cup 0..Lease
BY JobsAssumption DEF NoLease

LEMMA Statuses ==
    /\ Finished \cup Busy \cup {"NONE", "QUEUED", "RETRY_WAIT"} = JobStatus
    /\ \A k \in {"FAILED", "MANUAL_REVIEW", "LOGIN_REQUIRED", "SELECTOR_ERROR",
                  "COMPLETED", "CLAIMED", "NONE", "QUEUED", "RETRY_WAIT"} : k \in JobStatus
BY DEF JobStatus, Finished, Stopped, Busy

LEMMA OffIsTask ==
    /\ Off \in Task
    /\ [Off EXCEPT !.pc = "down"] \in Task
    /\ \A j \in Jobs, a \in Accounts, n \in Nat :
          [Off EXCEPT !.pc = "working", !.job = j, !.account = a, !.claim = n] \in Task
BY DEF Off, Task, NoJob, NoOne

LEMMA RowUpdate ==
    ASSUME NEW row \in Row, NEW s \in JobStatus, NEW r \in Runners \cup {NoOne},
           NEW l \in {NoLease} \cup 0..Lease
    PROVE  /\ [row EXCEPT !.status = s] \in Row
           /\ [row EXCEPT !.lease = l] \in Row
           /\ [row EXCEPT !.lease = l, !.status = s] \in Row
           /\ [row EXCEPT !.status = s, !.lease = l, !.runner = r] \in Row
           /\ [row EXCEPT !.status = s, !.runner = r, !.lease = l] \in Row
BY DEF Row

LEMMA HoldUpdate ==
    ASSUME NEW row \in HoldRow, NEW l \in {NoLease} \cup 0..Lease
    PROVE  [row EXCEPT !.lease = l] \in HoldRow
BY DEF HoldRow

LEMMA TaskUpdate ==
    ASSUME NEW task \in Task, NEW kind \in Kinds
    PROVE  [task EXCEPT !.pc = "failing", !.kind = kind] \in Task
BY DEF Task

LEMMA TaskOpens ==
    ASSUME NEW task \in Task, NEW waits \in BOOLEAN, NEW pc \in {"capturing", "reporting"}
    PROVE  [task EXCEPT !.seen = waits, !.pc = pc] \in Task
BY DEF Task

LEMMA OlderLease ==
    ASSUME NEW l \in {NoLease} \cup 0..Lease
    PROVE  Older(l) \in {NoLease} \cup 0..Lease
BY JobsAssumption DEF Older, NoLease

LEMMA TypeStep ==
    ASSUME JobsTypeOK, [JobsNext]_vars
    PROVE  JobsTypeOK'
<1>1. ASSUME NEW r \in Runners, NEW j \in Jobs, NEW a \in Accounts, ClaimAnswered(r, j, a) PROVE JobsTypeOK'
  <2>1. job' \in [Jobs -> Row]
    BY <1>1, Leases, Statuses DEF ClaimAnswered, Claim, Row, JobsTypeOK
  <2>2. hold' \in [Accounts -> HoldRow]
    BY <1>1, Leases DEF ClaimAnswered, Claim, HoldRow, JobsTypeOK
  <2>3. work' \in [Runners -> Task]
    BY <1>1, <2>1, OffIsTask DEF ClaimAnswered, Claim, Row, JobsTypeOK
  <2>4. (\A s \in Runners : AtWork(s) => work[s].job \in Jobs /\ work[s].account \in Accounts)'
    BY <1>1, <2>1 DEF ClaimAnswered, JobsTypeOK, AtWork
  <2> QED
    BY <1>1, <2>1, <2>2, <2>3, <2>4 DEF ClaimAnswered, Claim, JobsTypeOK, HoldRow, otherVars
<1>2. ASSUME NEW r \in Runners, NEW j \in Jobs, NEW a \in Accounts, ClaimLost(r, j, a) PROVE JobsTypeOK'
  <2>1. job' \in [Jobs -> Row]
    BY <1>2, Leases, Statuses DEF ClaimLost, Claim, Row, JobsTypeOK
  <2>2. hold' \in [Accounts -> HoldRow]
    BY <1>2, Leases DEF ClaimLost, Claim, HoldRow, JobsTypeOK
  <2>3. faults' \in 0..MaxFaults
    BY <1>2, JobsAssumption DEF ClaimLost, Claim, JobsTypeOK, Fault
  <2> QED
    BY <1>2, <2>1, <2>2, <2>3 DEF ClaimLost, Claim, JobsTypeOK, HoldRow, AtWork, otherVars
<1>3. ASSUME NEW r \in Runners, Heartbeat(r) PROVE JobsTypeOK'
  <2>1. job' \in [Jobs -> Row]
    <3>1. work[r].job \in Jobs
      BY <1>3 DEF Heartbeat, JobsTypeOK
    <3>2. job[work[r].job] \in Row
      BY <3>1 DEF JobsTypeOK
    <3>3. [job[work[r].job] EXCEPT !.lease = Lease] \in Row
      BY <3>2, RowUpdate, Leases, Statuses
    <3> QED
      BY <1>3, <3>1, <3>3 DEF Heartbeat, JobsTypeOK
  <2>2. hold' \in [Accounts -> HoldRow]
    <3>1. \A a \in Accounts : [hold[a] EXCEPT !.lease = Lease] \in HoldRow
      BY HoldUpdate, Leases DEF JobsTypeOK, HoldRow
    <3> QED
      BY <1>3, <3>1 DEF Heartbeat, JobsTypeOK, HoldRow
  <2> QED
    BY <1>3, <2>1, <2>2 DEF Heartbeat, JobsTypeOK, HoldRow, AtWork, otherVars
<1>4. ASSUME NEW r \in Runners, WorkFails(r) PROVE JobsTypeOK'
  <2>1. work' \in [Runners -> Task]
    <3>1. \A kind \in Kinds :
             [work[r] EXCEPT !.pc = "failing", !.kind = kind] \in Task
      BY TaskUpdate DEF JobsTypeOK
    <3> QED
      BY <1>4, <3>1, ZenonT(40) DEF WorkFails, JobsTypeOK
  <2>2. (\A s \in Runners : AtWork(s) => work[s].job \in Jobs /\ work[s].account \in Accounts)'
    BY <1>4 DEF WorkFails, JobsTypeOK, AtWork, Task
  <2> QED
    BY <1>4, <2>1, <2>2 DEF WorkFails, JobsTypeOK, accountVars, otherVars
<1>5. ASSUME NEW r \in Runners, OpenRequest(r) PROVE JobsTypeOK'
  <2>1. \A waits \in BOOLEAN : \A pc \in {"capturing", "reporting"} :
           [work[r] EXCEPT !.seen = waits, !.pc = pc] \in Task
    BY TaskOpens DEF JobsTypeOK
  <2>2. work' \in [Runners -> Task]
    BY <1>5, <2>1 DEF OpenRequest, JobsTypeOK
  <2>3. (\A s \in Runners : AtWork(s) => work[s].job \in Jobs /\ work[s].account \in Accounts)'
    BY <1>5 DEF OpenRequest, JobsTypeOK, AtWork, Task
  <2> QED
    BY <1>5, <2>2, <2>3 DEF OpenRequest, JobsTypeOK, accountVars, otherVars
<1>6. ASSUME NEW r \in Runners, CaptureCommit(r) PROVE JobsTypeOK'
  <2>1. job' \in [Jobs -> Row]
    <3>1. work[r].job \in Jobs
      BY <1>6 DEF CaptureCommit, JobsTypeOK, AtWork
    <3>2. \A s \in {"COMPLETED", "MANUAL_REVIEW"} :
             [job[work[r].job] EXCEPT !.lease = NoLease, !.status = s] \in Row
      BY <3>1, RowUpdate, Statuses, Leases DEF JobsTypeOK
    <3> QED
      BY <1>6, <3>1, <3>2 DEF CaptureCommit, JobsTypeOK
  <2>2. hold' \in [Accounts -> HoldRow]
    BY <1>6 DEF CaptureCommit, JobsTypeOK, HoldRow, Release, Free
  <2>3. login' \in [Accounts -> {"ACTIVE", "LOGIN_REQUIRED", "ERROR"}]
    BY <1>6 DEF CaptureCommit, JobsTypeOK
  <2>4. order' \in [Jobs -> {"WAIT_FRAGMENT", "PAST", "MANUAL_REVIEW", "FAILED"}]
    BY <1>6 DEF CaptureCommit, JobsTypeOK
  <2>5. work' \in [Runners -> Task]
    <3>1. [work[r] EXCEPT !.pc = "failing", !.kind = "RETRY"] \in Task
      BY TaskUpdate, JobsAssumption DEF JobsTypeOK
    <3> QED
      BY <1>6, <3>1, OffIsTask DEF CaptureCommit, JobsTypeOK, Idle, Fails
  <2>6. (\A s \in Runners : AtWork(s) => work[s].job \in Jobs /\ work[s].account \in Accounts)'
    <3>1. AtWork(r)
      BY <1>6 DEF CaptureCommit, AtWork
    <3>2. CASE Idle(r)
      BY <3>2, <2>5 DEF Idle, Off, AtWork, JobsTypeOK
    <3>3. CASE Fails(r)
      BY <3>1, <3>3, <2>5 DEF Fails, AtWork, JobsTypeOK, Task
    <3> QED
      BY <1>6, <3>2, <3>3 DEF CaptureCommit
  <2>7. lost' \subseteq Runners
    BY <1>6 DEF CaptureCommit, JobsTypeOK, Idle
  <2>8. faults' \in 0..MaxFaults
    BY <1>6, JobsAssumption DEF CaptureCommit, JobsTypeOK, Fault
  <2> QED
    BY <1>6, <2>1, <2>2, <2>3, <2>4, <2>5, <2>6, <2>7, <2>8
       DEF CaptureCommit, JobsTypeOK, HoldRow, otherVars
<1>7. ASSUME NEW r \in Runners, CaptureAbort(r) PROVE JobsTypeOK'
  <2>1. work' \in [Runners -> Task]
    <3>1. [work[r] EXCEPT !.pc = "failing", !.kind = "RETRY"] \in Task
      BY TaskUpdate, JobsAssumption DEF JobsTypeOK
    <3> QED
      BY <1>7, <3>1 DEF CaptureAbort, JobsTypeOK, Fails
  <2>2. (\A s \in Runners : AtWork(s) => work[s].job \in Jobs /\ work[s].account \in Accounts)'
    BY <1>7 DEF CaptureAbort, JobsTypeOK, AtWork, Fails
  <2> QED
    BY <1>7, <2>1, <2>2 DEF CaptureAbort, JobsTypeOK, accountVars, otherVars
<1>8. ASSUME NEW r \in Runners, ReportCommit(r) PROVE JobsTypeOK'
  <2>1. job' \in [Jobs -> Row]
    <3> DEFINE j == work[r].job
               end == FailedStatus(j, work[r].kind)
               named == IF end = "RETRY_WAIT" THEN NoOne ELSE job[j].runner
    <3>1. j \in Jobs
      BY <1>8 DEF ReportCommit, JobsTypeOK, AtWork
    <3>2. end \in JobStatus
      BY Statuses DEF FailedStatus
    <3>3. named \in Runners \cup {NoOne}
      BY <3>1 DEF JobsTypeOK, Row
    <3>0. job[j] \in Row
      BY <3>1 DEF JobsTypeOK
    <3> HIDE DEF j, end, named
    <3>4. [job[j] EXCEPT !.status = end, !.lease = NoLease, !.runner = named] \in Row
      BY <3>0, <3>2, <3>3, RowUpdate, Leases
    <3> USE DEF j, end, named
    <3>5. job' = [job EXCEPT ![j] =
                    [job[j] EXCEPT !.status = end, !.lease = NoLease, !.runner = named]]
      BY <1>8, <3>1 DEF ReportCommit, JobsTypeOK, Row
    <3> QED
      BY <3>1, <3>4, <3>5 DEF JobsTypeOK
  <2>2. hold' \in [Accounts -> HoldRow]
    BY <1>8 DEF ReportCommit, JobsTypeOK, HoldRow, Release, Free
  <2>3. login' \in [Accounts -> {"ACTIVE", "LOGIN_REQUIRED", "ERROR"}]
    BY <1>8 DEF ReportCommit, JobsTypeOK
  <2>4. order' \in [Jobs -> {"WAIT_FRAGMENT", "PAST", "MANUAL_REVIEW", "FAILED"}]
    BY <1>8 DEF ReportCommit, JobsTypeOK
  <2>5. work' \in [Runners -> Task]
    BY <1>8, OffIsTask DEF ReportCommit, JobsTypeOK, Idle
  <2>6. (\A s \in Runners : AtWork(s) => work[s].job \in Jobs /\ work[s].account \in Accounts)'
    BY <1>8 DEF ReportCommit, JobsTypeOK, AtWork, Idle, Off
  <2>7. lost' \subseteq Runners
    BY <1>8 DEF ReportCommit, JobsTypeOK, Idle
  <2> QED
    BY <1>8, <2>1, <2>2, <2>3, <2>4, <2>5, <2>6, <2>7
       DEF ReportCommit, JobsTypeOK, HoldRow, otherVars
<1>9. ASSUME NEW r \in Runners, ReportRefused(r) PROVE JobsTypeOK'
  BY <1>9, JobsAssumption
     DEF ReportRefused, Idle, JobsTypeOK, Row, JobStatus, Task, Finished, Stopped,
         Busy, Failures, LoginFailures, FormFailures, InteractFailures,
         CaptureFailures, Free, Off, NewJob, NoRequest, NoLease, AtWork,
         accountVars, otherVars
<1>10. ASSUME NEW r \in Runners, ReportLost(r) PROVE JobsTypeOK'
  BY <1>10, JobsAssumption
     DEF ReportLost, Idle, JobsTypeOK, Row, JobStatus, Task, Finished, Stopped,
         Busy, Failures, LoginFailures, FormFailures, InteractFailures,
         CaptureFailures, Free, Off, NewJob, NoRequest, NoLease, NoJob, AtWork,
         Fault, accountVars, otherVars
<1>11. ASSUME NEW r \in Runners, RunnerDies(r) PROVE JobsTypeOK'
  <2>1. work' \in [Runners -> Task]
    BY <1>11, OffIsTask DEF RunnerDies, JobsTypeOK
  <2>2. (\A s \in Runners : AtWork(s) => work[s].job \in Jobs /\ work[s].account \in Accounts)'
    BY <1>11 DEF RunnerDies, JobsTypeOK, AtWork, Off
  <2>3. lost' \subseteq Runners
    BY <1>11 DEF RunnerDies, JobsTypeOK
  <2>4. faults' \in 0..MaxFaults
    BY <1>11, JobsAssumption DEF RunnerDies, JobsTypeOK, Fault
  <2> QED
    BY <1>11, <2>1, <2>2, <2>3, <2>4 DEF RunnerDies, JobsTypeOK, accountVars, otherVars
<1>12. ASSUME NEW r \in Runners, RunnerStarts(r) PROVE JobsTypeOK'
  BY <1>12, JobsAssumption
     DEF RunnerStarts, Idle, JobsTypeOK, Row, JobStatus, Task, Finished, Stopped,
         Busy, Failures, LoginFailures, FormFailures, InteractFailures,
         CaptureFailures, Free, Off, NewJob, NoRequest, NoLease, AtWork,
         accountVars, otherVars
<1>13. ASSUME NEW r \in Runners, MonitorRead(r) PROVE JobsTypeOK'
  BY <1>13, JobsAssumption
     DEF MonitorRead, Expired, JobsTypeOK, Row, JobStatus, Task, Finished, Stopped,
         Busy, Failures, LoginFailures, FormFailures, InteractFailures,
         CaptureFailures, Free, Off, NewJob, NoRequest, AtWork, accountVars
<1>14. CASE MonitorWrite
  BY <1>14, JobsAssumption
     DEF MonitorWrite, Evicted, JobsTypeOK, Row, JobStatus, Task, Finished,
         Stopped, Busy, Failures, LoginFailures, FormFailures, InteractFailures,
         CaptureFailures, Free, Off, NewJob, AtWork
<1>15. CASE Tick
  <2>1. job' \in [Jobs -> Row]
    <3>1. ASSUME NEW i \in Jobs
          PROVE  [job[i] EXCEPT !.lease = Older(job[i].lease)] \in Row
      <4>1. job[i] \in Row /\ job[i].lease \in {NoLease} \cup 0..Lease
        BY DEF JobsTypeOK, Row
      <4> QED
        BY <4>1, RowUpdate, OlderLease, Statuses
    <3> QED
      BY <1>15, <3>1 DEF Tick
  <2>2. hold' \in [Accounts -> HoldRow]
    <3>1. \A a \in Accounts : [hold[a] EXCEPT !.lease = Older(hold[a].lease)] \in HoldRow
      BY HoldUpdate, OlderLease DEF JobsTypeOK, HoldRow
    <3> QED
      BY <1>15, <3>1 DEF Tick
  <2>3. lost' \subseteq Runners
    BY <1>15 DEF Tick, JobsTypeOK, Lapsing
  <2>4. faults' \in 0..MaxFaults
    BY <1>15, JobsAssumption DEF Tick, JobsTypeOK, Fault
  <2> QED
    BY <1>15, <2>1, <2>2, <2>3, <2>4 DEF Tick, JobsTypeOK, HoldRow, AtWork, otherVars
<1>16. ASSUME NEW j \in Jobs, CreateJob(j) PROVE JobsTypeOK'
  <2>1. job' \in [Jobs -> Row]
    <3>1. [job[j] EXCEPT !.status = "QUEUED"] \in Row
      BY RowUpdate, Statuses DEF JobsTypeOK
    <3> QED
      BY <1>16, <3>1 DEF CreateJob, JobsTypeOK
  <2> QED
    BY <1>16, <2>1 DEF CreateJob, JobsTypeOK, AtWork, accountVars, otherVars
<1>17. ASSUME NEW by \in Requesters, NEW j \in Jobs, RequeueRead(by, j) PROVE JobsTypeOK'
  BY <1>17, JobsAssumption
     DEF RequeueRead, JobsTypeOK, Row, JobStatus, Task, Finished, Stopped, Busy,
         Failures, LoginFailures, FormFailures, InteractFailures, CaptureFailures,
         Free, Off, NewJob, NoRequest, NoLease, AtWork, Requests, accountVars
<1>18. ASSUME NEW by \in Requesters, RequeueWrite(by) PROVE JobsTypeOK'
  <2>1. job' \in [Jobs -> Row]
    <3> DEFINE j == requeue[by].job
               row == job[j]
               s == Write(requeue[by].status, "QUEUED", row.status)
               n == Write(requeue[by].runner, NoOne, row.runner)
               l == Write(requeue[by].lease, NoLease, row.lease)
    <3>1. CASE j \notin Jobs
      BY <1>18, <3>1 DEF RequeueWrite, JobsTypeOK
    <3>2. CASE j \in Jobs
      <4>1. row \in Row
        BY <3>2 DEF JobsTypeOK
      <4>2. s \in JobStatus /\ n \in Runners \cup {NoOne} /\ l \in {NoLease} \cup 0..Lease
        BY <4>1, Statuses, Leases DEF Write, Row
      <4>3. [row EXCEPT !.status = s, !.runner = n, !.lease = l] \in Row
        BY <4>1, <4>2, RowUpdate
      <4>4. job' = [job EXCEPT ![j] = [row EXCEPT !.status = s, !.runner = n, !.lease = l]]
        BY <1>18 DEF RequeueWrite
      <4> QED
        BY <3>2, <4>3, <4>4 DEF JobsTypeOK
    <3> QED
      BY <3>1, <3>2
  <2>2. requeue' \in [Requesters -> RequestRow]
    BY <1>18, Statuses, Leases DEF RequeueWrite, JobsTypeOK, RequestRow, NoRequest
  <2> QED
    BY <1>18, <2>1, <2>2 DEF RequeueWrite, JobsTypeOK, RequestRow, AtWork, accountVars
<1>19. ASSUME NEW a \in Accounts, ReleaseAccount(a) PROVE JobsTypeOK'
  BY <1>19, JobsAssumption
     DEF ReleaseAccount, Evicted, JobsTypeOK, Row, JobStatus, Task, Finished,
         Stopped, Busy, Failures, LoginFailures, FormFailures, InteractFailures,
         CaptureFailures, Free, Off, NewJob, NoRequest, AtWork, Requests
<1>20. ASSUME NEW a \in Accounts, UpdateAccount(a) PROVE JobsTypeOK'
  <2>1. login' \in [Accounts -> {"ACTIVE", "LOGIN_REQUIRED", "ERROR"}]
    BY <1>20 DEF UpdateAccount, JobsTypeOK
  <2>2. enabled' \in [Accounts -> BOOLEAN]
    BY <1>20 DEF UpdateAccount, JobsTypeOK
  <2>3. admin' \in 0..MaxAdmin
    BY <1>20, JobsAssumption DEF UpdateAccount, JobsTypeOK, Requests
  <2> QED
    BY <1>20, <2>1, <2>2, <2>3 DEF UpdateAccount, JobsTypeOK, AtWork
<1>21. ASSUME NEW j \in Jobs, ReopenOrder(j) PROVE JobsTypeOK'
  BY <1>21, JobsAssumption
     DEF ReopenOrder, JobsTypeOK, Row, JobStatus, Task, Finished, Stopped, Busy,
         Failures, LoginFailures, FormFailures, InteractFailures, CaptureFailures,
         Free, Off, NewJob, NoRequest, NoLease, NoJob, AtWork, Requests,
         accountVars
<1>22. ASSUME NEW j \in Jobs, EndOrder(j) PROVE JobsTypeOK'
  BY <1>22, JobsAssumption
     DEF EndOrder, JobsTypeOK, Row, JobStatus, Task, Finished, Stopped, Busy,
         Failures, LoginFailures, FormFailures, InteractFailures, CaptureFailures,
         Free, Off, NewJob, NoRequest, NoLease, AtWork, accountVars, otherVars
<1>23. CASE UNCHANGED vars
  BY <1>23, JobsAssumption
     DEF vars, accountVars, otherVars, JobsTypeOK, Row, JobStatus, Task, Finished,
         Stopped, Busy, Failures, LoginFailures, FormFailures, InteractFailures,
         CaptureFailures, AtWork
<1> QED
  BY <1>1, <1>2, <1>3, <1>4, <1>5, <1>6, <1>7, <1>8, <1>9, <1>10, <1>11, <1>12, <1>13, <1>14, <1>15, <1>16, <1>17, <1>18, <1>19, <1>20, <1>21, <1>22, <1>23
     DEF JobsNext, RunnerStep, ClaimStep, WorkStep, JobStep, AccountStep

\* What a tick leaves alone of a job and of an account.
LEMMA TickKeepsJob ==
    ASSUME JobsTypeOK, Tick, NEW j \in Jobs
    PROVE  /\ job'[j].runner = job[j].runner
           /\ job'[j].account = job[j].account
           /\ job'[j].attempts = job[j].attempts
<1>1. job'[j] = [job[j] EXCEPT !.lease = Older(job[j].lease)]
  BY DEF Tick
<1>2. job[j] \in Row
  BY DEF JobsTypeOK
<1> QED
  BY <1>1, <1>2 DEF Row

LEMMA TickKeepsAccount ==
    ASSUME JobsTypeOK, Tick, NEW a \in Accounts
    PROVE  /\ hold'[a].runner = hold[a].runner
           /\ hold'[a].job = hold[a].job
           /\ hold[a].lease > 1 => hold'[a].lease > 0
<1>1. hold'[a] = [hold[a] EXCEPT !.lease = Older(hold[a].lease)]
  BY DEF Tick
<1>2. hold[a] \in HoldRow
  BY DEF JobsTypeOK, HoldRow
<1> QED
  BY <1>1, <1>2, JobsAssumption DEF HoldRow, Older, NoLease

\* What a capture or a report that commits does to the rows of jobs.
Ended(r) ==
    /\ work[r].job \in Jobs
    /\ \A i \in Jobs : /\ job'[i].account = job[i].account
                       /\ job'[i].attempts = job[i].attempts
                       /\ job'[i].runner \in {job[i].runner, NoOne}
    /\ hold' = Release(work[r].job)
    /\ Idle(r) \/ (Fails(r) /\ lost' = lost \cup {r})

LEMMA CommitEnds ==
    ASSUME JobsTypeOK, NEW r \in Runners, CaptureCommit(r) \/ ReportCommit(r)
    PROVE  Ended(r)
<1>1. work[r].job \in Jobs
  BY DEF CaptureCommit, ReportCommit, JobsTypeOK, AtWork
<1>2. ASSUME NEW i \in Jobs
      PROVE  /\ job'[i].account = job[i].account
             /\ job'[i].attempts = job[i].attempts
             /\ job'[i].runner \in {job[i].runner, NoOne}
  <2>1. job[i] \in Row
    BY DEF JobsTypeOK
  <2>2. CASE CaptureCommit(r)
    BY <1>1, <2>1, <2>2 DEF CaptureCommit, JobsTypeOK, Row
  <2>3. CASE ReportCommit(r)
    BY <1>1, <2>1, <2>3 DEF ReportCommit, JobsTypeOK, Row
  <2> QED
    BY <2>2, <2>3
<1> QED
  BY <1>1, <1>2 DEF CaptureCommit, ReportCommit, Ended


LEMMA LockedStep ==
    ASSUME JobsTypeOK, LockedIsOwned, [JobsNext]_vars
    PROVE  LockedIsOwned'
<1>1. ASSUME NEW r \in Runners, NEW j \in Jobs, NEW a \in Accounts, ClaimAnswered(r, j, a) PROVE LockedIsOwned'
  BY <1>1, JobsAssumption
     DEF ClaimAnswered, Claim, LockedIsOwned, Locked, Claimable, JobsTypeOK, Owns
<1>2. ASSUME NEW r \in Runners, NEW j \in Jobs, NEW a \in Accounts, ClaimLost(r, j, a) PROVE LockedIsOwned'
  BY <1>2, JobsAssumption
     DEF ClaimLost, Claim, LockedIsOwned, Locked, Claimable, JobsTypeOK, Owns
<1>3. ASSUME NEW r \in Runners, Heartbeat(r) PROVE LockedIsOwned'
  BY <1>3, JobsAssumption DEF Heartbeat, LockedIsOwned, Locked, Claimable, JobsTypeOK, Owns
<1>4. ASSUME NEW r \in Runners, WorkFails(r) PROVE LockedIsOwned'
  BY <1>4, JobsAssumption DEF WorkFails, LockedIsOwned, Locked, Claimable, JobsTypeOK, Owns
<1>5. ASSUME NEW r \in Runners, OpenRequest(r) PROVE LockedIsOwned'
  BY <1>5, JobsAssumption
     DEF OpenRequest, LockedIsOwned, Locked, Claimable, JobsTypeOK, Task
<1>6. ASSUME NEW r \in Runners, CaptureCommit(r) PROVE LockedIsOwned'
  <2>1. r \in Runners /\ work[r].job \in Jobs
    BY <1>6 DEF CaptureCommit, JobsTypeOK, AtWork
  <2>2. \A j \in Jobs : job'[j].runner = job[j].runner
    BY <1>6, <2>1 DEF CaptureCommit, JobsTypeOK, Row
  <2>3. work'[r].pc \notin {"capturing", "reporting"}
    BY <1>6 DEF CaptureCommit, Idle, Fails, Off, JobsTypeOK, Task
  <2>4. \A s \in Runners \ {r} : work'[s] = work[s]
    BY <1>6 DEF CaptureCommit, Idle, Fails, JobsTypeOK
  <2> QED
    BY <2>2, <2>3, <2>4 DEF LockedIsOwned, Owns, JobsTypeOK, AtWork
<1>7. ASSUME NEW r \in Runners, CaptureAbort(r) PROVE LockedIsOwned'
  BY <1>7, JobsAssumption
     DEF CaptureAbort, Fails, LockedIsOwned, Locked, Claimable, JobsTypeOK, Owns
<1>8. ASSUME NEW r \in Runners, ReportCommit(r) PROVE LockedIsOwned'
  <2>1. r \in Runners /\ work[r].job \in Jobs /\ Owns(r)
    BY <1>8 DEF ReportCommit, JobsTypeOK, AtWork, LockedIsOwned
  <2>2. \A j \in Jobs \ {work[r].job} : job'[j].runner = job[j].runner
    BY <1>8, <2>1 DEF ReportCommit, JobsTypeOK, Row
  <2>3. work'[r].pc \notin {"capturing", "reporting"}
    BY <1>8 DEF ReportCommit, Idle, Off, JobsTypeOK
  <2>4. \A s \in Runners \ {r} : work'[s] = work[s]
    BY <1>8 DEF ReportCommit, Idle, JobsTypeOK
  <2> QED
    BY <2>1, <2>2, <2>3, <2>4 DEF LockedIsOwned, Owns, JobsTypeOK, AtWork
<1>9. ASSUME NEW r \in Runners, ReportRefused(r) PROVE LockedIsOwned'
  BY <1>9, JobsAssumption
     DEF ReportRefused, Idle, LockedIsOwned, Locked, Claimable, JobsTypeOK, Row,
         Owns, Off
<1>10. ASSUME NEW r \in Runners, ReportLost(r) PROVE LockedIsOwned'
  BY <1>10, JobsAssumption
     DEF ReportLost, Idle, LockedIsOwned, Locked, Claimable, JobsTypeOK, Row, Owns,
         Off
<1>11. ASSUME NEW r \in Runners, RunnerDies(r) PROVE LockedIsOwned'
  BY <1>11, JobsAssumption
     DEF RunnerDies, LockedIsOwned, Locked, Claimable, JobsTypeOK, Owns
<1>12. ASSUME NEW r \in Runners, RunnerStarts(r) PROVE LockedIsOwned'
  BY <1>12, JobsAssumption
     DEF RunnerStarts, Idle, LockedIsOwned, Locked, Claimable, JobsTypeOK, Row,
         Owns, Off
<1>13. ASSUME NEW r \in Runners, MonitorRead(r) PROVE LockedIsOwned'
  BY <1>13, JobsAssumption
     DEF MonitorRead, Expired, LockedIsOwned, Locked, Claimable, JobsTypeOK, Owns
<1>14. CASE MonitorWrite
  BY <1>14, JobsAssumption
     DEF MonitorWrite, Evicted, LockedIsOwned, Locked, Claimable, JobsTypeOK, Owns
<1>15. CASE Tick
  <2>1. UNCHANGED work
    BY <1>15 DEF Tick
  <2> QED
    BY <1>15, <2>1, TickKeepsJob DEF LockedIsOwned, JobsTypeOK, AtWork, Owns
<1>16. ASSUME NEW j \in Jobs, CreateJob(j) PROVE LockedIsOwned'
  BY <1>16, JobsAssumption DEF CreateJob, LockedIsOwned, Locked, Claimable, JobsTypeOK, Owns
<1>17. ASSUME NEW by \in Requesters, NEW j \in Jobs, RequeueRead(by, j) PROVE LockedIsOwned'
  BY <1>17, JobsAssumption
     DEF RequeueRead, LockedIsOwned, Locked, Claimable, JobsTypeOK, Owns
<1>18. ASSUME NEW by \in Requesters, RequeueWrite(by) PROVE LockedIsOwned'
  BY <1>18, JobsAssumption
     DEF RequeueWrite, Write, LockedIsOwned, Locked, Claimable, JobsTypeOK, Owns
<1>19. ASSUME NEW a \in Accounts, ReleaseAccount(a) PROVE LockedIsOwned'
  BY <1>19, JobsAssumption
     DEF ReleaseAccount, Evicted, LockedIsOwned, Locked, Claimable, JobsTypeOK,
         Owns
<1>20. ASSUME NEW a \in Accounts, UpdateAccount(a) PROVE LockedIsOwned'
  BY <1>20, JobsAssumption
     DEF UpdateAccount, LockedIsOwned, Locked, Claimable, JobsTypeOK, Owns
<1>21. ASSUME NEW j \in Jobs, ReopenOrder(j) PROVE LockedIsOwned'
  BY <1>21, JobsAssumption
     DEF ReopenOrder, LockedIsOwned, Locked, Claimable, JobsTypeOK, Owns
<1>22. ASSUME NEW j \in Jobs, EndOrder(j) PROVE LockedIsOwned'
  BY <1>22, JobsAssumption DEF EndOrder, LockedIsOwned, Locked, Claimable, JobsTypeOK, Owns
<1>23. CASE UNCHANGED vars
  BY <1>23, JobsAssumption DEF vars, accountVars, otherVars, LockedIsOwned, Locked, Owns
<1> QED
  BY <1>1, <1>2, <1>3, <1>4, <1>5, <1>6, <1>7, <1>8, <1>9, <1>10, <1>11, <1>12, <1>13, <1>14, <1>15, <1>16, <1>17, <1>18, <1>19, <1>20, <1>21, <1>22, <1>23
     DEF JobsNext, RunnerStep, ClaimStep, WorkStep, JobStep, AccountStep

LEMMA HasAccountStep ==
    ASSUME JobsTypeOK, RunnerHasAccount, [JobsNext]_vars
    PROVE  RunnerHasAccount'
<1>1. ASSUME NEW r \in Runners, NEW j \in Jobs, NEW a \in Accounts, ClaimAnswered(r, j, a) PROVE RunnerHasAccount'
  BY <1>1, JobsAssumption DEF ClaimAnswered, Claim, RunnerHasAccount, Requesters, JobsTypeOK
<1>2. ASSUME NEW r \in Runners, NEW j \in Jobs, NEW a \in Accounts, ClaimLost(r, j, a) PROVE RunnerHasAccount'
  BY <1>2, JobsAssumption DEF ClaimLost, Claim, RunnerHasAccount, Requesters, JobsTypeOK
<1>3. ASSUME NEW r \in Runners, Heartbeat(r) PROVE RunnerHasAccount'
  BY <1>3, JobsAssumption DEF Heartbeat, RunnerHasAccount, Requesters, JobsTypeOK
<1>4. ASSUME NEW r \in Runners, WorkFails(r) PROVE RunnerHasAccount'
  BY <1>4, JobsAssumption DEF WorkFails, RunnerHasAccount, Requesters, JobsTypeOK
<1>5. ASSUME NEW r \in Runners, OpenRequest(r) PROVE RunnerHasAccount'
  BY <1>5, JobsAssumption DEF OpenRequest, RunnerHasAccount, Requesters, JobsTypeOK
<1>6. ASSUME NEW r \in Runners, CaptureCommit(r) PROVE RunnerHasAccount'
  BY <1>6, JobsAssumption
     DEF CaptureCommit, Release, Idle, Fails, RunnerHasAccount, Requesters,
         JobsTypeOK
<1>7. ASSUME NEW r \in Runners, CaptureAbort(r) PROVE RunnerHasAccount'
  BY <1>7, JobsAssumption DEF CaptureAbort, Fails, RunnerHasAccount, Requesters, JobsTypeOK
<1>8. ASSUME NEW r \in Runners, ReportCommit(r) PROVE RunnerHasAccount'
  BY <1>8, CommitEnds DEF Ended, RunnerHasAccount
<1>9. ASSUME NEW r \in Runners, ReportRefused(r) PROVE RunnerHasAccount'
  BY <1>9, JobsAssumption DEF ReportRefused, Idle, RunnerHasAccount, Requesters, JobsTypeOK
<1>10. ASSUME NEW r \in Runners, ReportLost(r) PROVE RunnerHasAccount'
  BY <1>10, JobsAssumption DEF ReportLost, Idle, RunnerHasAccount, Requesters, JobsTypeOK
<1>11. ASSUME NEW r \in Runners, RunnerDies(r) PROVE RunnerHasAccount'
  BY <1>11, JobsAssumption DEF RunnerDies, RunnerHasAccount, Requesters, JobsTypeOK
<1>12. ASSUME NEW r \in Runners, RunnerStarts(r) PROVE RunnerHasAccount'
  BY <1>12, JobsAssumption DEF RunnerStarts, Idle, RunnerHasAccount, Requesters, JobsTypeOK
<1>13. ASSUME NEW r \in Runners, MonitorRead(r) PROVE RunnerHasAccount'
  BY <1>13, JobsAssumption
     DEF MonitorRead, Expired, RunnerHasAccount, Requesters, JobsTypeOK
<1>14. CASE MonitorWrite
  BY <1>14, JobsAssumption
     DEF MonitorWrite, Evicted, RunnerHasAccount, Requesters, JobsTypeOK
<1>15. CASE Tick
  BY <1>15, TickKeepsJob DEF RunnerHasAccount
<1>16. ASSUME NEW j \in Jobs, CreateJob(j) PROVE RunnerHasAccount'
  BY <1>16, JobsAssumption DEF CreateJob, RunnerHasAccount, Requesters, JobsTypeOK
<1>17. ASSUME NEW by \in Requesters, NEW j \in Jobs, RequeueRead(by, j) PROVE RunnerHasAccount'
  BY <1>17, JobsAssumption DEF RequeueRead, RunnerHasAccount, Requesters, JobsTypeOK
<1>18. ASSUME NEW by \in Requesters, RequeueWrite(by) PROVE RunnerHasAccount'
  BY <1>18, JobsAssumption DEF RequeueWrite, Write, RunnerHasAccount, Requesters, JobsTypeOK
<1>19. ASSUME NEW a \in Accounts, ReleaseAccount(a) PROVE RunnerHasAccount'
  BY <1>19, JobsAssumption
     DEF ReleaseAccount, Evicted, RunnerHasAccount, Requesters, JobsTypeOK
<1>20. ASSUME NEW a \in Accounts, UpdateAccount(a) PROVE RunnerHasAccount'
  BY <1>20, JobsAssumption DEF UpdateAccount, RunnerHasAccount, Requesters, JobsTypeOK
<1>21. ASSUME NEW j \in Jobs, ReopenOrder(j) PROVE RunnerHasAccount'
  BY <1>21, JobsAssumption DEF ReopenOrder, RunnerHasAccount, Requesters, JobsTypeOK
<1>22. ASSUME NEW j \in Jobs, EndOrder(j) PROVE RunnerHasAccount'
  BY <1>22, JobsAssumption DEF EndOrder, RunnerHasAccount, Requesters, JobsTypeOK
<1>23. CASE UNCHANGED vars
  BY <1>23, JobsAssumption DEF vars, accountVars, otherVars, RunnerHasAccount
<1> QED
  BY <1>1, <1>2, <1>3, <1>4, <1>5, <1>6, <1>7, <1>8, <1>9, <1>10, <1>11, <1>12, <1>13, <1>14, <1>15, <1>16, <1>17, <1>18, <1>19, <1>20, <1>21, <1>22, <1>23
     DEF JobsNext, RunnerStep, ClaimStep, WorkStep, JobStep, AccountStep

LEMMA AcceptedStep ==
    ASSUME JobsTypeOK, LockedIsOwned, AcceptedMeansLatestClaim, [JobsNext]_vars
    PROVE  AcceptedMeansLatestClaim'
<1>1. ASSUME NEW r \in Runners, NEW j \in Jobs, NEW a \in Accounts, ClaimAnswered(r, j, a) PROVE AcceptedMeansLatestClaim'
  BY <1>1, JobsAssumption
     DEF ClaimAnswered, Claim, AcceptedMeansLatestClaim, JobsTypeOK, AtWork, Owns
<1>2. ASSUME NEW r \in Runners, NEW j \in Jobs, NEW a \in Accounts, ClaimLost(r, j, a) PROVE AcceptedMeansLatestClaim'
  BY <1>2, JobsAssumption
     DEF ClaimLost, Claim, AcceptedMeansLatestClaim, JobsTypeOK, AtWork, Owns
<1>3. ASSUME NEW r \in Runners, Heartbeat(r) PROVE AcceptedMeansLatestClaim'
  BY <1>3, JobsAssumption
     DEF Heartbeat, AcceptedMeansLatestClaim, JobsTypeOK, Row, AtWork, Owns
<1>4. ASSUME NEW r \in Runners, WorkFails(r) PROVE AcceptedMeansLatestClaim'
  BY <1>4, JobsAssumption
     DEF WorkFails, AcceptedMeansLatestClaim, JobsTypeOK, Row, AtWork, Owns
<1>5. ASSUME NEW r \in Runners, OpenRequest(r) PROVE AcceptedMeansLatestClaim'
  BY <1>5, JobsAssumption DEF OpenRequest, AcceptedMeansLatestClaim, JobsTypeOK, Task
<1>6. ASSUME NEW r \in Runners, CaptureCommit(r) PROVE AcceptedMeansLatestClaim'
  <2> SUFFICES ASSUME NEW s \in Runners, AtWork(s)', Owns(s)'
               PROVE  job'[work'[s].job].attempts = work'[s].claim
    BY DEF AcceptedMeansLatestClaim
  <2>1. Ended(r)
    BY <1>6, CommitEnds
  <2>2. work[s] \in Task /\ work[r] \in Task /\ AtWork(r)
    BY <1>6 DEF JobsTypeOK, CaptureCommit, AtWork
  <2>3. AtWork(s) /\ work'[s].job = work[s].job /\ work'[s].claim = work[s].claim
    <3>1. CASE Idle(r)
      BY <2>2, <3>1 DEF Idle, AtWork, Off, JobsTypeOK
    <3>2. CASE Fails(r)
      BY <2>2, <3>2 DEF Fails, AtWork, JobsTypeOK, Task
    <3> QED
      BY <2>1, <3>1, <3>2 DEF Ended
  <2>4. work[s].job \in Jobs
    BY <2>3 DEF JobsTypeOK
  <2>5. job'[work[s].job].runner = s /\ s # NoOne
    BY <2>3, JobsAssumption DEF Owns, NoOne
  <2>6. Owns(s) /\ job'[work[s].job].attempts = job[work[s].job].attempts
    BY <2>1, <2>4, <2>5 DEF Ended, Owns
  <2> QED
    BY <2>3, <2>6 DEF AcceptedMeansLatestClaim
<1>7. ASSUME NEW r \in Runners, CaptureAbort(r) PROVE AcceptedMeansLatestClaim'
  BY <1>7, JobsAssumption
     DEF CaptureAbort, Fails, AcceptedMeansLatestClaim, JobsTypeOK, AtWork, Owns
<1>8. ASSUME NEW r \in Runners, ReportCommit(r) PROVE AcceptedMeansLatestClaim'
  <2> SUFFICES ASSUME NEW s \in Runners, AtWork(s)', Owns(s)'
               PROVE  job'[work'[s].job].attempts = work'[s].claim
    BY DEF AcceptedMeansLatestClaim
  <2>1. Ended(r)
    BY <1>8, CommitEnds
  <2>2. work[s] \in Task /\ work[r] \in Task /\ AtWork(r)
    BY <1>8 DEF JobsTypeOK, ReportCommit, AtWork
  <2>3. AtWork(s) /\ work'[s].job = work[s].job /\ work'[s].claim = work[s].claim
    <3>1. CASE Idle(r)
      BY <2>2, <3>1 DEF Idle, AtWork, Off, JobsTypeOK
    <3>2. CASE Fails(r)
      BY <2>2, <3>2 DEF Fails, AtWork, JobsTypeOK, Task
    <3> QED
      BY <2>1, <3>1, <3>2 DEF Ended
  <2>4. work[s].job \in Jobs
    BY <2>3 DEF JobsTypeOK
  <2>5. job'[work[s].job].runner = s /\ s # NoOne
    BY <2>3, JobsAssumption DEF Owns, NoOne
  <2>6. Owns(s) /\ job'[work[s].job].attempts = job[work[s].job].attempts
    BY <2>1, <2>4, <2>5 DEF Ended, Owns
  <2> QED
    BY <2>3, <2>6 DEF AcceptedMeansLatestClaim
<1>9. ASSUME NEW r \in Runners, ReportRefused(r) PROVE AcceptedMeansLatestClaim'
  BY <1>9, JobsAssumption
     DEF ReportRefused, Idle, AcceptedMeansLatestClaim, JobsTypeOK, Row, AtWork,
         Owns, Off
<1>10. ASSUME NEW r \in Runners, ReportLost(r) PROVE AcceptedMeansLatestClaim'
  BY <1>10, JobsAssumption
     DEF ReportLost, Idle, AcceptedMeansLatestClaim, JobsTypeOK, Row, AtWork, Owns,
         Off
<1>11. ASSUME NEW r \in Runners, RunnerDies(r) PROVE AcceptedMeansLatestClaim'
  BY <1>11, JobsAssumption
     DEF RunnerDies, AcceptedMeansLatestClaim, JobsTypeOK, AtWork, Owns
<1>12. ASSUME NEW r \in Runners, RunnerStarts(r) PROVE AcceptedMeansLatestClaim'
  BY <1>12, JobsAssumption
     DEF RunnerStarts, Idle, AcceptedMeansLatestClaim, JobsTypeOK, Row, AtWork,
         Owns, Off
<1>13. ASSUME NEW r \in Runners, MonitorRead(r) PROVE AcceptedMeansLatestClaim'
  BY <1>13, JobsAssumption
     DEF MonitorRead, Expired, AcceptedMeansLatestClaim, JobsTypeOK, AtWork, Owns
<1>14. CASE MonitorWrite
  BY <1>14, JobsAssumption
     DEF MonitorWrite, Evicted, AcceptedMeansLatestClaim, JobsTypeOK, AtWork, Owns
<1>15. CASE Tick
  <2>1. UNCHANGED work
    BY <1>15 DEF Tick
  <2> QED
    BY <1>15, <2>1, TickKeepsJob DEF AcceptedMeansLatestClaim, JobsTypeOK, AtWork, Owns
<1>16. ASSUME NEW j \in Jobs, CreateJob(j) PROVE AcceptedMeansLatestClaim'
  BY <1>16, JobsAssumption DEF CreateJob, AcceptedMeansLatestClaim, JobsTypeOK, AtWork, Owns
<1>17. ASSUME NEW by \in Requesters, NEW j \in Jobs, RequeueRead(by, j) PROVE AcceptedMeansLatestClaim'
  BY <1>17, JobsAssumption
     DEF RequeueRead, AcceptedMeansLatestClaim, JobsTypeOK, AtWork, Owns
<1>18. ASSUME NEW by \in Requesters, RequeueWrite(by) PROVE AcceptedMeansLatestClaim'
  BY <1>18, JobsAssumption
     DEF RequeueWrite, Write, AcceptedMeansLatestClaim, JobsTypeOK, AtWork, Owns
<1>19. ASSUME NEW a \in Accounts, ReleaseAccount(a) PROVE AcceptedMeansLatestClaim'
  BY <1>19, JobsAssumption
     DEF ReleaseAccount, Evicted, AcceptedMeansLatestClaim, JobsTypeOK, AtWork,
         Owns
<1>20. ASSUME NEW a \in Accounts, UpdateAccount(a) PROVE AcceptedMeansLatestClaim'
  BY <1>20, JobsAssumption
     DEF UpdateAccount, AcceptedMeansLatestClaim, JobsTypeOK, AtWork, Owns
<1>21. ASSUME NEW j \in Jobs, ReopenOrder(j) PROVE AcceptedMeansLatestClaim'
  BY <1>21, JobsAssumption
     DEF ReopenOrder, AcceptedMeansLatestClaim, JobsTypeOK, AtWork, Owns
<1>22. ASSUME NEW j \in Jobs, EndOrder(j) PROVE AcceptedMeansLatestClaim'
  BY <1>22, JobsAssumption DEF EndOrder, AcceptedMeansLatestClaim, JobsTypeOK, AtWork, Owns
<1>23. CASE UNCHANGED vars
  BY <1>23, JobsAssumption
     DEF vars, accountVars, otherVars, AcceptedMeansLatestClaim, AtWork, Owns
<1> QED
  BY <1>1, <1>2, <1>3, <1>4, <1>5, <1>6, <1>7, <1>8, <1>9, <1>10, <1>11, <1>12, <1>13, <1>14, <1>15, <1>16, <1>17, <1>18, <1>19, <1>20, <1>21, <1>22, <1>23
     DEF JobsNext, RunnerStep, ClaimStep, WorkStep, JobStep, AccountStep

LEMMA LeaseStep ==
    ASSUME JobsTypeOK, RunnerHasAccount, LeaseIsTheRunners, [JobsNext]_vars
    PROVE  LeaseIsTheRunners'
<1>1. ASSUME NEW r \in Runners, NEW j \in Jobs, NEW a \in Accounts, ClaimAnswered(r, j, a) PROVE LeaseIsTheRunners'
  BY <1>1, JobsAssumption
     DEF ClaimAnswered, Claim, LeaseIsTheRunners, RunnerHasAccount, JobsTypeOK
<1>2. ASSUME NEW r \in Runners, NEW j \in Jobs, NEW a \in Accounts, ClaimLost(r, j, a) PROVE LeaseIsTheRunners'
  BY <1>2, JobsAssumption
     DEF ClaimLost, Claim, LeaseIsTheRunners, RunnerHasAccount, JobsTypeOK
<1>3. ASSUME NEW r \in Runners, Heartbeat(r) PROVE LeaseIsTheRunners'
  BY <1>3, JobsAssumption DEF Heartbeat, LeaseIsTheRunners, RunnerHasAccount, JobsTypeOK
<1>4. ASSUME NEW r \in Runners, WorkFails(r) PROVE LeaseIsTheRunners'
  BY <1>4, JobsAssumption
     DEF WorkFails, LeaseIsTheRunners, RunnerHasAccount, JobsTypeOK, Row,
         accountVars
<1>5. ASSUME NEW r \in Runners, OpenRequest(r) PROVE LeaseIsTheRunners'
  BY <1>5, JobsAssumption
     DEF OpenRequest, LeaseIsTheRunners, RunnerHasAccount, JobsTypeOK, Task
<1>6. ASSUME NEW r \in Runners, CaptureCommit(r) PROVE LeaseIsTheRunners'
  <2> SUFFICES ASSUME NEW i \in Jobs, job'[i].runner # NoOne, job'[i].account # NoOne,
                      hold'[job'[i].account].job = i
               PROVE  hold'[job'[i].account].runner = job'[i].runner
    BY DEF LeaseIsTheRunners
  <2>1. job[i].account \in Accounts \cup {NoOne}
    BY DEF JobsTypeOK, Row
  <2>2. Ended(r)
    BY <1>6, CommitEnds
  <2>3. hold'[job[i].account] = hold[job[i].account]
    BY <2>1, <2>2, JobsAssumption DEF Ended, Release, Free
  <2> QED
    BY <2>1, <2>2, <2>3 DEF LeaseIsTheRunners, Ended
<1>7. ASSUME NEW r \in Runners, CaptureAbort(r) PROVE LeaseIsTheRunners'
  BY <1>7, JobsAssumption
     DEF CaptureAbort, Fails, LeaseIsTheRunners, RunnerHasAccount, JobsTypeOK, Row,
         accountVars
<1>8. ASSUME NEW r \in Runners, ReportCommit(r) PROVE LeaseIsTheRunners'
  <2> SUFFICES ASSUME NEW i \in Jobs, job'[i].runner # NoOne, job'[i].account # NoOne,
                      hold'[job'[i].account].job = i
               PROVE  hold'[job'[i].account].runner = job'[i].runner
    BY DEF LeaseIsTheRunners
  <2>1. job[i].account \in Accounts \cup {NoOne}
    BY DEF JobsTypeOK, Row
  <2>2. Ended(r)
    BY <1>8, CommitEnds
  <2>3. hold'[job[i].account] = hold[job[i].account]
    BY <2>1, <2>2, JobsAssumption DEF Ended, Release, Free
  <2> QED
    BY <2>1, <2>2, <2>3 DEF LeaseIsTheRunners, Ended
<1>9. ASSUME NEW r \in Runners, ReportRefused(r) PROVE LeaseIsTheRunners'
  BY <1>9, JobsAssumption
     DEF ReportRefused, Idle, LeaseIsTheRunners, RunnerHasAccount, JobsTypeOK, Row,
         accountVars
<1>10. ASSUME NEW r \in Runners, ReportLost(r) PROVE LeaseIsTheRunners'
  BY <1>10, JobsAssumption
     DEF ReportLost, Idle, LeaseIsTheRunners, RunnerHasAccount, JobsTypeOK, Row,
         accountVars
<1>11. ASSUME NEW r \in Runners, RunnerDies(r) PROVE LeaseIsTheRunners'
  BY <1>11, JobsAssumption
     DEF RunnerDies, LeaseIsTheRunners, RunnerHasAccount, JobsTypeOK, Row,
         accountVars
<1>12. ASSUME NEW r \in Runners, RunnerStarts(r) PROVE LeaseIsTheRunners'
  BY <1>12, JobsAssumption
     DEF RunnerStarts, Idle, LeaseIsTheRunners, RunnerHasAccount, JobsTypeOK, Row,
         accountVars
<1>13. ASSUME NEW r \in Runners, MonitorRead(r) PROVE LeaseIsTheRunners'
  BY <1>13, JobsAssumption
     DEF MonitorRead, Expired, LeaseIsTheRunners, RunnerHasAccount, JobsTypeOK,
         Row, accountVars
<1>14. CASE MonitorWrite
  BY <1>14, JobsAssumption
     DEF MonitorWrite, Evicted, LeaseIsTheRunners, RunnerHasAccount, JobsTypeOK,
         Row, Free
<1>15. CASE Tick
  <2> SUFFICES ASSUME NEW i \in Jobs, job'[i].runner # NoOne, job'[i].account # NoOne,
                      hold'[job'[i].account].job = i
               PROVE  hold'[job'[i].account].runner = job'[i].runner
    BY DEF LeaseIsTheRunners
  <2>1. job[i].account \in Accounts \cup {NoOne}
    BY DEF JobsTypeOK, Row
  <2>2. job'[i].runner = job[i].runner /\ job'[i].account = job[i].account
    BY <1>15, TickKeepsJob
  <2>3. job[i].account \in Accounts
    BY <2>1, <2>2
  <2>4. /\ hold'[job[i].account].runner = hold[job[i].account].runner
        /\ hold'[job[i].account].job = hold[job[i].account].job
    BY <1>15, <2>3, TickKeepsAccount
  <2> QED
    BY <2>2, <2>4 DEF LeaseIsTheRunners
<1>16. ASSUME NEW j \in Jobs, CreateJob(j) PROVE LeaseIsTheRunners'
  BY <1>16, JobsAssumption
     DEF CreateJob, LeaseIsTheRunners, RunnerHasAccount, JobsTypeOK, Row,
         accountVars
<1>17. ASSUME NEW by \in Requesters, NEW j \in Jobs, RequeueRead(by, j) PROVE LeaseIsTheRunners'
  BY <1>17, JobsAssumption
     DEF RequeueRead, LeaseIsTheRunners, RunnerHasAccount, JobsTypeOK, Row,
         accountVars
<1>18. ASSUME NEW by \in Requesters, RequeueWrite(by) PROVE LeaseIsTheRunners'
  BY <1>18, JobsAssumption
     DEF RequeueWrite, Write, LeaseIsTheRunners, RunnerHasAccount, JobsTypeOK, Row,
         accountVars
<1>19. ASSUME NEW a \in Accounts, ReleaseAccount(a) PROVE LeaseIsTheRunners'
  BY <1>19, JobsAssumption
     DEF ReleaseAccount, Evicted, LeaseIsTheRunners, RunnerHasAccount, JobsTypeOK,
         Row, Free
<1>20. ASSUME NEW a \in Accounts, UpdateAccount(a) PROVE LeaseIsTheRunners'
  BY <1>20, JobsAssumption
     DEF UpdateAccount, LeaseIsTheRunners, RunnerHasAccount, JobsTypeOK
<1>21. ASSUME NEW j \in Jobs, ReopenOrder(j) PROVE LeaseIsTheRunners'
  BY <1>21, JobsAssumption
     DEF ReopenOrder, LeaseIsTheRunners, RunnerHasAccount, JobsTypeOK, Row,
         accountVars
<1>22. ASSUME NEW j \in Jobs, EndOrder(j) PROVE LeaseIsTheRunners'
  BY <1>22, JobsAssumption
     DEF EndOrder, LeaseIsTheRunners, RunnerHasAccount, JobsTypeOK, Row,
         accountVars
<1>23. CASE UNCHANGED vars
  BY <1>23, JobsAssumption DEF vars, accountVars, otherVars, LeaseIsTheRunners
<1> QED
  BY <1>1, <1>2, <1>3, <1>4, <1>5, <1>6, <1>7, <1>8, <1>9, <1>10, <1>11, <1>12, <1>13, <1>14, <1>15, <1>16, <1>17, <1>18, <1>19, <1>20, <1>21, <1>22, <1>23
     DEF JobsNext, RunnerStep, ClaimStep, WorkStep, JobStep, AccountStep

LEMMA WorkStepLeased ==
    ASSUME JobsTypeOK, LockedIsOwned, RunnerHasAccount, LeaseIsTheRunners, WorkIsLeased, [JobsNext]_vars
    PROVE  WorkIsLeased'
<1>1. ASSUME NEW r \in Runners, NEW j \in Jobs, NEW a \in Accounts, ClaimAnswered(r, j, a) PROVE WorkIsLeased'
  BY <1>1, JobsAssumption
     DEF ClaimAnswered, Claim, WorkIsLeased, LeaseIsTheRunners, LockedIsOwned,
         RunnerHasAccount, Available, Candidates, JobsTypeOK, Row, AtWork, NoLease
<1>2. ASSUME NEW r \in Runners, NEW j \in Jobs, NEW a \in Accounts, ClaimLost(r, j, a) PROVE WorkIsLeased'
  BY <1>2, JobsAssumption
     DEF ClaimLost, Claim, WorkIsLeased, LeaseIsTheRunners, LockedIsOwned,
         RunnerHasAccount, Available, Candidates, JobsTypeOK, Row, AtWork, NoLease
<1>3. ASSUME NEW r \in Runners, Heartbeat(r) PROVE WorkIsLeased'
  BY <1>3, JobsAssumption
     DEF Heartbeat, WorkIsLeased, LeaseIsTheRunners, LockedIsOwned,
         RunnerHasAccount, Available, Candidates, JobsTypeOK, AtWork
<1>4. ASSUME NEW r \in Runners, WorkFails(r) PROVE WorkIsLeased'
  BY <1>4, JobsAssumption
     DEF WorkFails, WorkIsLeased, LeaseIsTheRunners, LockedIsOwned,
         RunnerHasAccount, Available, Candidates, JobsTypeOK, Row, AtWork,
         accountVars
<1>5. ASSUME NEW r \in Runners, OpenRequest(r) PROVE WorkIsLeased'
  BY <1>5, JobsAssumption
     DEF OpenRequest, WorkIsLeased, LeaseIsTheRunners, LockedIsOwned,
         RunnerHasAccount, Available, Candidates, JobsTypeOK, Task
<1>6. ASSUME NEW r \in Runners, CaptureCommit(r) PROVE WorkIsLeased'
  BY <1>6, JobsAssumption
     DEF CaptureCommit, Release, Idle, Fails, WorkIsLeased, LeaseIsTheRunners,
         LockedIsOwned, RunnerHasAccount, Available, Candidates, JobsTypeOK, Row,
         Task, AtWork, Owns, Off
<1>7. ASSUME NEW r \in Runners, CaptureAbort(r) PROVE WorkIsLeased'
  BY <1>7, JobsAssumption
     DEF CaptureAbort, Fails, WorkIsLeased, LeaseIsTheRunners, LockedIsOwned,
         RunnerHasAccount, Available, Candidates, JobsTypeOK, Row, AtWork,
         accountVars
<1>8. ASSUME NEW r \in Runners, ReportCommit(r) PROVE WorkIsLeased'
  <2> DEFINE j == work[r].job
             a == job[j].account
  <2>1. /\ j \in Jobs /\ hold' = Release(j)
        /\ work' = [work EXCEPT ![r] = Off] /\ lost' = lost \ {r}
    BY <1>8, CommitEnds DEF Ended, ReportCommit, Idle
  <2>2. job[j].runner = r /\ a # NoOne /\ a \in Accounts
    BY <1>8, <2>1, JobsAssumption
       DEF ReportCommit, LockedIsOwned, Owns, RunnerHasAccount, JobsTypeOK, Row
  <2>3. ~AtWork(r)'
    BY <2>1 DEF AtWork, Off, JobsTypeOK
  <2>4. ASSUME NEW s \in Runners \ {r}, AtWork(s), s \notin lost
        PROVE  hold'[work[s].account] = hold[work[s].account]
    <3>1. hold[work[s].account].runner = s
      BY <2>4 DEF WorkIsLeased
    <3>2. hold[a].job = j => work[s].account # a
      BY <2>1, <2>2, <3>1, JobsAssumption DEF LeaseIsTheRunners
    <3> QED
      BY <2>1, <2>2, <2>4, <3>2 DEF Release, JobsTypeOK
  <2>5. \A s \in Runners \ {r} : work'[s] = work[s] /\ (s \notin lost' => s \notin lost)
    BY <2>1 DEF JobsTypeOK
  <2> QED
    BY <2>3, <2>4, <2>5 DEF WorkIsLeased, AtWork
<1>9. ASSUME NEW r \in Runners, ReportRefused(r) PROVE WorkIsLeased'
  BY <1>9, JobsAssumption
     DEF ReportRefused, Idle, WorkIsLeased, LeaseIsTheRunners, LockedIsOwned,
         RunnerHasAccount, Available, Candidates, JobsTypeOK, Row, Task, AtWork,
         Off, accountVars
<1>10. ASSUME NEW r \in Runners, ReportLost(r) PROVE WorkIsLeased'
  BY <1>10, JobsAssumption
     DEF ReportLost, Idle, WorkIsLeased, LeaseIsTheRunners, LockedIsOwned,
         RunnerHasAccount, Available, Candidates, JobsTypeOK, Row, Task, AtWork,
         Off, accountVars
<1>11. ASSUME NEW r \in Runners, RunnerDies(r) PROVE WorkIsLeased'
  BY <1>11, JobsAssumption
     DEF RunnerDies, WorkIsLeased, LeaseIsTheRunners, LockedIsOwned,
         RunnerHasAccount, Available, Candidates, JobsTypeOK, Row, AtWork,
         accountVars
<1>12. ASSUME NEW r \in Runners, RunnerStarts(r) PROVE WorkIsLeased'
  BY <1>12, JobsAssumption
     DEF RunnerStarts, Idle, WorkIsLeased, LeaseIsTheRunners, LockedIsOwned,
         RunnerHasAccount, Available, Candidates, JobsTypeOK, Row, Task, AtWork,
         Off, accountVars
<1>13. ASSUME NEW r \in Runners, MonitorRead(r) PROVE WorkIsLeased'
  BY <1>13, JobsAssumption
     DEF MonitorRead, Expired, WorkIsLeased, LeaseIsTheRunners, LockedIsOwned,
         RunnerHasAccount, Available, Candidates, JobsTypeOK, Row, AtWork,
         accountVars
<1>14. CASE MonitorWrite
  BY <1>14, JobsAssumption
     DEF MonitorWrite, Evicted, WorkIsLeased, LeaseIsTheRunners, LockedIsOwned,
         RunnerHasAccount, Available, Candidates, JobsTypeOK, AtWork
<1>15. CASE Tick
  <2> SUFFICES ASSUME NEW s \in Runners, AtWork(s)', s \notin lost'
               PROVE  LET h == hold'[work'[s].account] IN
                      h.runner = s /\ h.job = work'[s].job /\ h.lease > 0
    BY DEF WorkIsLeased
  <2>1. UNCHANGED work /\ AtWork(s) /\ s \notin lost /\ s \notin Lapsing
    BY <1>15 DEF Tick, AtWork
  <2>2. work[s].account \in Accounts
    BY <2>1 DEF JobsTypeOK
  <2>3. hold[work[s].account].lease \in Int
    BY <2>2, JobsAssumption DEF JobsTypeOK, NoLease
  <2>4. hold[work[s].account].lease > 1
    BY <2>1, <2>3 DEF WorkIsLeased, Lapsing
  <2>5. /\ hold'[work[s].account].runner = hold[work[s].account].runner
        /\ hold'[work[s].account].job = hold[work[s].account].job
        /\ hold'[work[s].account].lease > 0
    BY <1>15, <2>2, <2>4, TickKeepsAccount
  <2>6. hold[work[s].account].runner = s /\ hold[work[s].account].job = work[s].job
    BY <2>1 DEF WorkIsLeased
  <2> QED
    BY <2>1, <2>5, <2>6
<1>16. ASSUME NEW j \in Jobs, CreateJob(j) PROVE WorkIsLeased'
  BY <1>16, JobsAssumption
     DEF CreateJob, WorkIsLeased, LeaseIsTheRunners, LockedIsOwned,
         RunnerHasAccount, Available, Candidates, JobsTypeOK, Row, AtWork,
         accountVars
<1>17. ASSUME NEW by \in Requesters, NEW j \in Jobs, RequeueRead(by, j) PROVE WorkIsLeased'
  BY <1>17, JobsAssumption
     DEF RequeueRead, WorkIsLeased, LeaseIsTheRunners, LockedIsOwned,
         RunnerHasAccount, Available, Candidates, JobsTypeOK, Row, AtWork,
         accountVars
<1>18. ASSUME NEW by \in Requesters, RequeueWrite(by) PROVE WorkIsLeased'
  BY <1>18, JobsAssumption
     DEF RequeueWrite, Write, WorkIsLeased, LeaseIsTheRunners, LockedIsOwned,
         RunnerHasAccount, Available, Candidates, JobsTypeOK, Row, AtWork,
         accountVars
<1>19. ASSUME NEW a \in Accounts, ReleaseAccount(a) PROVE WorkIsLeased'
  BY <1>19, JobsAssumption
     DEF ReleaseAccount, Evicted, WorkIsLeased, LeaseIsTheRunners, LockedIsOwned,
         RunnerHasAccount, Available, Candidates, JobsTypeOK, AtWork
<1>20. ASSUME NEW a \in Accounts, UpdateAccount(a) PROVE WorkIsLeased'
  BY <1>20, JobsAssumption
     DEF UpdateAccount, WorkIsLeased, LeaseIsTheRunners, LockedIsOwned,
         RunnerHasAccount, Available, Candidates, JobsTypeOK, AtWork
<1>21. ASSUME NEW j \in Jobs, ReopenOrder(j) PROVE WorkIsLeased'
  BY <1>21, JobsAssumption
     DEF ReopenOrder, WorkIsLeased, LeaseIsTheRunners, LockedIsOwned,
         RunnerHasAccount, Available, Candidates, JobsTypeOK, Row, AtWork,
         accountVars
<1>22. ASSUME NEW j \in Jobs, EndOrder(j) PROVE WorkIsLeased'
  BY <1>22, JobsAssumption
     DEF EndOrder, WorkIsLeased, LeaseIsTheRunners, LockedIsOwned,
         RunnerHasAccount, Available, Candidates, JobsTypeOK, Row, AtWork,
         accountVars
<1>23. CASE UNCHANGED vars
  BY <1>23, JobsAssumption
     DEF vars, accountVars, otherVars, WorkIsLeased, LeaseIsTheRunners,
         LockedIsOwned, RunnerHasAccount, Available, AtWork
<1> QED
  BY <1>1, <1>2, <1>3, <1>4, <1>5, <1>6, <1>7, <1>8, <1>9, <1>10, <1>11, <1>12, <1>13, <1>14, <1>15, <1>16, <1>17, <1>18, <1>19, <1>20, <1>21, <1>22, <1>23
     DEF JobsNext, RunnerStep, ClaimStep, WorkStep, JobStep, AccountStep

----------------------------------------------------------------------------

LEMMA InitInv == JobsInit => JobsInv
<1> SUFFICES ASSUME JobsInit PROVE JobsInv
  OBVIOUS
<1>1. JobsTypeOK
  BY JobsAssumption
     DEF JobsInit, JobsTypeOK, Row, JobStatus, Task, NewJob, Free, Off, NoRequest,
         AtWork
<1>2. ~ \E r \in Runners : AtWork(r) \/ work[r].pc \in {"capturing", "reporting"}
  BY DEF JobsInit, AtWork, Off
<1>3. \A j \in Jobs : job[j].runner = NoOne
  BY DEF JobsInit, NewJob
<1> QED
  BY <1>1, <1>2, <1>3
     DEF JobsInv, LockedIsOwned, RunnerHasAccount, AcceptedMeansLatestClaim,
         LeaseIsTheRunners, WorkIsLeased

LEMMA StepInv == JobsInv /\ [JobsNext]_vars => JobsInv'
BY TypeStep, LockedStep, HasAccountStep, AcceptedStep, LeaseStep, WorkStepLeased DEF JobsInv

LEMMA JobsInvariant == JobsSpec => []JobsInv
BY InitInv, StepInv, PTL DEF JobsSpec

\* Every reachable state of the queue, the accounts and the runners is of its
\* type, whatever the jobs, the accounts, the runners and the bounds.
THEOREM JobsTypes == JobsSpec => []JobsTypeOK
<1>1. JobsInv => JobsTypeOK
  BY DEF JobsInv
<1> QED
  BY <1>1, JobsInvariant, PTL

\* require_runner_job, which compares the runner's name only, accepts no request
\* made under an earlier claim of the job than its latest.
THEOREM NameFencesClaims == JobsSpec => []AcceptedMeansLatestClaim
<1>1. JobsInv => AcceptedMeansLatestClaim
  BY DEF JobsInv
<1> QED
  BY <1>1, JobsInvariant, PTL

\* heartbeat_job and release_account, which compare the job only, touch no
\* account that is leased to another runner than the job's.
THEOREM LeaseFollowsTheJob == JobsSpec => []LeaseIsTheRunners
<1>1. JobsInv => LeaseIsTheRunners
  BY DEF JobsInv
<1> QED
  BY <1>1, JobsInvariant, PTL

\* No browser profile is open in two runners, unless one of them was deprived
\* of its lease: each runner at work has the lease of its account.
THEOREM OneRunnerInAProfile == JobsSpec => []ProfileNotShared
<1>1. JobsInv => ProfileNotShared
  BY DEF JobsInv, WorkIsLeased, ProfileNotShared
<1> QED
  BY <1>1, JobsInvariant, PTL
=============================================================================
