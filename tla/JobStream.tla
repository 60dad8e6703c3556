------------------------------ MODULE JobStream ------------------------------
(***************************************************************************)
(* How a page follows the report jobs of a company: the durable rows, the  *)
(* routes that start, retry, cancel and stream them, and the component     *)
(* GenerateReport with its two fences.                                     *)
(*                                                                         *)
(* The ledger and the runner are the environment here: they commit a row   *)
(* with its next revision and may hint at it.  A stream reads the row when *)
(* its timer fires or a hint arrives; one read and the frame it sends are  *)
(* synchronous, hence one action (and refreshPending never set).  A page   *)
(* handles one event per action.  The browser's side of an EventSource,    *)
(* reconnecting and giving up, is external.  Frames of a source that was   *)
(* closed may still reach its listener: the fence is there for them.       *)
(*                                                                         *)
(* A snapshot is its job, revision, status and settlementsPending; queued  *)
(* and running are "live".  The steps, costs and the summary it shows are  *)
(* left out.  A page that is left takes its refs along, so one page is     *)
(* enough; what other pages do to the job is RetryElsewhere.               *)
(***************************************************************************)
EXTENDS Integers, Sequences

CONSTANTS
    MaxJobs,        \* bound on the jobs of the symbol
    MaxProgress,    \* bound on the revision of a job that makes progress
    MaxRevision,    \* bound on the revision of a job that is retried
    MaxRequests,    \* bound on the POSTs of the page
    MaxTroubles,    \* bound on cuts, failing reads, lost POSTs and other pages' retries
    ReadRetries     \* the length of READ_RETRY_MS

ASSUME StreamAssumption ==
    /\ {MaxJobs, MaxProgress, MaxRevision, MaxRequests, MaxTroubles, ReadRetries} \subseteq Nat
    /\ MaxProgress <= MaxRevision

Jobs == 1..MaxJobs
Requests == 1..MaxRequests
\* An EventSource has the number of the POST it was opened after.
Sources == Requests

VARIABLES
    row,        \* what a snapshot shows of each row of jobs
    req,        \* the POSTs, by number
    page,       \* the state and refs of GenerateReport
    es,         \* its EventSources, by number
    conn,       \* the server's end of each of them: the refs of the route
    wire,       \* the frames under way to each of them
    troubles

vars == <<row, req, page, es, conn, wire, troubles>>

Terminal == {"done", "error", "unsupported"}

Live(j) == row[j].status = "live"

Snapshot(j) == [job |-> j, rev |-> row[j].rev, status |-> row[j].status, pending |-> row[j].pending]

Final(snap) == snap.status \in Terminal /\ ~snap.pending

NoFence == [src |-> 0, job |-> 0, rev |-> -1]

NoConn == [open |-> FALSE, last |-> -1, poll |-> FALSE, retry |-> FALSE, tries |-> 0]

NoRequest == [kind |-> "none", state |-> "unsent", job |-> 0, ok |-> FALSE, rev |-> 0]

Mounted ==
    [phase |-> "idle", job |-> 0, message |-> "none", resumable |-> FALSE,
     es |-> 0, fence |-> NoFence, current |-> 0]

Init ==
    /\ row = [j \in Jobs |-> [status |-> "none", rev |-> 0, pending |-> FALSE]]
    /\ req = [n \in Requests |-> NoRequest]
    /\ page = Mounted
    /\ es = [s \in Sources |-> [state |-> "unused", job |-> 0, rev |-> 0]]
    /\ conn = [s \in Sources |-> NoConn]
    /\ wire = [s \in Sources |-> <<>>]
    /\ troubles = 0

Page == UNCHANGED <<req, page, es>>
Stream == UNCHANGED <<conn, wire>>
Troubled == troubles < MaxTroubles /\ troubles' = troubles + 1

-------------------------------------------------------------------------------
(* The durable row.  Every change a snapshot shows advances its revision.  *)

\* mutateJobSnapshotInTransaction.
Commit(j, status, pending) ==
    row' = [row EXCEPT ![j] = [status |-> status, rev |-> @.rev + 1, pending |-> pending]]

Ends(j) ==
    \E status \in Terminal, pending \in BOOLEAN :
        /\ status = "unsupported" => ~pending
        /\ Commit(j, status, pending)

\* A step starts or ends, a cost is recorded.
Progress(j) ==
    /\ Live(j) /\ row[j].rev < MaxProgress
    /\ Commit(j, "live", FALSE)
    /\ Page /\ Stream /\ UNCHANGED troubles

\* The job ends; a lease retained for a late settlement keeps it pending.
End(j) == Live(j) /\ Ends(j) /\ Page /\ Stream /\ UNCHANGED troubles

\* The last retained lease is settled or pruned.
Settle(j) ==
    /\ row[j].pending
    /\ Commit(j, row[j].status, FALSE)
    /\ Page /\ Stream /\ UNCHANGED troubles

Retriable(j) ==
    /\ row[j].status \in {"done", "error"} /\ row[j].rev < MaxRevision
    /\ \A k \in Jobs : ~Live(k)

\* Another page retries a job.
RetryElsewhere(j) ==
    /\ Retriable(j)
    /\ Commit(j, "live", FALSE)
    /\ Page /\ Stream /\ Troubled

-------------------------------------------------------------------------------
(* The routes that start, retry and cancel.                                *)

Answered(n, job, ok, rev) ==
    req' = [req EXCEPT ![n] = [@ EXCEPT !.state = "answered", !.job = job, !.ok = ok, !.rev = rev]]

Refused(n) == Answered(n, req[n].job, FALSE, 0) /\ UNCHANGED row

\* getOrCreateJobForSymbol: the live job of the symbol, or else a new one.
ServeStart(n) ==
    \/ \E j \in Jobs : Live(j) /\ Answered(n, j, TRUE, row[j].rev) /\ UNCHANGED row
    \/ /\ \A j \in Jobs : ~Live(j)
       /\ \E j \in Jobs :
            /\ row[j].status = "none" /\ \A k \in 1..(j - 1) : row[k].status # "none"
            /\ row' = [row EXCEPT ![j].status = "live"]
            /\ Answered(n, j, TRUE, 0)
    \/ (\A j \in Jobs : row[j].status \in Terminal) /\ Refused(n)

\* prepareJobResume and claimPreparedJobResume: 409 when nothing can be reused.
ServeRetry(n) ==
    \/ /\ Retriable(req[n].job)
       /\ Commit(req[n].job, "live", FALSE)
       /\ Answered(n, req[n].job, TRUE, row[req[n].job].rev + 1)
    \/ Refused(n)

\* cancelJob: the row is terminal at once, its leases are settled later.
ServeCancel(n) ==
    \/ /\ Live(req[n].job)
       /\ \E pending \in BOOLEAN : Commit(req[n].job, "error", pending)
       /\ Answered(n, req[n].job, TRUE, row[req[n].job].rev + 1)
    \/ ~Live(req[n].job) /\ Refused(n)

Serve(n) ==
    /\ req[n].state = "sent"
    /\ \/ req[n].kind = "start" /\ ServeStart(n)
       \/ req[n].kind = "retry" /\ ServeRetry(n)
       \/ req[n].kind = "cancel" /\ ServeCancel(n)
    /\ UNCHANGED <<page, es>> /\ Stream /\ UNCHANGED troubles

-------------------------------------------------------------------------------
(* The stream of one connection.                                           *)

\* Bug: the stream relies on hints.
ArmedByHints(c) == c

\* schedulePoll arms nothing beside a pending retry of the read.
Armed(c) == IF c.retry THEN c ELSE [c EXCEPT !.poll = TRUE]

\* The authoritative read: a frame only for a revision this connection has not
\* sent, and the end of the stream with the final one.
Reads(s, c) ==
    LET snap == Snapshot(es[s].job)
        news == snap.rev > c.last
        sent == [c EXCEPT !.tries = 0, !.last = IF news THEN snap.rev ELSE @]
    IN /\ conn' = [conn EXCEPT ![s] = IF news /\ Final(snap) THEN NoConn ELSE Armed(sent)]
       /\ wire' = IF news THEN [wire EXCEPT ![s] = Append(@, snap)] ELSE wire
       /\ UNCHANGED troubles

\* Bug: a read that fails arms no timer.
ReadFailsForGood(s, c) ==
    /\ Troubled
    /\ conn' = [conn EXCEPT ![s] = c]
    /\ UNCHANGED wire

\* scheduleReadRetry: a read that keeps failing closes the stream for a reconnect.
ReadFails(s, c) ==
    /\ Troubled
    /\ conn' = [conn EXCEPT ![s] =
                  IF c.retry THEN c
                  ELSE IF c.tries = ReadRetries THEN NoConn
                  ELSE [c EXCEPT !.retry = TRUE, !.tries = @ + 1]]
    /\ UNCHANGED wire

Refresh(s, c) ==
    /\ Reads(s, c) \/ ReadFails(s, c)
    /\ UNCHANGED <<row, req, page>>

Poll(s) ==
    /\ conn[s].poll
    /\ Refresh(s, [conn[s] EXCEPT !.poll = FALSE])
    /\ UNCHANGED es

RetryRead(s) ==
    /\ conn[s].retry
    /\ Refresh(s, [conn[s] EXCEPT !.retry = FALSE])
    /\ UNCHANGED es

\* publishJobEvent reaches the subscribers of its own process, whatever it says.
Hint(s) ==
    /\ conn[s].open
    /\ Refresh(s, conn[s])
    /\ UNCHANGED es

\* The browser connects, or connects again after the stream has ended: a new
\* connection subscribes, then sends its baseline.
Connect(s) ==
    /\ es[s].state = "watching" /\ ~conn[s].open /\ wire[s] = <<>>
    /\ Refresh(s, [NoConn EXCEPT !.open = TRUE])
    /\ UNCHANGED es

\* The server answers with an error: jobExists throws.
Refuse(s) ==
    /\ es[s].state = "watching" /\ ~conn[s].open /\ wire[s] = <<>>
    /\ Troubled
    /\ es' = [es EXCEPT ![s].state = "refused"]
    /\ UNCHANGED <<row, req, page, conn, wire>>

\* The connection breaks, or the server dies: what was under way is lost.
Cut(s) ==
    /\ conn[s].open \/ wire[s] # <<>>
    /\ Troubled
    /\ conn' = [conn EXCEPT ![s] = NoConn]
    /\ wire' = [wire EXCEPT ![s] = <<>>]
    /\ UNCHANGED <<row, req, page, es>>

\* The abort of a source the page has closed reaches the server.
Abort(s) ==
    /\ es[s].state = "closed" /\ conn[s].open
    /\ conn' = [conn EXCEPT ![s] = NoConn]
    /\ UNCHANGED <<row, req, page, es, wire>> /\ UNCHANGED troubles

-------------------------------------------------------------------------------
(* The page.                                                               *)

Unsent(n) == req[n].state = "unsent" /\ \A m \in 1..(n - 1) : req[m].state # "unsent"

Post(n, kind, job) ==
    req' = [req EXCEPT ![n] = [@ EXCEPT !.kind = kind, !.state = "sent", !.job = job]]

Server == UNCHANGED <<row, conn, wire, troubles>>

\* closeCurrentStream, with the fence invalidated.
ClosedStream(p) == [p EXCEPT !.es = 0, !.fence = NoFence]
CloseSource == es' = [s \in Sources |-> IF s = page.es THEN [es[s] EXCEPT !.state = "closed"] ELSE es[s]]

\* The generate button.
Start(n) ==
    /\ Unsent(n) /\ page.phase \in {"idle", "done", "error"}
    /\ Post(n, "start", 0)
    /\ page' = [ClosedStream(page) EXCEPT
                  !.phase = "starting", !.message = "none", !.job = 0,
                  !.resumable = FALSE, !.current = n]
    /\ CloseSource
    /\ Server

\* retrySynthesis, offered for a job the server called resumable.
Retry(n) ==
    /\ Unsent(n) /\ page.phase \in {"done", "error"} /\ page.job # 0 /\ page.resumable
    /\ Post(n, "retry", page.job)
    /\ page' = [ClosedStream(page) EXCEPT
                  !.phase = "starting", !.message = "none",
                  !.resumable = FALSE, !.current = n]
    /\ CloseSource
    /\ Server

Cancel(n) ==
    /\ Unsent(n) /\ page.phase = "running" /\ page.job # 0
    /\ Post(n, "cancel", page.job)
    /\ page' = [page EXCEPT !.current = n]
    /\ UNCHANGED es /\ Server

Over(n) == req' = [req EXCEPT ![n] = [NoRequest EXCEPT !.state = "over"]]

\* setJobId and openStream.
Open(n, job) ==
    /\ es' = [es EXCEPT ![n] = [state |-> "watching", job |-> job, rev |-> req[n].rev]]
    /\ page' = [page EXCEPT !.job = job, !.es = n,
                            !.fence = [src |-> n, job |-> job, rev |-> -1]]

\* The answer of a POST, or its loss.  The fence is asked before the body is read
\* and after it: one that was overtaken is never current again, so once is enough.
Answer(n) ==
    /\ req[n].state = "answered"
    /\ Over(n)
    /\ IF page.current # n THEN UNCHANGED <<page, es>>
       ELSE \/ req[n].ok /\ req[n].kind # "cancel" /\ Open(n, req[n].job)
            \/ /\ req[n].ok /\ req[n].kind = "cancel"
               /\ page' = [page EXCEPT !.message = "canceling"]
               /\ UNCHANGED es
            \/ /\ ~req[n].ok
               /\ page' = [page EXCEPT
                             !.message = "refused",
                             !.phase = IF req[n].kind = "cancel" THEN @ ELSE "error"]
               /\ UNCHANGED es
    /\ Server

Lose(n) ==
    /\ req[n].state \in {"sent", "answered"}
    /\ Troubled
    /\ Over(n)
    /\ page' = IF page.current # n THEN page
               ELSE [page EXCEPT !.message = "refused",
                                 !.phase = IF req[n].kind = "cancel" THEN @ ELSE "error"]
    /\ UNCHANGED <<row, es, conn, wire>>

\* Bug: the fence knows the job only.
AcceptsJob(s, snap) == page.fence.job = snap.job /\ snap.rev > page.fence.rev

\* accept: a newer revision, of the source and the job the fence was set for.
Accepts(s, snap) ==
    /\ page.fence.src = s /\ page.fence.job = snap.job
    /\ snap.rev > page.fence.rev

\* Bug: a POST under way is not overtaken by the end of the job.
ShownBeside(snap) ==
    [page EXCEPT
       !.fence.rev = snap.rev,
       !.resumable = snap.status \in {"done", "error"},
       !.phase = IF snap.status = "live" THEN "running" ELSE snap.status,
       !.message = CASE snap.status = "done" -> "none" [] snap.status = "error" -> "outcome"
                     [] OTHER -> @,
       !.es = IF Final(snap) THEN 0 ELSE @]

\* An accepted terminal frame overtakes a POST still under way.
Shown(snap) ==
    [page EXCEPT
       !.fence.rev = snap.rev,
       !.resumable = snap.status \in {"done", "error"},
       !.phase = IF snap.status = "live" THEN "running" ELSE snap.status,
       !.current = IF snap.status = "live" THEN @ ELSE 0,
       !.message = CASE snap.status = "done" -> "none" [] snap.status = "error" -> "outcome"
                     [] OTHER -> @,
       !.es = IF Final(snap) THEN 0 ELSE @]

\* The snapshot listener; the final one closes its source.
Message(s) ==
    /\ wire[s] # <<>>
    /\ wire' = [wire EXCEPT ![s] = Tail(@)]
    /\ LET snap == Head(wire[s]) IN
       IF ~Accepts(s, snap) THEN UNCHANGED <<page, es>>
       ELSE /\ page' = Shown(snap)
            /\ es' = IF Final(snap) THEN [es EXCEPT ![s].state = "closed"] ELSE es
    /\ UNCHANGED <<row, req, conn, troubles>>

-------------------------------------------------------------------------------

Rows(j) == Progress(j) \/ End(j) \/ Settle(j) \/ RetryElsewhere(j)

Streams(s) ==
    Poll(s) \/ RetryRead(s) \/ Hint(s) \/ Connect(s) \/ Refuse(s) \/ Cut(s) \/ Abort(s) \/ Message(s)

Posts(n) == Serve(n) \/ Start(n) \/ Retry(n) \/ Cancel(n) \/ Answer(n) \/ Lose(n)

Next ==
    \/ \E j \in Jobs : Rows(j)
    \/ \E s \in Sources : Streams(s)
    \/ \E n \in Requests : Posts(n)

\* Jobs end and POSTs are answered; timers fire, the browser connects, frames and
\* answers are handled.  Hints owe nothing: the publisher may be another process.
Fairness ==
    /\ WF_vars(\E j \in Jobs : End(j))
    /\ \A s \in Sources : WF_vars(Poll(s) \/ RetryRead(s) \/ Connect(s)) /\ WF_vars(Message(s))
    /\ \A n \in Requests : WF_vars(Serve(n) \/ Answer(n))

Spec == Init /\ [][Next]_vars /\ Fairness

-------------------------------------------------------------------------------

TypeOK ==
    /\ row \in [Jobs -> [status : Terminal \union {"none", "live"}, rev : 0..(MaxRevision + 2),
                         pending : BOOLEAN]]
    /\ \A j \in Jobs : row[j].pending => row[j].status \in Terminal
    /\ \A s \in Sources :
         /\ conn[s].retry \/ conn[s].poll <=> conn[s].open
         /\ conn[s].tries \in 0..ReadRetries
         /\ es[s].state \in {"unused", "watching", "refused", "closed"}
         /\ es[s].state = "unused" => ~conn[s].open /\ wire[s] = <<>>
    /\ page.es # 0 => page.es = page.fence.src /\ es[page.es].state \in {"watching", "refused"}
    /\ page.current # 0 => req[page.current].state # "unsent"

\* An outcome is that of the run the page asked for: once a start or a retry has
\* been accepted, no frame of an earlier run or of another job ends the wait.
OutcomeIsOfThisRun ==
    page.fence.src # 0 /\ page.phase \in Terminal =>
        /\ page.fence.job = es[page.fence.src].job
        /\ page.fence.rev > es[page.fence.src].rev

\* The message under an outcome is the outcome's: a cancel answered late never says
\* that the page is still waiting, or that something failed.
MessageIsOfOutcome ==
    page.fence.src # 0 =>
        /\ page.phase = "done" => page.message = "none"
        /\ page.phase = "error" => page.message = "outcome"

Waiting == page.phase \in {"starting", "running"}
GivenUp == page.es # 0 /\ es[page.es].state = "refused"

\* "EventSource auto-reconnects and the next validated snapshot catches up": a page
\* that waits for a job sees its end, unless the browser has given the source up.
NobodyWaitsForever == Waiting ~> (~Waiting \/ GivenUp)
===============================================================================
