-------------------------- MODULE JobStream_proofs --------------------------
(***************************************************************************)
(* What a page shows of the jobs it follows, for every number of jobs,     *)
(* requests, revisions, troubles and retries of a read.                    *)
(***************************************************************************)
EXTENDS JobStream, TLAPS

Statuses == Terminal \union {"none", "live"}
Kinds == {"none", "start", "retry", "cancel"}

Frames == [job : Jobs, rev : Nat, status : Terminal \union {"live"}, pending : BOOLEAN]

RowTypes == [status : Statuses, rev : Nat, pending : BOOLEAN]

RequestTypes ==
    [kind : Kinds, state : {"unsent", "sent", "answered", "over"}, job : 0..MaxJobs,
     ok : BOOLEAN, rev : Nat]

PageTypes ==
    [phase : {"idle", "starting", "running"} \union Terminal, job : 0..MaxJobs,
     message : {"none", "canceling", "refused", "outcome"}, resumable : BOOLEAN,
     es : 0..MaxRequests, fence : [src : 0..MaxRequests, job : 0..MaxJobs, rev : Int],
     current : 0..MaxRequests]

SourceTypes ==
    [state : {"unused", "watching", "refused", "closed"}, job : 0..MaxJobs, rev : Nat]

ConnTypes ==
    [open : BOOLEAN, last : Int, poll : BOOLEAN, retry : BOOLEAN, tries : 0..ReadRetries]

Types ==
    /\ row \in [Jobs -> RowTypes]
    /\ req \in [Requests -> RequestTypes]
    /\ page \in PageTypes
    /\ es \in [Sources -> SourceTypes]
    /\ conn \in [Sources -> ConnTypes]
    /\ wire \in [Sources -> Seq(Frames)]
    /\ troubles \in Nat

\* How far a revision gets in each stage of a run.
Bounded ==
    \A j \in Jobs :
        /\ row[j].rev <= MaxRevision + 2
        /\ row[j].status = "none" => row[j].rev = 0
        /\ row[j].status = "live" => row[j].rev <= MaxRevision
        /\ row[j].pending => row[j].status \in Terminal /\ row[j].rev <= MaxRevision + 1

\* The row has been at revision r while live: if it is over, it ended later.
Since(j, r) ==
    /\ j \in Jobs /\ row[j].status # "none"
    /\ row[j].rev >= r
    /\ row[j].status \in Terminal => row[j].rev > r

\* What a POST was told, and what it asks for.
Told ==
    \A n \in Requests :
        /\ req[n].state = "sent" /\ req[n].kind # "start" => req[n].job # 0
        /\ req[n].state = "answered" /\ req[n].ok /\ req[n].kind # "cancel" =>
              Since(req[n].job, req[n].rev)
        /\ req[n].state # "over" => es[n].state = "unused"

\* A source was opened for a run that had begun, and its frames are of that run
\* or of a later one.
Opened ==
    \A s \in Sources :
        /\ es[s].state # "unused" => Since(es[s].job, es[s].rev)
        /\ \A i \in 1..Len(wire[s]) :
              /\ wire[s][i].job = es[s].job
              /\ wire[s][i].rev >= es[s].rev
              /\ wire[s][i].status \in Terminal => wire[s][i].rev > es[s].rev

\* Some timer is armed while the server's end is open.
Attended ==
    \A s \in Sources :
        /\ conn[s].retry \/ conn[s].poll <=> conn[s].open
        /\ es[s].state = "unused" => ~conn[s].open /\ wire[s] = <<>>

\* The fence is set for the source the page follows, if any.
Fenced ==
    /\ page.fence.src # 0 =>
          es[page.fence.src].state # "unused" /\ page.fence.job = es[page.fence.src].job
    /\ page.es # 0 =>
          page.es = page.fence.src /\ es[page.es].state \in {"watching", "refused"}

\* The POST under way decides the phase: a start or a retry has left the outcome
\* before it, a cancel is overtaken by the outcome.
UnderWay(n) == req[n].state \in {"sent", "answered"}

Asking ==
    page.current # 0 =>
        /\ req[page.current].state # "unsent"
        /\ UnderWay(page.current) =>
              /\ req[page.current].kind # "none"
              /\ req[page.current].kind = "cancel" => page.phase = "running"
              /\ req[page.current].kind # "cancel" =>
                    page.phase = "starting" /\ page.fence.src = 0

Inv ==
    /\ Types /\ Bounded /\ Told /\ Opened /\ Attended /\ Fenced /\ Asking
    /\ OutcomeIsOfThisRun /\ MessageIsOfOutcome

-----------------------------------------------------------------------------
(* The rows *)

LEMMA Bounds ==
    /\ MaxJobs \in Nat /\ MaxProgress \in Nat /\ MaxRevision \in Nat /\ MaxRequests \in Nat
    /\ MaxTroubles \in Nat /\ ReadRetries \in Nat /\ MaxProgress <= MaxRevision
    BY StreamAssumption

LEMMA Initial == Init => Inv
<1> USE Bounds DEF Jobs, Requests, Sources
<1> SUFFICES ASSUME Init PROVE Inv
    OBVIOUS
<1>1. Types
    BY DEF Init, Types, RowTypes, Statuses, RequestTypes, Kinds, NoRequest, PageTypes, Mounted,
           NoFence, SourceTypes, ConnTypes, NoConn, Terminal
<1>2. Bounded
    BY DEF Init, Bounded
<1>3. Told /\ Opened /\ Attended
    BY DEF Init, Told, Opened, Attended, NoRequest, NoConn
<1>4. Fenced /\ Asking /\ OutcomeIsOfThisRun /\ MessageIsOfOutcome
    BY DEF Init, Fenced, Asking, Mounted, NoFence, OutcomeIsOfThisRun, MessageIsOfOutcome
<1> QED BY <1>1, <1>2, <1>3, <1>4 DEF Inv

\* A commit grows the row's revision, so whatever it was since, it still is.
LEMMA Committed ==
    ASSUME Inv, NEW j \in Jobs, NEW status \in Statuses \ {"none"}, NEW pending \in BOOLEAN,
           row[j].status # "none", Commit(j, status, pending)
    PROVE  /\ row' \in [Jobs -> RowTypes]
           /\ row'[j] = [status |-> status, rev |-> row[j].rev + 1, pending |-> pending]
           /\ \A k \in Jobs : k # j => row'[k] = row[k]
           /\ \A k, r \in Nat : Since(k, r) => Since(k, r)'
<1> USE Bounds DEF Inv, Types
<1>1. /\ row' \in [Jobs -> RowTypes]
      /\ row'[j] = [status |-> status, rev |-> row[j].rev + 1, pending |-> pending]
      /\ \A k \in Jobs : k # j => row'[k] = row[k]
    BY DEF Commit, RowTypes
<1>2. ASSUME NEW k \in Nat, NEW r \in Nat, Since(k, r) PROVE Since(k, r)'
    <2>1. CASE k = j
        BY <1>1, <1>2, <2>1 DEF Since, Statuses, RowTypes
    <2>2. CASE k # j
        BY <1>1, <1>2, <2>2 DEF Since
    <2> QED BY <2>1, <2>2
<1> QED BY <1>1, <1>2

LEMMA CommittedBounds ==
    ASSUME Inv, NEW j \in Jobs, NEW status \in Statuses \ {"none"}, NEW pending \in BOOLEAN,
           row[j].status # "none", Commit(j, status, pending),
           row[j].rev <= MaxRevision + 1,
           status = "live" => row[j].rev < MaxRevision,
           pending => status \in Terminal /\ row[j].rev <= MaxRevision
    PROVE  Bounded'
<1> SUFFICES ASSUME NEW k \in Jobs
             PROVE  /\ row'[k].rev <= MaxRevision + 2
                    /\ row'[k].status = "none" => row'[k].rev = 0
                    /\ row'[k].status = "live" => row'[k].rev <= MaxRevision
                    /\ row'[k].pending => row'[k].status \in Terminal /\ row'[k].rev <= MaxRevision + 1
    BY DEF Bounded
<1>1. CASE k = j
    <2>1. row[j].rev \in Nat
        BY DEF Inv, Types, RowTypes
    <2>2. row'[j] = [status |-> status, rev |-> row[j].rev + 1, pending |-> pending]
        BY Committed
    <2>3. /\ row'[j].rev = row[j].rev + 1 /\ row'[j].status = status
          /\ row'[j].pending = pending
        BY <2>2
    <2> QED BY <1>1, <2>1, <2>3, Bounds
<1>2. CASE k # j
    BY <1>2, Committed DEF Inv, Bounded
<1> QED BY <1>1, <1>2

\* What holds of the page and its streams survives a change of the rows.
LEMMA RowsMove ==
    ASSUME Inv, row' \in [Jobs -> RowTypes], Bounded', troubles' \in Nat,
           \A k, r \in Nat : Since(k, r) => Since(k, r)',
           UNCHANGED <<req, page, es, conn, wire>>
    PROVE  Inv'
<1> USE Bounds DEF Inv, Jobs, Requests, Sources
<1>1. Types'
    BY DEF Types
<1>2. Told'
    <2> SUFFICES ASSUME NEW n \in Requests,
                        req[n].state = "answered", req[n].ok, req[n].kind # "cancel"
                 PROVE  Since(req[n].job, req[n].rev)'
        BY DEF Told
    <2>1. req[n].job \in Nat /\ req[n].rev \in Nat
        BY DEF Types, RequestTypes
    <2> QED BY <2>1 DEF Told
<1>3. Opened'
    <2> SUFFICES ASSUME NEW s \in Sources, es[s].state # "unused"
                 PROVE  Since(es[s].job, es[s].rev)'
        BY DEF Opened
    <2>1. es[s].job \in Nat /\ es[s].rev \in Nat
        BY DEF Types, SourceTypes
    <2> QED BY <2>1 DEF Opened
<1>4. Attended' /\ Fenced' /\ Asking' /\ OutcomeIsOfThisRun' /\ MessageIsOfOutcome'
    BY DEF Attended, Fenced, Asking, UnderWay, OutcomeIsOfThisRun, MessageIsOfOutcome
<1> QED BY <1>1, <1>2, <1>3, <1>4

LEMMA RowSteps ==
    ASSUME Inv, NEW j \in Jobs, Rows(j)
    PROVE  Inv'
<1> USE Bounds
<1>0. /\ row[j] \in RowTypes /\ troubles \in Nat
      /\ row[j].status = "live" => row[j].rev <= MaxRevision
      /\ row[j].pending => row[j].status \in Terminal /\ row[j].rev <= MaxRevision + 1
    BY DEF Inv, Types, Bounded
<1>1. CASE Progress(j)
    <2>1. Commit(j, "live", FALSE) /\ row[j].status = "live" /\ row[j].rev < MaxProgress
        BY <1>1 DEF Progress, Live
    <2>2. /\ "live" \in Statuses \ {"none"} /\ row[j].rev \in Nat
          /\ row[j].rev < MaxRevision /\ row[j].rev <= MaxRevision + 1
        BY <1>0, <2>1 DEF Statuses, RowTypes
    <2>3. Bounded'
        BY <2>1, <2>2, CommittedBounds
    <2> QED BY <1>0, <1>1, <2>1, <2>2, <2>3, Committed, RowsMove DEF Progress, Page, Stream
<1>2. CASE End(j)
    <2>1. PICK status \in Terminal, pending \in BOOLEAN : Commit(j, status, pending)
        BY <1>2 DEF End, Ends
    <2>2. /\ row[j].status = "live" /\ row[j].rev \in Nat
          /\ status \in Statuses \ {"none"} /\ status # "live"
        BY <1>0, <1>2 DEF End, Live, Statuses, Terminal, RowTypes
    <2>3. Bounded'
        BY <1>0, <2>1, <2>2, CommittedBounds
    <2> QED BY <1>0, <1>2, <2>1, <2>2, <2>3, Committed, RowsMove DEF End, Page, Stream
<1>3. CASE Settle(j)
    <2>1. Commit(j, row[j].status, FALSE) /\ row[j].pending
        BY <1>3 DEF Settle
    <2>2. row[j].status \in Statuses \ {"none"} /\ row[j].status # "live" /\ row[j].rev \in Nat
        BY <1>0, <2>1 DEF Statuses, Terminal, RowTypes
    <2>3. Bounded'
        BY <1>0, <2>1, <2>2, CommittedBounds
    <2> QED BY <1>0, <1>3, <2>1, <2>2, <2>3, Committed, RowsMove DEF Settle, Page, Stream
<1>4. CASE RetryElsewhere(j)
    <2>1. /\ Commit(j, "live", FALSE) /\ row[j].status # "none" /\ row[j].rev < MaxRevision
          /\ troubles' = troubles + 1
        BY <1>4 DEF RetryElsewhere, Retriable, Troubled
    <2>2. /\ "live" \in Statuses \ {"none"} /\ row[j].rev \in Nat
          /\ row[j].rev < MaxRevision /\ row[j].rev <= MaxRevision + 1
        BY <1>0, <2>1 DEF Statuses, RowTypes
    <2>3. Bounded'
        BY <2>1, <2>2, CommittedBounds
    <2>4. troubles' \in Nat
        BY <1>0, <2>1
    <2>5. UNCHANGED <<req, page, es, conn, wire>>
        BY <1>4 DEF RetryElsewhere, Page, Stream
    <2>6. row' \in [Jobs -> RowTypes] /\ \A k, r \in Nat : Since(k, r) => Since(k, r)'
        BY <2>1, <2>2, Committed
    <2> QED BY <2>3, <2>4, <2>5, <2>6, RowsMove
<1> QED BY <1>1, <1>2, <1>3, <1>4 DEF Rows

-----------------------------------------------------------------------------
(* The routes *)

\* An answer that tells a start or a retry of a run that had begun.
LEMMA AnswerKept ==
    ASSUME Inv, NEW n \in Requests, NEW job \in 0..MaxJobs, NEW ok \in BOOLEAN, NEW rev \in Nat,
           req[n].state = "sent", Answered(n, job, ok, rev),
           ok /\ req[n].kind # "cancel" => Since(job, rev)',
           row' \in [Jobs -> RowTypes], Bounded',
           \A k, r \in Nat : Since(k, r) => Since(k, r)',
           UNCHANGED <<page, es, conn, wire, troubles>>
    PROVE  Inv'
<1> USE DEF Inv
<1>1. /\ req' \in [Requests -> RequestTypes]
      /\ req'[n].state = "answered" /\ req'[n].job = job /\ req'[n].ok = ok /\ req'[n].rev = rev
      /\ req'[n].kind = req[n].kind
      /\ \A m \in Requests : m # n => req'[m] = req[m]
    <2>1. /\ req \in [Requests -> RequestTypes] /\ req[n] \in RequestTypes
          /\ req' = [req EXCEPT ![n] = [req[n] EXCEPT !.state = "answered", !.job = job,
                                                     !.ok = ok, !.rev = rev]]
        BY DEF Types, Answered
    <2>2. [req[n] EXCEPT !.state = "answered", !.job = job, !.ok = ok, !.rev = rev] \in RequestTypes
        BY <2>1 DEF RequestTypes
    <2>3. req' \in [Requests -> RequestTypes]
        BY <2>1, <2>2
    <2>4. req'[n] = [req[n] EXCEPT !.state = "answered", !.job = job, !.ok = ok, !.rev = rev]
        BY <2>1
    <2>5. \A m \in Requests : m # n => req'[m] = req[m]
        BY <2>1
    <2> QED BY <2>1, <2>3, <2>4, <2>5 DEF RequestTypes
<1>2. Types'
    <2>1. req' \in [Requests -> RequestTypes]
        BY <1>1
    <2> QED BY <2>1 DEF Types
<1>3. Told'
    <2> SUFFICES ASSUME NEW m \in Requests
                 PROVE  (/\ req[m].state = "sent" /\ req[m].kind # "start" => req[m].job # 0
                         /\ req[m].state = "answered" /\ req[m].ok /\ req[m].kind # "cancel" =>
                               Since(req[m].job, req[m].rev)
                         /\ req[m].state # "over" => es[m].state = "unused")'
        BY DEF Told
    <2>1. CASE m = n
        BY <1>1, <2>1 DEF Told, Since
    <2>2. CASE m # n
        <3>1. req[m].job \in Nat /\ req[m].rev \in Nat /\ req'[m] = req[m]
            BY <1>1, <2>2, Bounds DEF Types, RequestTypes
        <3>2. Since(req[m].job, req[m].rev) => Since(req[m].job, req[m].rev)'
            BY <3>1 DEF Since
        <3> QED BY <3>1, <3>2 DEF Told
    <2> QED BY <2>1, <2>2
<1>4. Opened'
    <2> SUFFICES ASSUME NEW s \in Sources, es[s].state # "unused"
                 PROVE  Since(es[s].job, es[s].rev)'
        BY DEF Opened
    <2>1. es[s].job \in Nat /\ es[s].rev \in Nat
        BY DEF Types, SourceTypes
    <2> QED BY <2>1 DEF Opened
<1>5. Attended' /\ Fenced' /\ OutcomeIsOfThisRun' /\ MessageIsOfOutcome'
    BY DEF Attended, Fenced, OutcomeIsOfThisRun, MessageIsOfOutcome
<1>6. Asking'
    <2> SUFFICES ASSUME page.current # 0
                 PROVE  /\ req'[page.current].state # "unsent"
                        /\ req'[page.current].kind = req[page.current].kind
                        /\ UnderWay(page.current)' => UnderWay(page.current)
        BY DEF Asking
    <2>1. page.current \in Requests
        BY Bounds DEF Types, PageTypes, Requests
    <2> QED BY <1>1, <2>1 DEF Asking, UnderWay
<1> QED BY <1>2, <1>3, <1>4, <1>5, <1>6

LEMMA StartServed ==
    ASSUME Inv, NEW n \in Requests, req[n].state = "sent", ServeStart(n),
           UNCHANGED <<page, es, conn, wire, troubles>>
    PROVE  Inv'
<1> USE Bounds
<1>0. row \in [Jobs -> RowTypes] /\ Bounded
    BY DEF Inv, Types
<1>1. CASE \E j \in Jobs : Live(j) /\ Answered(n, j, TRUE, row[j].rev) /\ UNCHANGED row
    <2>1. PICK j \in Jobs : Live(j) /\ Answered(n, j, TRUE, row[j].rev) /\ UNCHANGED row
        BY <1>1
    <2>2. j \in 0..MaxJobs /\ row[j].rev \in Nat /\ row[j].status = "live"
        BY <1>0, <2>1 DEF Jobs, RowTypes, Live
    <2>3. Since(j, row[j].rev)'
        BY <2>1, <2>2 DEF Since, Terminal
    <2>4. Bounded' /\ \A k, r \in Nat : Since(k, r) => Since(k, r)'
        BY <1>0, <2>1 DEF Bounded, Since
    <2> QED BY <1>0, <2>1, <2>2, <2>3, <2>4, AnswerKept
<1>2. CASE \E j \in Jobs : /\ row[j].status = "none"
                           /\ row' = [row EXCEPT ![j].status = "live"]
                           /\ Answered(n, j, TRUE, 0)
    <2>1. PICK j \in Jobs : /\ row[j].status = "none"
                            /\ row' = [row EXCEPT ![j].status = "live"]
                            /\ Answered(n, j, TRUE, 0)
        BY <1>2
    <2>2. /\ row[j].rev = 0 /\ ~row[j].pending /\ j \in 0..MaxJobs
        BY <1>0, <2>1 DEF Bounded, Jobs, Terminal
    <2>3. [row[j] EXCEPT !.status = "live"] \in RowTypes
        BY <1>0 DEF RowTypes, Statuses
    <2>4. /\ row' \in [Jobs -> RowTypes]
          /\ row'[j] = [row[j] EXCEPT !.status = "live"]
          /\ \A k \in Jobs : k # j => row'[k] = row[k]
        BY <1>0, <2>1, <2>3
    <2>5. row'[j].status = "live" /\ row'[j].rev = 0 /\ row'[j].pending = row[j].pending
        BY <1>0, <2>2, <2>4 DEF RowTypes
    <2>6. Bounded'
        <3>1. row'[j].rev = 0 /\ row'[j].status = "live" /\ ~row'[j].pending
            BY <2>2, <2>5
        <3>2. SUFFICES ASSUME NEW k \in Jobs
                       PROVE  /\ row'[k].rev <= MaxRevision + 2
                              /\ row'[k].status = "none" => row'[k].rev = 0
                              /\ row'[k].status = "live" => row'[k].rev <= MaxRevision
                              /\ row'[k].pending => row'[k].status \in Terminal
                                                      /\ row'[k].rev <= MaxRevision + 1
            BY DEF Bounded
        <3>3. CASE k = j
            BY <3>1, <3>3
        <3>4. CASE k # j
            BY <1>0, <2>4, <3>4 DEF Bounded
        <3> QED BY <3>3, <3>4
    <2>7. \A k, r \in Nat : Since(k, r) => Since(k, r)'
        BY <2>1, <2>4 DEF Since
    <2>8. Since(j, 0)'
        BY <2>5 DEF Since, Terminal
    <2>9. Answered(n, j, TRUE, 0) /\ 0 \in Nat /\ j \in 0..MaxJobs /\ row' \in [Jobs -> RowTypes]
        BY <2>1, <2>2, <2>4
    <2> QED BY <2>6, <2>7, <2>8, <2>9, AnswerKept
<1>3. CASE Refused(n)
    <2>1. req[n].job \in 0..MaxJobs /\ UNCHANGED row /\ Answered(n, req[n].job, FALSE, 0)
        BY <1>3 DEF Inv, Types, RequestTypes, Refused
    <2>2. Bounded' /\ \A k, r \in Nat : Since(k, r) => Since(k, r)'
        BY <1>0, <2>1 DEF Bounded, Since
    <2> QED BY <1>0, <2>1, <2>2, AnswerKept
<1> QED BY <1>1, <1>2, <1>3 DEF ServeStart

LEMMA JobServed ==
    ASSUME Inv, NEW n \in Requests, req[n].state = "sent", req[n].kind # "start",
           ServeRetry(n) \/ (req[n].kind = "cancel" /\ ServeCancel(n)),
           UNCHANGED <<page, es, conn, wire, troubles>>
    PROVE  Inv'
<1> USE Bounds
<1>9. req[n].job \in Jobs
    BY DEF Inv, Types, RequestTypes, Told, Jobs
<1> PICK j \in Jobs : j = req[n].job
    BY <1>9
<1>0. /\ row \in [Jobs -> RowTypes] /\ Bounded /\ j = req[n].job
      /\ j \in 0..MaxJobs /\ row[j].rev \in Nat
    BY DEF Inv, Types, RowTypes, Jobs
<1>1. CASE Retriable(j) /\ Commit(j, "live", FALSE) /\ Answered(n, j, TRUE, row[j].rev + 1)
    <2>1. row[j].status # "none" /\ row[j].rev < MaxRevision /\ row[j].rev <= MaxRevision + 1
        BY <1>0, <1>1 DEF Retriable
    <2>2. "live" \in Statuses \ {"none"}
        BY DEF Statuses
    <2>3. Bounded'
        BY <1>0, <1>1, <2>1, <2>2, CommittedBounds
    <2>4. /\ row' \in [Jobs -> RowTypes] /\ \A k, r \in Nat : Since(k, r) => Since(k, r)'
          /\ row'[j] = [status |-> "live", rev |-> row[j].rev + 1, pending |-> FALSE]
        BY <1>0, <1>1, <2>1, <2>2, Committed
    <2>5. PICK r \in Nat : r = row[j].rev + 1
        BY <1>0
    <2>6. Since(j, r)' /\ row' \in [Jobs -> RowTypes]
        BY <1>0, <2>4, <2>5 DEF Since, Terminal
    <2>7. Answered(n, j, TRUE, r) /\ \A k, q \in Nat : Since(k, q) => Since(k, q)'
        BY <1>1, <2>4, <2>5
    <2> QED BY <1>0, <2>3, <2>6, <2>7, AnswerKept
<1>2. CASE /\ Live(j) /\ Answered(n, j, TRUE, row[j].rev + 1) /\ req[n].kind = "cancel"
           /\ \E pending \in BOOLEAN : Commit(j, "error", pending)
    <2>1. PICK pending \in BOOLEAN : Commit(j, "error", pending)
        BY <1>2
    <2>2. /\ "error" \in Statuses \ {"none"} /\ "error" \in Terminal
          /\ row[j].status = "live" /\ row[j].rev <= MaxRevision /\ row[j].rev <= MaxRevision + 1
        BY <1>0, <1>2 DEF Statuses, Terminal, Live, Bounded
    <2>3. Bounded'
        BY <1>0, <2>1, <2>2, CommittedBounds
    <2>4. row' \in [Jobs -> RowTypes] /\ \A k, r \in Nat : Since(k, r) => Since(k, r)'
        BY <1>0, <2>1, <2>2, Committed
    <2>5. row[j].rev + 1 \in Nat
        BY <1>0
    <2> QED BY <1>0, <1>2, <2>3, <2>4, <2>5, AnswerKept
<1>3. CASE Refused(n)
    <2>1. UNCHANGED row /\ Answered(n, j, FALSE, 0)
        BY <1>0, <1>3 DEF Refused
    <2>2. Bounded' /\ \A k, r \in Nat : Since(k, r) => Since(k, r)'
        BY <1>0, <2>1 DEF Bounded, Since
    <2> QED BY <1>0, <2>1, <2>2, AnswerKept
<1> QED BY <1>0, <1>1, <1>2, <1>3 DEF ServeRetry, ServeCancel

-----------------------------------------------------------------------------
(* The streams *)

\* A connection that ends or has a timer, and frames that are of the run.
LEMMA StreamMoves ==
    ASSUME Inv, NEW s \in Sources, NEW c \in ConnTypes, NEW w \in Seq(Frames),
           conn' = [conn EXCEPT ![s] = c], wire' = [wire EXCEPT ![s] = w],
           c.retry \/ c.poll <=> c.open,
           es[s].state = "unused" => ~c.open /\ w = <<>>,
           \A i \in 1..Len(w) :
              /\ w[i].job = es[s].job
              /\ w[i].rev >= es[s].rev
              /\ w[i].status \in Terminal => w[i].rev > es[s].rev,
           troubles' \in Nat, UNCHANGED <<row, req, page, es>>
    PROVE  Inv'
<1> USE DEF Inv
<1>1. Types'
    BY DEF Types
<1>2. conn'[s] = c /\ wire'[s] = w
    BY DEF Types
<1>3. \A x \in Sources : x # s => conn'[x] = conn[x] /\ wire'[x] = wire[x]
    BY DEF Types
<1>4. Bounded' /\ Told' /\ Fenced' /\ Asking' /\ OutcomeIsOfThisRun' /\ MessageIsOfOutcome'
    BY DEF Bounded, Told, Since, Fenced, Asking, UnderWay, OutcomeIsOfThisRun, MessageIsOfOutcome
<1>5. Opened'
    <2> SUFFICES ASSUME NEW x \in Sources
                 PROVE  (/\ es[x].state # "unused" => Since(es[x].job, es[x].rev)
                         /\ \A i \in 1..Len(wire[x]) :
                               /\ wire[x][i].job = es[x].job
                               /\ wire[x][i].rev >= es[x].rev
                               /\ wire[x][i].status \in Terminal => wire[x][i].rev > es[x].rev)'
        BY DEF Opened
    <2>1. CASE x = s
        BY <1>2, <2>1 DEF Opened, Since
    <2>2. CASE x # s
        BY <1>3, <2>2 DEF Opened, Since
    <2> QED BY <2>1, <2>2
<1>6. Attended'
    BY <1>2, <1>3 DEF Attended
<1> QED BY <1>1, <1>4, <1>5, <1>6

LEMMA ConnRead ==
    ASSUME NEW c \in ConnTypes, NEW last \in Int
    PROVE  /\ [c EXCEPT !.tries = 0, !.last = last] \in ConnTypes
           /\ [c EXCEPT !.tries = 0, !.last = last].open = c.open
<1>1. [c EXCEPT !.tries = 0, !.last = last] \in ConnTypes
    <2>1. 0 \in 0..ReadRetries
        BY Bounds
    <2>2. [c EXCEPT !.tries = 0] \in ConnTypes
        BY <2>1 DEF ConnTypes
    <2> QED BY <2>2 DEF ConnTypes
<1>2. [c EXCEPT !.tries = 0, !.last = last].open = c.open
    BY DEF ConnTypes
<1> QED BY <1>1, <1>2

LEMMA ConnRetries ==
    ASSUME NEW c \in ConnTypes, NEW tries \in 0..ReadRetries
    PROVE  /\ [c EXCEPT !.retry = TRUE, !.tries = tries] \in ConnTypes
           /\ [c EXCEPT !.retry = TRUE, !.tries = tries].open = c.open
           /\ [c EXCEPT !.retry = TRUE, !.tries = tries].retry
<1>1. [c EXCEPT !.retry = TRUE, !.tries = tries] \in ConnTypes
    BY DEF ConnTypes
<1>2. [c EXCEPT !.retry = TRUE, !.tries = tries].open = c.open
    BY DEF ConnTypes
<1>3. [c EXCEPT !.retry = TRUE, !.tries = tries].retry
    BY DEF ConnTypes
<1> QED BY <1>1, <1>2, <1>3

LEMMA ConnPolls ==
    ASSUME NEW c \in ConnTypes
    PROVE  /\ [c EXCEPT !.poll = TRUE] \in ConnTypes
           /\ [c EXCEPT !.poll = TRUE].open = c.open
           /\ [c EXCEPT !.poll = TRUE].poll
<1>1. [c EXCEPT !.poll = TRUE] \in ConnTypes
    BY DEF ConnTypes
<1>2. [c EXCEPT !.poll = TRUE].open = c.open
    BY DEF ConnTypes
<1>3. [c EXCEPT !.poll = TRUE].poll
    BY DEF ConnTypes
<1> QED BY <1>1, <1>2, <1>3

LEMMA ConnOpens ==
    ASSUME NEW c \in ConnTypes
    PROVE  [c EXCEPT !.open = TRUE] \in ConnTypes /\ [c EXCEPT !.open = TRUE].open
<1>1. [c EXCEPT !.open = TRUE] \in ConnTypes
    BY DEF ConnTypes
<1>2. [c EXCEPT !.open = TRUE].open
    BY DEF ConnTypes
<1> QED BY <1>1, <1>2

LEMMA Refreshed ==
    ASSUME Inv, NEW s \in Sources, NEW c \in ConnTypes, c.open, es[s].state # "unused",
           Refresh(s, c), UNCHANGED es
    PROVE  Inv'
<1> USE Bounds
<1>0. /\ wire[s] \in Seq(Frames) /\ troubles \in Nat
      /\ conn' = [conn EXCEPT ![s] = conn'[s]] /\ wire' = [wire EXCEPT ![s] = wire'[s]]
      /\ UNCHANGED <<row, req, page>>
    <2>1. conn \in [Sources -> ConnTypes] /\ wire \in [Sources -> Seq(Frames)]
        BY DEF Inv, Types
    <2> QED BY <2>1 DEF Inv, Types, Refresh, Reads, ReadFails
<1>1. \A i \in 1..Len(wire[s]) :
          /\ wire[s][i].job = es[s].job
          /\ wire[s][i].rev >= es[s].rev
          /\ wire[s][i].status \in Terminal => wire[s][i].rev > es[s].rev
    BY DEF Inv, Opened
<1>2. NoConn \in ConnTypes /\ ~NoConn.open /\ ~NoConn.retry /\ ~NoConn.poll
    BY DEF NoConn, ConnTypes
<1>3. CASE Reads(s, c)
    <2> DEFINE snap == Snapshot(es[s].job)
               sent == [c EXCEPT !.tries = 0, !.last = IF snap.rev > c.last THEN snap.rev ELSE @]
    <2>1. /\ snap \in Frames /\ snap.job = es[s].job /\ snap.rev >= es[s].rev
          /\ snap.status \in Terminal => snap.rev > es[s].rev
        BY DEF Inv, Types, RowTypes, Statuses, Opened, Since, Snapshot, Frames
    <2>2. sent \in ConnTypes /\ sent.open
        <3>1. PICK last \in Int : last = IF snap.rev > c.last THEN snap.rev ELSE c.last
            BY <2>1 DEF ConnTypes, Frames
        <3>2. sent = [c EXCEPT !.tries = 0, !.last = last]
            BY <3>1
        <3> HIDE DEF snap, sent
        <3> QED BY <3>2, ConnRead
    <2>3. Armed(sent) \in ConnTypes /\ Armed(sent).open /\ (Armed(sent).retry \/ Armed(sent).poll)
        <3> HIDE DEF sent
        <3>1. [sent EXCEPT !.poll = TRUE] \in ConnTypes /\ [sent EXCEPT !.poll = TRUE].open
            BY <2>2, ConnPolls
        <3>2. [sent EXCEPT !.poll = TRUE].poll
            BY <2>2, ConnPolls
        <3>3. CASE sent.retry
            BY <2>2, <3>3 DEF Armed
        <3>4. CASE ~sent.retry
            BY <3>1, <3>2, <3>4 DEF Armed
        <3> QED BY <3>3, <3>4
    <2>4. conn'[s] \in ConnTypes /\ (conn'[s].retry \/ conn'[s].poll <=> conn'[s].open)
        <3>1. conn'[s] \in {NoConn, Armed(sent)}
            BY <1>3 DEF Reads, Inv, Types
        <3> QED BY <1>2, <2>3, <3>1
    <2>5. wire'[s] \in {wire[s], Append(wire[s], snap)}
        BY <1>3 DEF Reads, Inv, Types
    <2>6. /\ wire'[s] \in Seq(Frames)
          /\ \A i \in 1..Len(wire'[s]) :
                /\ wire'[s][i].job = es[s].job
                /\ wire'[s][i].rev >= es[s].rev
                /\ wire'[s][i].status \in Terminal => wire'[s][i].rev > es[s].rev
        <3>1. CASE wire'[s] = wire[s]
            BY <1>0, <1>1, <3>1
        <3>2. CASE wire'[s] = Append(wire[s], snap)
            <4> HIDE DEF snap
            <4>1. /\ Append(wire[s], snap) \in Seq(Frames)
                  /\ Len(Append(wire[s], snap)) = Len(wire[s]) + 1
                  /\ \A i \in 1..Len(wire[s]) : Append(wire[s], snap)[i] = wire[s][i]
                  /\ Append(wire[s], snap)[Len(wire[s]) + 1] = snap
                  /\ Len(wire[s]) \in Nat
                BY <1>0, <2>1
            <4> QED BY <1>1, <2>1, <3>2, <4>1
        <3> QED BY <2>5, <3>1, <3>2
    <2>7. troubles' \in Nat
        BY <1>0, <1>3 DEF Reads
    <2> HIDE DEF snap, sent
    <2> QED BY <1>0, <2>4, <2>6, <2>7, StreamMoves
<1>4. CASE ReadFails(s, c)
    <2>1. /\ conn'[s] = IF c.retry THEN c ELSE IF c.tries = ReadRetries THEN NoConn
                        ELSE [c EXCEPT !.retry = TRUE, !.tries = c.tries + 1]
          /\ wire'[s] = wire[s] /\ troubles' \in Nat
        BY <1>0, <1>4 DEF ReadFails, Troubled, Inv, Types
    <2>2. CASE c.retry
        BY <1>0, <1>1, <2>1, <2>2, StreamMoves
    <2>3. CASE ~c.retry /\ c.tries = ReadRetries
        BY <1>0, <1>1, <1>2, <2>1, <2>3, StreamMoves
    <2>4. CASE ~c.retry /\ c.tries # ReadRetries
        <3>1. c.tries + 1 \in 0..ReadRetries
            BY <2>4 DEF ConnTypes
        <3>2. conn'[s] = [c EXCEPT !.retry = TRUE, !.tries = c.tries + 1]
            BY <2>1, <2>4
        <3>3. conn'[s] \in ConnTypes /\ conn'[s].retry /\ conn'[s].open
            BY <3>1, <3>2, ConnRetries
        <3>4. wire'[s] \in Seq(Frames) /\ wire'[s] = wire[s] /\ troubles' \in Nat
            BY <1>0, <2>1
        <3>5. conn'[s].retry \/ conn'[s].poll <=> conn'[s].open
            BY <3>3
        <3>6. \A i \in 1..Len(wire'[s]) :
                  /\ wire'[s][i].job = es[s].job
                  /\ wire'[s][i].rev >= es[s].rev
                  /\ wire'[s][i].status \in Terminal => wire'[s][i].rev > es[s].rev
            BY <1>1, <3>4
        <3> QED BY <1>0, <3>3, <3>4, <3>5, <3>6, StreamMoves
    <2> QED BY <2>2, <2>3, <2>4
<1> QED BY <1>3, <1>4 DEF Refresh

LEMMA StreamSteps ==
    ASSUME Inv, NEW s \in Sources, Streams(s), ~Message(s)
    PROVE  Inv'
<1> USE Bounds
<1>0. /\ conn \in [Sources -> ConnTypes] /\ conn[s] \in ConnTypes /\ wire[s] \in Seq(Frames)
      /\ conn[s].retry \/ conn[s].poll <=> conn[s].open
      /\ es[s].state = "unused" => ~conn[s].open /\ wire[s] = <<>>
      /\ troubles \in Nat
    BY DEF Inv, Types, Attended
<1>1. CASE Poll(s)
    <2>1. /\ [conn[s] EXCEPT !.poll = FALSE] \in ConnTypes
          /\ [conn[s] EXCEPT !.poll = FALSE].open = conn[s].open
        BY <1>0 DEF ConnTypes
    <2> QED BY <1>0, <1>1, <2>1, Refreshed DEF Poll
<1>2. CASE RetryRead(s)
    <2>1. /\ [conn[s] EXCEPT !.retry = FALSE] \in ConnTypes
          /\ [conn[s] EXCEPT !.retry = FALSE].open = conn[s].open
        BY <1>0 DEF ConnTypes
    <2> QED BY <1>0, <1>2, <2>1, Refreshed DEF RetryRead
<1>3. CASE Hint(s)
    BY <1>0, <1>3, Refreshed DEF Hint
<1>4. CASE Connect(s)
    <2>1. [NoConn EXCEPT !.open = TRUE] \in ConnTypes /\ [NoConn EXCEPT !.open = TRUE].open
        <3>1. NoConn \in ConnTypes
            BY DEF NoConn, ConnTypes
        <3> QED BY <3>1, ConnOpens
    <2>2. /\ es[s].state # "unused" /\ UNCHANGED es
          /\ Refresh(s, [NoConn EXCEPT !.open = TRUE])
        BY <1>4 DEF Connect
    <2>3. PICK c \in ConnTypes : c = [NoConn EXCEPT !.open = TRUE]
        BY <2>1
    <2>4. c.open /\ Refresh(s, c)
        BY <2>1, <2>2, <2>3
    <2> QED BY <2>2, <2>4, Refreshed
<1>5. NoConn \in ConnTypes /\ ~NoConn.open /\ ~NoConn.retry /\ ~NoConn.poll
    BY DEF NoConn, ConnTypes
<1>6. wire = [wire EXCEPT ![s] = wire[s]]
    BY DEF Inv, Types
<1>7. \A i \in 1..Len(wire[s]) :
          /\ wire[s][i].job = es[s].job
          /\ wire[s][i].rev >= es[s].rev
          /\ wire[s][i].status \in Terminal => wire[s][i].rev > es[s].rev
    BY DEF Inv, Opened
<1>8. CASE Refuse(s)
    <2>1. /\ es' = [es EXCEPT ![s].state = "refused"] /\ es[s].state = "watching"
          /\ troubles' \in Nat /\ UNCHANGED <<row, req, page, conn, wire>>
        BY <1>0, <1>8 DEF Refuse, Troubled
    <2>2. es \in [Sources -> SourceTypes] /\ [es[s] EXCEPT !.state = "refused"] \in SourceTypes
        BY DEF Inv, Types, SourceTypes
    <2>3. /\ es' \in [Sources -> SourceTypes]
          /\ es'[s].state = "refused" /\ es'[s].job = es[s].job /\ es'[s].rev = es[s].rev
          /\ \A x \in Sources : x # s => es'[x] = es[x]
        BY <2>1, <2>2 DEF SourceTypes
    <2>4. Types' /\ Bounded'
        BY <2>1, <2>3 DEF Inv, Types, Bounded
    <2>5. \A x \in Sources : es'[x].job = es[x].job /\ es'[x].rev = es[x].rev
                             /\ (es'[x].state = "unused" <=> es[x].state = "unused")
        BY <2>1, <2>3
    <2>6. Told'
        <3>1. req[s].state = "over"
            BY <2>1 DEF Inv, Told, Sources
        <3> QED BY <2>1, <2>5, <3>1 DEF Inv, Told, Since, Sources
    <2>7. Opened' /\ Attended'
        BY <2>1, <2>5 DEF Inv, Opened, Attended, Since
    <2>8. page.fence.src # 0 => page.fence.src \in Sources
        BY DEF Inv, Types, PageTypes, Sources, Requests
    <2>9. Fenced'
        BY <2>1, <2>3, <2>5, <2>8 DEF Inv, Fenced
    <2>10. Asking' /\ MessageIsOfOutcome' /\ OutcomeIsOfThisRun'
        BY <2>1, <2>5, <2>8 DEF Inv, Asking, UnderWay, MessageIsOfOutcome, OutcomeIsOfThisRun
    <2> QED BY <2>4, <2>6, <2>7, <2>9, <2>10 DEF Inv
<1>9. CASE Cut(s)
    <2>1. <<>> \in Seq(Frames) /\ \A i \in 1..Len(<<>>) : FALSE
        OBVIOUS
    <2>2. /\ conn' = [conn EXCEPT ![s] = NoConn] /\ wire' = [wire EXCEPT ![s] = <<>>]
          /\ UNCHANGED <<row, req, page, es>> /\ troubles' \in Nat
        BY <1>0, <1>9 DEF Cut, Troubled
    <2> QED BY <1>5, <2>1, <2>2, StreamMoves
<1>10. CASE Abort(s)
    BY <1>0, <1>5, <1>6, <1>7, <1>10, StreamMoves DEF Abort
<1> QED BY <1>1, <1>2, <1>3, <1>4, <1>8, <1>9, <1>10 DEF Streams

-----------------------------------------------------------------------------
(* The page *)

\* A new POST of the page, with its streams closed or, to cancel, kept.
LEMMA Posted ==
    ASSUME Inv, NEW n \in Requests, NEW kind \in Kinds \ {"none"}, NEW job \in 0..MaxJobs,
           req[n].state = "unsent", Post(n, kind, job), kind # "start" => job # 0
    PROVE  /\ req' \in [Requests -> RequestTypes]
           /\ req'[n].kind = kind /\ req'[n].state = "sent" /\ req'[n].job = job
           /\ \A m \in Requests : m # n => req'[m] = req[m]
<1>1. req \in [Requests -> RequestTypes] /\ req[n] \in RequestTypes
    BY DEF Inv, Types
<1>2. [req[n] EXCEPT !.kind = kind, !.state = "sent", !.job = job] \in RequestTypes
    BY <1>1 DEF RequestTypes
<1>3. req' = [req EXCEPT ![n] = [req[n] EXCEPT !.kind = kind, !.state = "sent", !.job = job]]
    BY DEF Post
<1> QED BY <1>1, <1>2, <1>3 DEF RequestTypes

\* A start or a retry leaves the page without a stream.
LEMMA Begins ==
    ASSUME Inv, NEW n \in Requests, NEW kind \in {"start", "retry"}, NEW job \in 0..MaxJobs,
           req[n].state = "unsent", Post(n, kind, job), kind # "start" => job # 0,
           page' \in PageTypes, page'.es = 0, page'.fence = NoFence,
           page'.phase = "starting", page'.current = n, CloseSource, Server
    PROVE  Inv'
<1> USE Bounds
<1>0. kind \in Kinds \ {"none"} /\ kind # "cancel"
    BY DEF Kinds
<1>1. /\ req' \in [Requests -> RequestTypes]
      /\ req'[n].kind = kind /\ req'[n].state = "sent" /\ req'[n].job = job
      /\ \A m \in Requests : m # n => req'[m] = req[m]
    BY <1>0, Posted
<1>2. /\ es' \in [Sources -> SourceTypes]
      /\ \A s \in Sources : /\ es'[s].job = es[s].job /\ es'[s].rev = es[s].rev
                            /\ es'[s].state = "unused" <=> es[s].state = "unused"
    <2>1. es \in [Sources -> SourceTypes]
        BY DEF Inv, Types
    <2>2. \A s \in Sources : /\ es'[s] = IF s = page.es THEN [es[s] EXCEPT !.state = "closed"]
                                          ELSE es[s]
        BY DEF CloseSource
    <2>3. \A s \in Sources : [es[s] EXCEPT !.state = "closed"] \in SourceTypes
        BY <2>1 DEF SourceTypes
    <2>4. es' \in [Sources -> SourceTypes]
        BY <2>1, <2>3 DEF CloseSource
    <2>5. ASSUME NEW s \in Sources
          PROVE  /\ es'[s].job = es[s].job /\ es'[s].rev = es[s].rev
                 /\ es'[s].state = "unused" <=> es[s].state = "unused"
        <3>1. CASE s # page.es
            BY <2>2, <3>1
        <3>2. CASE s = page.es
            <4>1. es[s].state # "unused"
                BY <3>2 DEF Inv, Fenced, Sources, Requests
            <4>2. es'[s] = [es[s] EXCEPT !.state = "closed"] /\ es[s] \in SourceTypes
                BY <2>1, <2>2, <3>2
            <4> QED BY <4>1, <4>2 DEF SourceTypes
        <3> QED BY <3>1, <3>2
    <2> QED BY <2>4, <2>5
<1>3. Types' /\ Bounded'
    BY <1>1, <1>2 DEF Inv, Types, Bounded, Server
<1>4. Told'
    <2> SUFFICES ASSUME NEW m \in Requests
                 PROVE  (/\ req[m].state = "sent" /\ req[m].kind # "start" => req[m].job # 0
                         /\ req[m].state = "answered" /\ req[m].ok /\ req[m].kind # "cancel" =>
                               Since(req[m].job, req[m].rev)
                         /\ req[m].state # "over" => es[m].state = "unused")'
        BY DEF Told
    <2>1. CASE m = n
        BY <1>1, <1>2, <2>1 DEF Inv, Told, Sources
    <2>2. CASE m # n
        BY <1>1, <1>2, <2>2 DEF Inv, Told, Since, Server, Sources
    <2> QED BY <2>1, <2>2
<1>5. Opened' /\ Attended'
    BY <1>2 DEF Inv, Opened, Attended, Since, Server
<1>6. Fenced' /\ OutcomeIsOfThisRun' /\ MessageIsOfOutcome'
    BY DEF Fenced, OutcomeIsOfThisRun, MessageIsOfOutcome, NoFence
<1>7. Asking'
    BY <1>0, <1>1 DEF Asking, UnderWay, Kinds, NoFence
<1> QED BY <1>3, <1>4, <1>5, <1>6, <1>7 DEF Inv

LEMMA StreamClosed ==
    ASSUME page \in PageTypes
    PROVE  /\ ClosedStream(page) \in PageTypes
           /\ ClosedStream(page).es = 0 /\ ClosedStream(page).fence = NoFence
<1>1. NoFence \in [src : 0..MaxRequests, job : 0..MaxJobs, rev : Int] /\ 0 \in 0..MaxRequests
    BY Bounds DEF NoFence
<1>2. ClosedStream(page) \in PageTypes
    BY <1>1 DEF ClosedStream, PageTypes
<1>3. ClosedStream(page).es = 0 /\ ClosedStream(page).fence = NoFence
    BY DEF ClosedStream, PageTypes
<1> QED BY <1>2, <1>3

LEMMA PostSteps ==
    ASSUME Inv, NEW n \in Requests, Start(n) \/ Retry(n) \/ Cancel(n)
    PROVE  Inv'
<1> USE Bounds
<1>0. page \in PageTypes /\ n \in 0..MaxRequests
    BY DEF Inv, Types, Requests
<1>1. CASE Start(n)
    <2>1. page' = [ClosedStream(page) EXCEPT !.phase = "starting", !.message = "none", !.job = 0,
                                             !.resumable = FALSE, !.current = n]
        BY <1>1 DEF Start
    <2>2. /\ page' \in PageTypes /\ page'.es = 0 /\ page'.fence = NoFence
          /\ page'.phase = "starting" /\ page'.current = n
        <3>1. /\ ClosedStream(page) \in PageTypes
              /\ ClosedStream(page).es = 0 /\ ClosedStream(page).fence = NoFence
            BY <1>0, StreamClosed
        <3>2. 0 \in 0..MaxJobs /\ FALSE \in BOOLEAN
            OBVIOUS
        <3> QED BY <1>0, <2>1, <3>1, <3>2 DEF PageTypes
    <2>3. /\ req[n].state = "unsent" /\ Post(n, "start", 0) /\ CloseSource /\ Server
          /\ 0 \in 0..MaxJobs
        BY <1>1 DEF Start, Unsent
    <2> QED BY <2>2, <2>3, Begins
<1>2. CASE Retry(n)
    <2>1. page' = [ClosedStream(page) EXCEPT !.phase = "starting", !.message = "none",
                                             !.resumable = FALSE, !.current = n]
        BY <1>2 DEF Retry
    <2>2. /\ page' \in PageTypes /\ page'.es = 0 /\ page'.fence = NoFence
          /\ page'.phase = "starting" /\ page'.current = n
        <3>1. /\ ClosedStream(page) \in PageTypes
              /\ ClosedStream(page).es = 0 /\ ClosedStream(page).fence = NoFence
            BY <1>0, StreamClosed
        <3>2. 0 \in 0..MaxJobs /\ FALSE \in BOOLEAN
            OBVIOUS
        <3> QED BY <1>0, <2>1, <3>1, <3>2 DEF PageTypes
    <2>3. /\ req[n].state = "unsent" /\ Post(n, "retry", page.job) /\ CloseSource /\ Server
          /\ page.job # 0 /\ page.job \in 0..MaxJobs
        BY <1>0, <1>2 DEF Retry, Unsent, PageTypes
    <2> QED BY <2>2, <2>3, Begins
<1>3. CASE Cancel(n)
    <2>1. /\ req[n].state = "unsent" /\ page.phase = "running" /\ Post(n, "cancel", page.job)
          /\ page.job # 0 /\ page.job \in 0..MaxJobs
          /\ page' = [page EXCEPT !.current = n] /\ UNCHANGED es /\ Server
        BY <1>0, <1>3 DEF Cancel, Unsent, PageTypes
    <2>2. /\ req' \in [Requests -> RequestTypes]
          /\ req'[n].kind = "cancel" /\ req'[n].state = "sent" /\ req'[n].job = page.job
          /\ \A m \in Requests : m # n => req'[m] = req[m]
        BY <2>1, Posted DEF Kinds
    <2>3. /\ page' \in PageTypes /\ page'.current = n /\ page'.phase = "running"
          /\ page'.es = page.es /\ page'.fence = page.fence /\ page'.message = page.message
        BY <1>0, <2>1 DEF PageTypes
    <2>4. Types' /\ Bounded'
        BY <2>1, <2>2, <2>3 DEF Inv, Types, Bounded, Server
    <2>5. Told'
        <3> SUFFICES ASSUME NEW m \in Requests
                     PROVE  (/\ req[m].state = "sent" /\ req[m].kind # "start" => req[m].job # 0
                             /\ req[m].state = "answered" /\ req[m].ok /\ req[m].kind # "cancel" =>
                                   Since(req[m].job, req[m].rev)
                             /\ req[m].state # "over" => es[m].state = "unused")'
            BY DEF Told
        <3>1. CASE m = n
            BY <2>1, <2>2, <3>1 DEF Inv, Told
        <3>2. CASE m # n
            BY <2>1, <2>2, <3>2 DEF Inv, Told, Since, Server
        <3> QED BY <3>1, <3>2
    <2>6. Opened' /\ Attended'
        BY <2>1 DEF Inv, Opened, Attended, Since, Server
    <2>7. Fenced' /\ OutcomeIsOfThisRun' /\ MessageIsOfOutcome'
        BY <2>1, <2>3 DEF Inv, Fenced, OutcomeIsOfThisRun, MessageIsOfOutcome, Terminal
    <2>8. Asking'
        BY <2>2, <2>3 DEF Asking, UnderWay
    <2> QED BY <2>4, <2>5, <2>6, <2>7, <2>8 DEF Inv
<1> QED BY <1>1, <1>2, <1>3

\* A POST that is over is taken out of the way of everything but the page.
LEMMA Finished ==
    ASSUME Inv, NEW n \in Requests, UnderWay(n), Over(n)
    PROVE  /\ req' \in [Requests -> RequestTypes]
           /\ req'[n].state = "over" /\ req'[n].kind = "none"
           /\ \A m \in Requests : m # n => req'[m] = req[m]
<1> USE Bounds
<1>1. req \in [Requests -> RequestTypes] /\ req' = [req EXCEPT ![n] = [NoRequest EXCEPT !.state = "over"]]
    BY DEF Inv, Types, Over
<1>2. NoRequest \in RequestTypes
    BY DEF NoRequest, RequestTypes, Kinds
<1>3. [NoRequest EXCEPT !.state = "over"] \in RequestTypes
    BY <1>2 DEF RequestTypes
<1>4. [NoRequest EXCEPT !.state = "over"].kind = "none"
    BY <1>2 DEF RequestTypes, NoRequest
<1> QED BY <1>1, <1>2, <1>3, <1>4 DEF RequestTypes

\* The page takes note of an answer or its loss, and keeps its streams.
LEMMA Noted ==
    ASSUME Inv, NEW n \in Requests, UnderWay(n), Over(n),
           page' \in PageTypes, page'.es = page.es, page'.fence = page.fence,
           page'.current = page.current,
           \/ page'.phase = page.phase /\ page'.message = page.message
           \/ /\ page.current = n
              /\ page'.phase = page.phase \/ req[n].kind # "cancel",
           UNCHANGED <<row, es, conn, wire>>, troubles' \in Nat
    PROVE  Inv'
<1> USE Bounds
<1>1. /\ req' \in [Requests -> RequestTypes]
      /\ req'[n].state = "over" /\ req'[n].kind = "none"
      /\ \A m \in Requests : m # n => req'[m] = req[m]
    BY Finished
<1>2. Types' /\ Bounded'
    BY <1>1 DEF Inv, Types, Bounded
<1>3. Told'
    <2> SUFFICES ASSUME NEW m \in Requests
                 PROVE  (/\ req[m].state = "sent" /\ req[m].kind # "start" => req[m].job # 0
                         /\ req[m].state = "answered" /\ req[m].ok /\ req[m].kind # "cancel" =>
                               Since(req[m].job, req[m].rev)
                         /\ req[m].state # "over" => es[m].state = "unused")'
        BY DEF Told
    <2>1. CASE m = n
        BY <1>1, <2>1
    <2>2. CASE m # n
        BY <1>1, <2>2 DEF Inv, Told, Since
    <2> QED BY <2>1, <2>2
<1>4. Opened' /\ Attended'
    BY DEF Inv, Opened, Attended, Since
<1>5. Fenced'
    BY DEF Inv, Fenced
<1>6. page.current # 0 => page.current \in Requests
    BY DEF Inv, Types, PageTypes, Requests
<1>7. CASE page'.phase = page.phase /\ page'.message = page.message
    <2>1. OutcomeIsOfThisRun' /\ MessageIsOfOutcome'
        BY <1>7 DEF Inv, OutcomeIsOfThisRun, MessageIsOfOutcome
    <2>2. Asking'
        BY <1>1, <1>6, <1>7 DEF Inv, Asking, UnderWay
    <2> QED BY <1>2, <1>3, <1>4, <1>5, <2>1, <2>2 DEF Inv
<1>8. CASE page.current = n /\ page'.phase = page.phase /\ page.phase \in {"starting", "running"}
    <2>1. OutcomeIsOfThisRun' /\ MessageIsOfOutcome'
        BY <1>8 DEF OutcomeIsOfThisRun, MessageIsOfOutcome, Terminal
    <2>2. Asking'
        BY <1>1, <1>8 DEF Asking, UnderWay
    <2> QED BY <1>2, <1>3, <1>4, <1>5, <2>1, <2>2 DEF Inv
<1>9. CASE page.current = n /\ req[n].kind # "cancel"
    <2>1. page.fence.src = 0
        BY <1>6, <1>9 DEF Inv, Asking, Requests
    <2>2. OutcomeIsOfThisRun' /\ MessageIsOfOutcome'
        BY <2>1 DEF OutcomeIsOfThisRun, MessageIsOfOutcome
    <2>3. Asking'
        BY <1>1, <1>9 DEF Asking, UnderWay
    <2> QED BY <1>2, <1>3, <1>4, <1>5, <2>2, <2>3 DEF Inv
<1>10. page.current = n => page.phase \in {"starting", "running"}
    BY DEF Inv, Asking, Requests
<1> QED BY <1>7, <1>8, <1>9, <1>10

\* An accepted start or retry opens a stream of the run it was told of.
LEMMA Opens ==
    ASSUME Inv, NEW n \in Requests, req[n].state = "answered", req[n].ok, req[n].kind # "cancel",
           Over(n), page.current = n, Open(n, req[n].job), Server
    PROVE  Inv'
<1> USE Bounds
<1>1. /\ req' \in [Requests -> RequestTypes]
      /\ req'[n].state = "over" /\ req'[n].kind = "none"
      /\ \A m \in Requests : m # n => req'[m] = req[m]
    BY Finished DEF UnderWay
<1>2. /\ Since(req[n].job, req[n].rev) /\ es[n].state = "unused" /\ page.phase = "starting"
      /\ n \in Sources /\ n # 0 /\ n \in 0..MaxRequests
    BY DEF Inv, Told, Asking, UnderWay, Sources, Requests
<1>3. /\ req[n].rev \in Nat /\ req[n].job \in 0..MaxJobs
    BY DEF Inv, Types, RequestTypes
<1>4. /\ es' \in [Sources -> SourceTypes]
      /\ es'[n] = [state |-> "watching", job |-> req[n].job, rev |-> req[n].rev]
      /\ \A s \in Sources : s # n => es'[s] = es[s]
    <2>1. [state |-> "watching", job |-> req[n].job, rev |-> req[n].rev] \in SourceTypes
        BY <1>3 DEF SourceTypes
    <2>2. es \in [Sources -> SourceTypes]
        BY DEF Inv, Types
    <2> QED BY <1>2, <2>1, <2>2 DEF Open
<1>5. /\ page' \in PageTypes /\ page'.es = n /\ page'.current = n /\ page'.phase = "starting"
      /\ page'.fence.src = n /\ page'.fence.job = req[n].job
    <2>1. page \in PageTypes
        BY DEF Inv, Types
    <2>2. [src |-> n, job |-> req[n].job, rev |-> -1] \in
             [src : 0..MaxRequests, job : 0..MaxJobs, rev : Int]
        BY <1>2, <1>3
    <2> QED BY <1>2, <1>3, <2>1, <2>2 DEF Open, PageTypes
<1>6. Types' /\ Bounded'
    BY <1>1, <1>4, <1>5 DEF Inv, Types, Bounded, Server
<1>7. Told'
    <2> SUFFICES ASSUME NEW m \in Requests
                 PROVE  (/\ req[m].state = "sent" /\ req[m].kind # "start" => req[m].job # 0
                         /\ req[m].state = "answered" /\ req[m].ok /\ req[m].kind # "cancel" =>
                               Since(req[m].job, req[m].rev)
                         /\ req[m].state # "over" => es[m].state = "unused")'
        BY DEF Told
    <2>1. CASE m = n
        BY <1>1, <2>1
    <2>2. CASE m # n
        BY <1>1, <1>4, <2>2 DEF Inv, Told, Since, Server, Sources
    <2> QED BY <2>1, <2>2
<1>8. wire[n] = <<>> /\ ~conn[n].open
    BY <1>2 DEF Inv, Attended
<1>9. Opened'
    <2> SUFFICES ASSUME NEW s \in Sources
                 PROVE  (/\ es[s].state # "unused" => Since(es[s].job, es[s].rev)
                         /\ \A i \in 1..Len(wire[s]) :
                               /\ wire[s][i].job = es[s].job
                               /\ wire[s][i].rev >= es[s].rev
                               /\ wire[s][i].status \in Terminal => wire[s][i].rev > es[s].rev)'
        BY DEF Opened
    <2>1. CASE s = n
        <3>1. Len(wire'[s]) = 0
            BY <1>8, <2>1 DEF Server
        <3>2. es'[s].job = req[n].job /\ es'[s].rev = req[n].rev
            BY <1>4, <2>1
        <3> QED BY <1>2, <3>1, <3>2 DEF Since, Server
    <2>2. CASE s # n
        BY <1>4, <2>2 DEF Inv, Opened, Since, Server
    <2> QED BY <2>1, <2>2
<1>10. Attended' /\ Fenced'
    BY <1>2, <1>4, <1>5 DEF Inv, Attended, Fenced, Server
<1>11. Asking' /\ OutcomeIsOfThisRun' /\ MessageIsOfOutcome'
    BY <1>1, <1>5 DEF Asking, UnderWay, OutcomeIsOfThisRun, MessageIsOfOutcome, Terminal
<1> QED BY <1>6, <1>7, <1>9, <1>10, <1>11 DEF Inv

LEMMA AnswerSteps ==
    ASSUME Inv, NEW n \in Requests, Answer(n) \/ Lose(n)
    PROVE  Inv'
<1> USE Bounds
<1>0. page \in PageTypes /\ troubles \in Nat
    BY DEF Inv, Types
<1>2. CASE Answer(n)
    <2>1. req[n].state = "answered" /\ UnderWay(n) /\ Over(n) /\ Server
        BY <1>2 DEF Answer, UnderWay
    <2>2. UNCHANGED <<row, conn, wire>> /\ troubles' \in Nat
        BY <1>0, <2>1 DEF Server
    <2>3. CASE UNCHANGED <<page, es>>
        BY <1>0, <2>1, <2>2, <2>3, Noted
    <2>4. CASE page.current = n /\ req[n].ok /\ req[n].kind # "cancel" /\ Open(n, req[n].job)
        BY <2>1, <2>4, Opens
    <2>5. CASE /\ page.current = n /\ page' = [page EXCEPT !.message = "canceling"]
               /\ UNCHANGED es
        <3>1. /\ page' \in PageTypes /\ page'.es = page.es /\ page'.fence = page.fence
              /\ page'.current = page.current /\ page'.phase = page.phase
            BY <1>0, <2>5 DEF PageTypes
        <3> QED BY <2>1, <2>2, <2>5, <3>1, Noted
    <2>6. CASE /\ page.current = n /\ UNCHANGED es
               /\ page' = [page EXCEPT !.message = "refused",
                                       !.phase = IF req[n].kind = "cancel" THEN @ ELSE "error"]
        <3>1. /\ page' \in PageTypes /\ page'.es = page.es /\ page'.fence = page.fence
              /\ page'.current = page.current
              /\ page'.phase = page.phase \/ req[n].kind # "cancel"
            BY <1>0, <2>6 DEF PageTypes, Terminal
        <3> QED BY <2>1, <2>2, <2>6, <3>1, Noted
    <2> QED BY <1>2, <2>3, <2>4, <2>5, <2>6 DEF Answer
<1>3. CASE Lose(n)
    <2>1. /\ UnderWay(n) /\ Over(n) /\ troubles' \in Nat /\ UNCHANGED <<row, es, conn, wire>>
        BY <1>0, <1>3 DEF Lose, UnderWay, Troubled
    <2>2. CASE page' = page
        BY <1>0, <2>1, <2>2, Noted
    <2>3. CASE /\ page.current = n
               /\ page' = [page EXCEPT !.message = "refused",
                                       !.phase = IF req[n].kind = "cancel" THEN @ ELSE "error"]
        <3>1. /\ page' \in PageTypes /\ page'.es = page.es /\ page'.fence = page.fence
              /\ page'.current = page.current
              /\ page'.phase = page.phase \/ req[n].kind # "cancel"
            BY <1>0, <2>3 DEF PageTypes, Terminal
        <3> QED BY <2>1, <2>3, <3>1, Noted
    <2> QED BY <1>3, <2>2, <2>3 DEF Lose
<1> QED BY <1>2, <1>3

\* An accepted frame is of the run the fence was set for, or of a later one.
LEMMA MessageShown ==
    ASSUME Inv, NEW s \in Sources, NEW snap \in Frames, Accepts(s, snap),
           snap.status \in Terminal => snap.rev > es[s].rev,
           page' = Shown(snap),
           es' = IF Final(snap) THEN [es EXCEPT ![s].state = "closed"] ELSE es,
           wire' \in [Sources -> Seq(Frames)], Opened', Attended', UNCHANGED <<row, req, conn, troubles>>
    PROVE  Inv'
<1> USE Bounds
<1>0. /\ page \in PageTypes /\ es \in [Sources -> SourceTypes]
      /\ page.fence.src = s /\ s # 0 /\ es[s].state # "unused" /\ page.fence.job = es[s].job
      /\ s \in Requests
    BY DEF Inv, Types, Fenced, Accepts, Sources, Requests
<1>1. /\ es' \in [Sources -> SourceTypes]
      /\ \A x \in Sources : /\ es'[x].job = es[x].job /\ es'[x].rev = es[x].rev
                            /\ es'[x].state = "unused" <=> es[x].state = "unused"
                            /\ ~Final(snap) => es'[x] = es[x]
    <2>1. CASE ~Final(snap)
        BY <1>0, <2>1
    <2>2. CASE Final(snap)
        <3>1. [es[s] EXCEPT !.state = "closed"] \in SourceTypes
            BY <1>0 DEF SourceTypes
        <3>2. /\ [es[s] EXCEPT !.state = "closed"].state = "closed"
              /\ [es[s] EXCEPT !.state = "closed"].job = es[s].job
              /\ [es[s] EXCEPT !.state = "closed"].rev = es[s].rev
            BY <1>0 DEF SourceTypes
        <3>3. /\ es' \in [Sources -> SourceTypes] /\ es'[s] = [es[s] EXCEPT !.state = "closed"]
              /\ \A x \in Sources : x # s => es'[x] = es[x]
            BY <1>0, <2>2, <3>1
        <3> QED BY <1>0, <2>2, <3>2, <3>3
    <2> QED BY <2>1, <2>2
<1>2. /\ page' \in PageTypes
      /\ page'.fence.src = s /\ page'.fence.job = page.fence.job /\ page'.fence.rev = snap.rev
    <2>1. snap.rev \in Int /\ snap.status \in {"live"} \union Terminal
        BY DEF Frames
    <2>2. [page.fence EXCEPT !.rev = snap.rev] \in
              [src : 0..MaxRequests, job : 0..MaxJobs, rev : Int]
        BY <1>0, <2>1 DEF PageTypes
    <2>3. (CASE snap.status = "done" -> "none" [] snap.status = "error" -> "outcome"
             [] OTHER -> page.message) \in {"none", "canceling", "refused", "outcome"}
        BY <1>0 DEF PageTypes
    <2>4. (snap.status \in {"done", "error"}) \in BOOLEAN
        OBVIOUS
    <2>5. (IF snap.status = "live" THEN "running" ELSE snap.status)
             \in {"idle", "starting", "running"} \union Terminal
        BY <2>1
    <2>6. /\ (IF snap.status = "live" THEN page.current ELSE 0) \in 0..MaxRequests
          /\ (IF Final(snap) THEN 0 ELSE page.es) \in 0..MaxRequests
        BY <1>0 DEF PageTypes
    <2>7. page' \in PageTypes
        BY <1>0, <2>2, <2>3, <2>4, <2>5, <2>6 DEF Shown, PageTypes
    <2>8. page'.fence = [page.fence EXCEPT !.rev = snap.rev]
        BY <1>0 DEF Shown, PageTypes
    <2> QED BY <1>0, <2>2, <2>7, <2>8 DEF PageTypes
<1>3. /\ page'.phase = IF snap.status = "live" THEN "running" ELSE snap.status
      /\ page'.current = IF snap.status = "live" THEN page.current ELSE 0
      /\ page'.es = IF Final(snap) THEN 0 ELSE page.es
    BY <1>0 DEF Shown, PageTypes
<1>4. /\ snap.status = "done" => page'.message = "none"
      /\ snap.status = "error" => page'.message = "outcome"
    BY <1>0 DEF Shown, PageTypes
<1>5. Types' /\ Bounded'
    BY <1>1, <1>2 DEF Inv, Types, Bounded
<1>6. Told'
    BY <1>1 DEF Inv, Told, Since, Sources
<1>7. Fenced'
    BY <1>0, <1>1, <1>2, <1>3 DEF Inv, Fenced, Sources, Requests
<1>8. Asking'
    BY <1>0, <1>3 DEF Inv, Asking, UnderWay
<1>9. OutcomeIsOfThisRun'
    BY <1>0, <1>1, <1>2, <1>3 DEF OutcomeIsOfThisRun, Terminal
<1>10. MessageIsOfOutcome'
    BY <1>3, <1>4 DEF MessageIsOfOutcome
<1> QED BY <1>5, <1>6, <1>7, <1>8, <1>9, <1>10 DEF Inv

LEMMA MessageSteps ==
    ASSUME Inv, NEW s \in Sources, Message(s)
    PROVE  Inv'
<1> USE Bounds
<1>1. /\ wire \in [Sources -> Seq(Frames)] /\ wire[s] \in Seq(Frames) /\ wire[s] # <<>>
      /\ wire' = [wire EXCEPT ![s] = Tail(wire[s])]
      /\ UNCHANGED <<row, req, conn, troubles>>
    BY DEF Inv, Types, Message
<1>2. /\ Tail(wire[s]) \in Seq(Frames) /\ Head(wire[s]) \in Frames
      /\ Head(wire[s]) = wire[s][1] /\ 1 \in 1..Len(wire[s])
      /\ \A i \in 1..Len(Tail(wire[s])) : i + 1 \in 1..Len(wire[s])
                                            /\ Tail(wire[s])[i] = wire[s][i + 1]
    BY <1>1
<1>3. /\ es[s].state # "unused"
      /\ Head(wire[s]).status \in Terminal => Head(wire[s]).rev > es[s].rev
    BY <1>1, <1>2 DEF Inv, Attended, Opened
<1>4. \A i \in 1..Len(Tail(wire[s])) :
          /\ Tail(wire[s])[i].job = es[s].job
          /\ Tail(wire[s])[i].rev >= es[s].rev
          /\ Tail(wire[s])[i].status \in Terminal => Tail(wire[s])[i].rev > es[s].rev
    BY <1>2 DEF Inv, Opened
<1>5. CASE UNCHANGED <<page, es>>
    <2>1. /\ conn' = [conn EXCEPT ![s] = conn[s]] /\ conn[s] \in ConnTypes
          /\ conn[s].retry \/ conn[s].poll <=> conn[s].open
          /\ troubles' \in Nat
        BY <1>1 DEF Inv, Types, Attended
    <2> QED BY <1>1, <1>2, <1>3, <1>4, <1>5, <2>1, StreamMoves
<1>6. CASE /\ Accepts(s, Head(wire[s])) /\ page' = Shown(Head(wire[s]))
           /\ es' = IF Final(Head(wire[s])) THEN [es EXCEPT ![s].state = "closed"] ELSE es
    <2>1. /\ wire' \in [Sources -> Seq(Frames)] /\ wire'[s] = Tail(wire[s])
          /\ \A x \in Sources : x # s => wire'[x] = wire[x]
        BY <1>1, <1>2
    <2>2. \A x \in Sources : /\ es'[x].job = es[x].job /\ es'[x].rev = es[x].rev
                             /\ es'[x].state = "unused" <=> es[x].state = "unused"
        <3>1. es \in [Sources -> SourceTypes]
            BY DEF Inv, Types
        <3>2. /\ [es[s] EXCEPT !.state = "closed"].state = "closed"
              /\ [es[s] EXCEPT !.state = "closed"].job = es[s].job
              /\ [es[s] EXCEPT !.state = "closed"].rev = es[s].rev
            BY <3>1 DEF SourceTypes
        <3> QED BY <1>3, <1>6, <3>1, <3>2
    <2>3. Opened'
        <3> SUFFICES ASSUME NEW x \in Sources
                     PROVE  (/\ es[x].state # "unused" => Since(es[x].job, es[x].rev)
                             /\ \A i \in 1..Len(wire[x]) :
                                   /\ wire[x][i].job = es[x].job
                                   /\ wire[x][i].rev >= es[x].rev
                                   /\ wire[x][i].status \in Terminal =>
                                         wire[x][i].rev > es[x].rev)'
            BY DEF Opened
        <3>1. CASE x = s
            BY <1>1, <1>4, <2>1, <2>2, <3>1 DEF Inv, Opened, Since
        <3>2. CASE x # s
            BY <1>1, <2>1, <2>2, <3>2 DEF Inv, Opened, Since
        <3> QED BY <3>1, <3>2
    <2>4. Attended'
        BY <1>1, <1>3, <2>1, <2>2 DEF Inv, Attended
    <2> QED BY <1>1, <1>2, <1>3, <1>6, <2>1, <2>3, <2>4, MessageShown
<1> QED BY <1>5, <1>6 DEF Message

-----------------------------------------------------------------------------
(* The theorems *)

LEMMA Inductive == Inv /\ [Next]_vars => Inv'
<1> SUFFICES ASSUME Inv, [Next]_vars PROVE Inv'
    OBVIOUS
<1>1. ASSUME NEW j \in Jobs, Rows(j) PROVE Inv'
    BY <1>1, RowSteps
<1>2. ASSUME NEW s \in Sources, Streams(s) PROVE Inv'
    BY <1>2, StreamSteps, MessageSteps
<1>3. ASSUME NEW n \in Requests, Posts(n) PROVE Inv'
    <2>1. CASE Serve(n)
        <3>1. req[n].state = "sent" /\ UNCHANGED <<page, es, conn, wire, troubles>>
            BY <2>1 DEF Serve, Stream
        <3>2. CASE ServeStart(n)
            BY <3>1, <3>2, StartServed
        <3>3. CASE req[n].kind = "retry" /\ ServeRetry(n)
            BY <3>1, <3>3, JobServed
        <3>4. CASE req[n].kind = "cancel" /\ ServeCancel(n)
            BY <3>1, <3>4, JobServed
        <3> QED BY <2>1, <3>2, <3>3, <3>4 DEF Serve
    <2>2. CASE ~Serve(n)
        BY <1>3, <2>2, PostSteps, AnswerSteps DEF Posts
    <2> QED BY <2>1, <2>2
<1>4. CASE UNCHANGED vars
    BY <1>4 DEF vars, Inv, Types, Bounded, Told, Since, Opened, Attended, Fenced, Asking, UnderWay,
                OutcomeIsOfThisRun, MessageIsOfOutcome
<1> QED BY <1>1, <1>2, <1>3, <1>4 DEF Next

LEMMA Invariance == Spec => []Inv
<1> QED BY Initial, Inductive, PTL DEF Spec

\* Types, with a timer behind every open stream (schedulePoll, scheduleReadRetry),
\* and a page whose source is the one its fence was set for.
THEOREM TypeCorrect == Spec => []TypeOK
<1>1. Inv => TypeOK
    BY Bounds DEF Inv, Types, Bounded, Attended, Fenced, Asking, TypeOK, RowTypes, Statuses,
                  ConnTypes, SourceTypes
<1> QED BY <1>1, Invariance, PTL

\* The outcome a page shows is that of the run it asked for, whatever frames of
\* older runs and sources still arrive (createJobStreamSnapshotFence).
THEOREM OutcomeIsOwn == Spec => []OutcomeIsOfThisRun
<1>1. Inv => OutcomeIsOfThisRun
    BY DEF Inv
<1> QED BY <1>1, Invariance, PTL

\* No answer of a cancel replaces the message of an outcome
\* (createJobRequestFence, invalidated by the snapshot listener).
THEOREM MessageIsOwn == Spec => []MessageIsOfOutcome
<1>1. Inv => MessageIsOfOutcome
    BY DEF Inv
<1> QED BY <1>1, Invariance, PTL

=============================================================================
