----------------------------- MODULE SettingsSync -----------------------------
(***************************************************************************)
(* The settings page of several browser tabs against one settings table    *)
(* (src/settings/writeQueue.ts, src/settings/settings.ts,                  *)
(* src/app/api/settings/route.ts).                                         *)
(*                                                                         *)
(* Each tab serialises full-state writes, coalesces what the user chooses  *)
(* while one is in flight, and fences every write on the version it last   *)
(* confirmed.  A write that fails may have committed: the tab reads the    *)
(* authority back before it writes again.  Requests and replies get lost,  *)
(* a request may outlive the failure its tab has seen, tabs are closed,    *)
(* and an operator resets the stored rows.                                 *)
(*                                                                         *)
(* log holds every version the table went through.  The entity tag hashes  *)
(* the revision and the state, so a version IS its position in log.        *)
(***************************************************************************)
EXTENDS Integers, Sequences

CONSTANTS
    Tabs,       \* settings pages
    Options,    \* models the application advertises
    Dated,      \* valid dated models: carried when already set, never offered
    Unknown,    \* models an older version or the environment left behind
    Efforts,
    MaxEdits,   \* bound: choices of users
    MaxFails,   \* bound: requests the network fails
    Nobody      \* not a tab: the operator, and no request

ASSUME NamesAssumption == Nobody \notin Tabs
ASSUME BoundsAssumption == {MaxEdits, MaxFails} \subseteq Nat

Models == Options \cup Dated \cup Unknown

Settings == [model : Models, effort : Efforts]

\* isAnalysisModelSetting.
Settable == Options \cup Dated

VARIABLES
    log,      \* versions: the state, and who wrote it how
    tab,      \* the write queue of each page
    net,      \* the fetch each page awaits
    strays,   \* POSTs still under way although their page saw them fail
    intent,   \* history: what the user of a tab last asked for and was not refused
    shown,    \* history: the version on display when that was chosen
    edits, fails

vars == <<log, tab, net, strays, intent, shown, edits, fails>>

-------------------------------------------------------------------------------
(* Server.                                                                 *)

Latest == Len(log)

State(v) == log[v].state

\* compareAndSwapWritableSettings: a dated model may be kept, not chosen.
Allowed(state, current) ==
    \/ state.model \in Options
    \/ state.model \in Dated /\ state.model = current.model

Accepted(post) == post.version = Latest /\ Allowed(post.state, State(Latest))

Version(post, stray) ==
    [state |-> post.state, by |-> post.tab, shown |-> post.shown,
     fetched |-> post.fetched, stray |-> stray]

\* GET /api/settings.
ServerReads(t) ==
    /\ net[t].stage = "sent" /\ net[t].kind = "read"
    /\ net' = [net EXCEPT ![t].stage = "ok", ![t].version = Latest]
    /\ UNCHANGED <<log, tab, strays, intent, shown, edits, fails>>

\* POST /api/settings: 412 and 400 are failures to the page.
ServerWrites(t) ==
    /\ net[t].stage = "sent" /\ net[t].kind = "write"
    /\ IF Accepted(net[t])
       THEN /\ log' = Append(log, Version(net[t], FALSE))
            /\ net' = [net EXCEPT ![t].stage = "ok", ![t].version = Latest + 1]
       ELSE /\ net' = [net EXCEPT ![t].stage = "failed"]
            /\ UNCHANGED log
    /\ UNCHANGED <<tab, strays, intent, shown, edits, fails>>

StrayArrives(post) ==
    /\ log' = IF Accepted(post) THEN Append(log, Version(post, TRUE)) ELSE log
    /\ strays' = strays \ {post}
    /\ UNCHANGED <<tab, net, intent, shown, edits, fails>>

\* Some row is in the table: only a changed value is stored (a write of the same
\* pair just advances the revision), and a reset deletes what was stored.
Stored ==
    \E v \in 2..Latest :
        /\ State(v) # State(v - 1)
        /\ \A w \in v..Latest : log[w].by # Nobody

\* npm run settings:reset keeps the revision: with no row to delete, nothing changes.
Reset ==
    /\ Stored
    /\ log' = Append(log, [log[1] EXCEPT !.by = Nobody])
    /\ UNCHANGED <<tab, net, strays, intent, shown, edits, fails>>

\* The page's fetch rejects: the request never arrived, its reply was lost, or it
\* is still on its way.
RequestFails(t) ==
    /\ net[t].stage \in {"sent", "ok"}
    /\ fails < MaxFails /\ fails' = fails + 1
    /\ net' = [net EXCEPT ![t].stage = "failed"]
    /\ \/ UNCHANGED strays
       \/ net[t].stage = "sent" /\ net[t].kind = "write" /\ strays' = strays \cup {net[t]}
    /\ UNCHANGED <<log, tab, intent, shown, edits>>

-------------------------------------------------------------------------------
(* What the write queue of a page does next, from its state q.             *)

NoRequest ==
    [kind |-> "none", stage |-> "none", tab |-> Nobody, state |-> State(1), version |-> 0,
     shown |-> 0, fetched |-> FALSE]

Goes(t, q, request) ==
    /\ tab' = [tab EXCEPT ![t] = q]
    /\ net' = [net EXCEPT ![t] = request]

\* beginWrite.  fetched: the version was read back by a preflight.
BeginWrite(t, q, fetched) ==
    Goes(t, [q EXCEPT !.op = "write", !.status = "saving"],
         [kind |-> "write", stage |-> "sent", tab |-> t, state |-> q.desired,
          version |-> q.authority, shown |-> shown'[t],
          fetched |-> fetched])

\* beginRecovery.
BeginRecovery(t, q, purpose) ==
    Goes(t, [q EXCEPT !.op = purpose, !.status = "recovering"],
         [NoRequest EXCEPT !.kind = "read", !.stage = "sent", !.tab = t])

\* Bug: an operation that ends forgets who waits for it.
FinishUnflushed(t, q, status) == Goes(t, [q EXCEPT !.op = "none", !.status = status], NoRequest)

\* finish, after emit(status): flush promises resolve.
Finish(t, q, status) ==
    Goes(t, [q EXCEPT !.op = "none", !.status = status, !.flushing = FALSE], NoRequest)

\* An error shows the confirmed authority instead of what was asked for.
FinishInError(t, q) ==
    /\ Finish(t, [q EXCEPT !.desired = State(q.authority)], "error")
    /\ intent' = [intent EXCEPT ![t] = State(q.authority)]

\* Bug: a disposed page leaves the queue busy.
FinishNothing(t) == UNCHANGED tab /\ net' = [net EXCEPT ![t] = NoRequest]

\* finishDisposed.
FinishDisposed(t) == Finish(t, tab[t], tab[t].status)

\* What remains to be sent is sent, unless its model cannot be stored.
Continue(t, q, fetched) ==
    IF q.desired.model \in Settable
    THEN BeginWrite(t, q, fetched) /\ UNCHANGED intent
    ELSE FinishInError(t, q)

Busy(t) == tab[t].op # "none"

Answered(t) == net[t].stage = "ok"

Loaded(t) == tab[t].status \notin {"loading", "failed"}

\* The initial GET of the page controller.
ReceiveLoad(t) ==
    /\ tab[t].op = "load" /\ net[t].stage \in {"ok", "failed"}
    /\ IF tab[t].disposed THEN FinishDisposed(t) /\ UNCHANGED intent
       ELSE IF Answered(t)
       THEN LET v == net[t].version
            IN /\ Finish(t, [tab[t] EXCEPT !.authority = v, !.desired = State(v)], "idle")
               /\ intent' = [intent EXCEPT ![t] = State(v)]
       ELSE Finish(t, tab[t], "failed") /\ UNCHANGED intent
    /\ UNCHANGED <<log, strays, shown, edits, fails>>

\* Bug: whatever the server acknowledged is what the user wanted.
SavedAnyway(t, q) == Finish(t, q, "saved") /\ UNCHANGED intent

\* A write is confirmed: either it was the latest choice, or the tail follows it.
Confirmed(t, q) ==
    IF State(q.authority) = q.desired
    THEN Finish(t, q, "saved") /\ UNCHANGED intent
    ELSE Continue(t, q, FALSE)

\* Bug: a failed write is taken not to have happened.
GiveUp(t) ==
    IF tab[t].disposed THEN FinishDisposed(t) /\ UNCHANGED intent
    ELSE FinishInError(t, tab[t])

\* A write failed, or was answered with another state than it sent.
WriteUnknown(t) ==
    IF tab[t].disposed THEN FinishDisposed(t) /\ UNCHANGED intent
    ELSE BeginRecovery(t, tab[t], "reconcile") /\ UNCHANGED intent

ReceiveWrite(t) ==
    /\ tab[t].op = "write" /\ net[t].stage \in {"ok", "failed"}
    /\ UNCHANGED <<log, strays, shown, edits, fails>>
    /\ IF Answered(t) /\ ~tab[t].disposed /\ State(net[t].version) = net[t].state
       THEN Confirmed(t, [tab[t] EXCEPT !.authority = net[t].version, !.preflight = FALSE])
       ELSE WriteUnknown(t)

\* Bug: what was chosen is sent again over what was read back.
Replayed(t, q) ==
    IF State(q.authority) = q.desired
    THEN Finish(t, q, "saved") /\ UNCHANGED intent
    ELSE Continue(t, q, FALSE)

\* reconcile-write: the server is authoritative, the queued tail is discarded.
Reconciled(t, q) ==
    IF State(q.authority) = q.desired
    THEN Finish(t, q, "saved") /\ UNCHANGED intent
    ELSE FinishInError(t, q)

\* preflight-write: the choice that waited for this authority is sent over it.
Preflighted(t, q) ==
    IF State(q.authority) = q.desired
    THEN Finish(t, q, "saved") /\ UNCHANGED intent
    ELSE Continue(t, q, TRUE)

ReceiveRecovery(t) ==
    /\ tab[t].op \in {"reconcile", "preflight"} /\ net[t].stage \in {"ok", "failed"}
    /\ UNCHANGED <<log, strays, shown, edits, fails>>
    /\ LET q == [tab[t] EXCEPT !.authority = net[t].version, !.preflight = FALSE]
       IN CASE tab[t].disposed -> FinishDisposed(t) /\ UNCHANGED intent
            [] ~tab[t].disposed /\ Answered(t) /\ tab[t].op = "reconcile" -> Reconciled(t, q)
            [] ~tab[t].disposed /\ Answered(t) /\ tab[t].op = "preflight" -> Preflighted(t, q)
            [] OTHER -> FinishInError(t, [tab[t] EXCEPT !.preflight = TRUE])

Receive(t) == ReceiveLoad(t) \/ ReceiveWrite(t) \/ ReceiveRecovery(t)

-------------------------------------------------------------------------------
(* The user.                                                               *)

\* setDesired of the queue: busy writers only take note.
SetDesired(t, state) ==
    LET q == [tab[t] EXCEPT !.desired = state]
    IN CASE tab[t].op = "write" -> tab' = [tab EXCEPT ![t] = [q EXCEPT !.status = "saving"]] /\ UNCHANGED net
         [] tab[t].op \in {"reconcile", "preflight"} ->
                tab' = [tab EXCEPT ![t] = [q EXCEPT !.status = "recovering"]] /\ UNCHANGED net
         [] tab[t].op = "none" ->
                IF tab[t].preflight THEN BeginRecovery(t, q, "preflight")
                ELSE BeginWrite(t, q, FALSE)

Chooses(t) ==
    /\ Loaded(t) /\ ~tab[t].disposed
    /\ edits < MaxEdits /\ edits' = edits + 1
    /\ shown' = [shown EXCEPT ![t] = tab[t].authority]
    /\ UNCHANGED <<log, strays, fails>>

\* What the page offers: the advertised models, and the one it shows if dated.
SetAnalysisModel(t, m) ==
    /\ Chooses(t)
    /\ m \in Options \/ (m \in Dated /\ m = tab[t].desired.model)
    /\ SetDesired(t, [tab[t].desired EXCEPT !.model = m])
    /\ intent' = [intent EXCEPT ![t].model = m]

\* The state an effort choice is merged into (latestWriter.desired).
Carried(t) == tab[t].desired

SetAnalysisEffort(t, e) ==
    /\ Chooses(t)
    /\ IF Carried(t).model \in Settable
       THEN /\ SetDesired(t, [Carried(t) EXCEPT !.effort = e])
            /\ intent' = [intent EXCEPT ![t].effort = e]
       ELSE /\ tab' = [tab EXCEPT ![t].status = "error"]
            /\ UNCHANGED <<net, intent>>

\* flush: resolved at once when nothing is under way.
Flush(t) ==
    /\ ~tab[t].flushing /\ Busy(t)
    /\ tab' = [tab EXCEPT ![t].flushing = TRUE]
    /\ UNCHANGED <<log, net, strays, intent, shown, edits, fails>>

\* dispose aborts a GET, never a POST.
Dispose(t) ==
    /\ ~tab[t].disposed
    /\ tab' = [tab EXCEPT ![t].disposed = TRUE]
    /\ net' = IF net[t].kind = "read" THEN [net EXCEPT ![t].stage = "failed"] ELSE net
    /\ UNCHANGED <<log, strays, intent, shown, edits, fails>>

-------------------------------------------------------------------------------
Init ==
    /\ \E s \in Settings :
          /\ log = <<[state |-> s, by |-> Nobody, shown |-> 0,
                      fetched |-> FALSE, stray |-> FALSE]>>
          /\ tab = [t \in Tabs |->
                [authority |-> 1, desired |-> s, op |-> "load", preflight |-> FALSE,
                 disposed |-> FALSE, flushing |-> FALSE, status |-> "loading"]]
          /\ net = [t \in Tabs |->
                [kind |-> "read", stage |-> "sent", tab |-> t, state |-> s, version |-> 0,
                 shown |-> 0, fetched |-> FALSE]]
          /\ intent = [t \in Tabs |-> s]
    /\ strays = {}
    /\ shown = [t \in Tabs |-> 1]
    /\ edits = 0 /\ fails = 0

Next ==
    \/ Reset
    \/ \E post \in strays : StrayArrives(post)
    \/ \E t \in Tabs :
          \/ ServerReads(t) \/ ServerWrites(t) \/ RequestFails(t)
          \/ Receive(t) \/ Flush(t) \/ Dispose(t)
          \/ \E m \in Options \cup Dated : SetAnalysisModel(t, m)
          \/ \E e \in Efforts : SetAnalysisEffort(t, e)

Spec == Init /\ [][Next]_vars

-------------------------------------------------------------------------------
(* Correctness.                                                            *)

Entry ==
    [state : Settings, by : Tabs \cup {Nobody}, shown : Nat,
     fetched : BOOLEAN, stray : BOOLEAN]

Queue ==
    [authority : Nat, desired : Settings, op : {"none", "load", "write", "reconcile", "preflight"},
     preflight : BOOLEAN, disposed : BOOLEAN, flushing : BOOLEAN,
     status : {"loading", "failed", "idle", "saving", "saved", "recovering", "error"}]

Request ==
    [kind : {"none", "read", "write"}, stage : {"none", "sent", "ok", "failed"},
     tab : Tabs \cup {Nobody}, state : Settings, version : Nat,
     shown : Nat, fetched : BOOLEAN]

\* Types; and a page awaits a request exactly while its queue has an operation.
TypeOK ==
    /\ log \in Seq(Entry) /\ log # <<>>
    /\ tab \in [Tabs -> Queue]
    /\ net \in [Tabs -> Request]
    /\ strays \subseteq Request
    /\ intent \in [Tabs -> Settings]
    /\ shown \in [Tabs -> Nat]
    /\ edits \in Nat /\ fails \in Nat
    /\ \A t \in Tabs : /\ tab[t].authority \in 1..Latest
                       /\ Busy(t) <=> net[t].stage # "none"

\* "Only the response for the current desired state may display saved" (M13): at
\* rest a page shows a state the server confirmed, and it is what its user last
\* chose, model and effort, unless an error said otherwise.
SettledIsIntent ==
    \A t \in Tabs :
        Loaded(t) /\ ~Busy(t) /\ ~tab[t].disposed =>
            tab[t].desired = State(tab[t].authority) /\ tab[t].desired = intent[t]

\* No choice overwrites a version by somebody else that was not on display when
\* it was made, except after a preflight (beginWrite's If-Match, and the
\* discarded tail of a reconciliation).
NoUnseenOverwrite ==
    \A v \in 2..Latest :
        log[v].by # Nobody =>
            \/ log[v - 1].by = log[v].by
            \/ v - 1 = log[v].shown
            \/ log[v].fetched

\* "Ambiguous outcomes are reconciled with a coherent GET": a page at rest knows
\* of each of its commits, unless the read-back failed too or outran the request.
OutcomeKnown ==
    \A t \in Tabs :
        ~Busy(t) /\ Loaded(t) /\ ~tab[t].preflight /\ ~tab[t].disposed =>
            \A v \in 1..Latest : log[v].by = t /\ ~log[v].stray => v <= tab[t].authority

\* A flush promise is never left behind by a queue that has come to rest, on any
\* of the ways an operation ends, disposal included.
NoFlushStranded == \A t \in Tabs : tab[t].flushing => Busy(t)

===============================================================================
