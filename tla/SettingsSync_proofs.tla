-------------------------- MODULE SettingsSync_proofs --------------------------
(***************************************************************************)
(* What settings pages and the settings table agree on, for every number   *)
(* of pages, models, efforts, choices and failures.                        *)
(***************************************************************************)
EXTENDS SettingsSync, TLAPS

\* Every commit of the page that it saw answered is no later than version v.
Knows(t, v) == \A w \in 1..Latest : log[w].by = t /\ ~log[w].stray => w <= v

\* A write goes over what its user saw, a version of its own page, or one that was
\* read back for it.
Fenced(post) ==
    /\ post.tab \in Tabs
    /\ post.version \in 1..Latest
    /\ \/ post.fetched
       \/ post.version = post.shown
       \/ log[post.version].by = post.tab

\* The queue q of page t while it awaits r and its user wants wish: r belongs to
\* the operation, what r brings back is up to date, and at rest there is nothing
\* left to say.
Sound(t, q, r, wish) ==
    /\ q.authority \in 1..Latest
    /\ q.op = "none" <=> r.stage = "none"
    /\ q.op = "none" <=> r.kind = "none"
    /\ q.op = "write" <=> r.kind = "write"
    /\ q.op = "load" => q.status = "loading"
    /\ q.flushing => q.op # "none"
    /\ q.desired = wish
    /\ q.op = "none" /\ ~q.disposed /\ q.status \notin {"loading", "failed"} =>
         /\ q.desired = State(q.authority)
         /\ ~q.preflight => Knows(t, q.authority)
    /\ r.stage = "ok" => r.version \in 1..Latest /\ Knows(t, r.version)
    /\ r.kind = "write" =>
         /\ r.tab = t
         /\ r.stage = "sent" => Fenced(r)
         /\ r.stage = "ok" => log[r.version].by = t

Types ==
    /\ log \in Seq(Entry) /\ log # <<>>
    /\ tab \in [Tabs -> Queue]
    /\ net \in [Tabs -> Request]
    /\ strays \subseteq Request
    /\ intent \in [Tabs -> Settings]
    /\ shown \in [Tabs -> Nat]
    /\ edits \in Nat /\ fails \in Nat

Inv ==
    /\ Types
    /\ \A t \in Tabs : Sound(t, tab[t], net[t], intent[t])
    /\ \A post \in strays : Fenced(post)
    /\ NoUnseenOverwrite

-------------------------------------------------------------------------------
(* The table *)

LEMMA NobodyIsNoTab == Nobody \notin Tabs
BY NamesAssumption

\* The table has one version more, e, and keeps the others.
Longer(e) ==
    /\ Latest \in Nat /\ Latest >= 1 /\ Latest' = Latest + 1
    /\ \A v \in 1..Latest : log'[v] = log[v]
    /\ log'[Latest + 1] = e

\* A version that is appended is the latest, and no earlier one changes.
LEMMA Appended ==
    ASSUME Types, NEW e \in Entry, log' = Append(log, e)
    PROVE  log' \in Seq(Entry) /\ log' # <<>> /\ Longer(e)
<1>1. log \in Seq(Entry) /\ log # <<>>
  BY DEF Types
<1>2. Len(log) \in Nat /\ Len(log) >= 1
  BY <1>1
<1>3. log' \in Seq(Entry)
  BY <1>1
<1>4. Len(log') = Len(log) + 1
  BY <1>1
<1>5. \A v \in 1..Len(log) : log'[v] = log[v]
  BY <1>1
<1>6. log'[Len(log) + 1] = e
  BY <1>1
<1>7. log' # <<>>
  BY <1>2, <1>3, <1>4
<1> QED
  BY <1>2, <1>3, <1>4, <1>5, <1>6, <1>7 DEF Latest, Longer

LEMMA LogTypes ==
    ASSUME Types
    PROVE  /\ Latest \in Nat /\ Latest >= 1
           /\ \A v \in 1..Latest : log[v] \in Entry /\ State(v) \in Settings
<1>1. Len(log) \in Nat /\ Len(log) >= 1 /\ \A v \in 1..Len(log) : log[v] \in Entry
  BY DEF Types
<1>2. \A v \in 1..Len(log) : log[v].state \in Settings
  BY <1>1 DEF Entry
<1> QED
  BY <1>1, <1>2 DEF Latest, State

LEMMA NothingAwaited ==
    ASSUME Types
    PROVE  /\ NoRequest \in Request
           /\ NoRequest.kind = "none" /\ NoRequest.stage = "none"
BY LogTypes DEF NoRequest, Request, Settings

\* What a write of the latest version adds to the table overwrites nothing unseen.
LEMMA Overwrites ==
    ASSUME NEW e, Longer(e), NoUnseenOverwrite,
           e.by # Nobody => \/ log[Latest].by = e.by
                            \/ Latest = e.shown
                            \/ e.fetched
    PROVE  NoUnseenOverwrite'
<1> SUFFICES ASSUME NEW v \in 2..Latest', log'[v].by # Nobody
             PROVE  \/ log'[v - 1].by = log'[v].by
                    \/ v - 1 = log'[v].shown
                    \/ log'[v].fetched
  BY DEF NoUnseenOverwrite
<1>1. CASE v \in 2..Latest
  <2>1. v \in 1..Latest /\ v - 1 \in 1..Latest
    BY <1>1 DEF Longer
  <2>2. log'[v] = log[v] /\ log'[v - 1] = log[v - 1]
    BY <2>1 DEF Longer
  <2> QED
    BY <1>1, <2>2 DEF NoUnseenOverwrite
<1>2. CASE v = Latest + 1
  <2>1. v - 1 = Latest /\ Latest \in 1..Latest
    BY <1>2 DEF Longer
  <2>2. log'[v] = e /\ log'[v - 1] = log[Latest]
    BY <1>2, <2>1 DEF Longer
  <2> QED
    BY <2>1, <2>2
<1> QED
  BY <1>1, <1>2 DEF Longer

\* A longer table leaves a write that is under way fenced, and a page knows of its
\* commits what it knew, if the new version is not one it will see answered.
LEMMA FencedLater ==
    ASSUME NEW e, Longer(e), NEW post, Fenced(post)
    PROVE  Fenced(post)'
BY DEF Fenced, Longer

LEMMA KnowsLater ==
    ASSUME NEW e, Longer(e), NEW t, NEW v \in 1..Latest, Knows(t, v),
           e.by = t => e.stray
    PROVE  v \in 1..Latest' /\ State(v)' = State(v) /\ Knows(t, v)'
<1>1. v \in 1..Latest' /\ State(v)' = State(v)
  BY DEF Longer, State
<1>2. ASSUME NEW w \in 1..Latest', log'[w].by = t, ~log'[w].stray
      PROVE  w <= v
  <2>1. w # Latest + 1
    BY <1>2 DEF Longer
  <2>2. w \in 1..Latest /\ log'[w] = log[w]
    BY <2>1 DEF Longer
  <2> QED
    BY <1>2, <2>2 DEF Knows
<1> QED
  BY <1>1, <1>2 DEF Knows

LEMMA SoundLater ==
    ASSUME NEW e, Longer(e), NEW t, NEW q, NEW r, NEW wish,
           Sound(t, q, r, wish), e.by = t => e.stray
    PROVE  Sound(t, q, r, wish)'
<1>1. \A v \in 1..Latest : v \in 1..Latest' /\ State(v)' = State(v) /\ log'[v] = log[v]
  BY DEF Longer, State
<1>2. \A v \in 1..Latest : Knows(t, v) => Knows(t, v)'
  BY KnowsLater
<1>3. r.stage = "sent" /\ Fenced(r) => Fenced(r)'
  BY FencedLater
<1> QED
  BY <1>1, <1>2, <1>3, Zenon DEF Sound

LEMMA SameTable ==
    ASSUME log' = log
    PROVE  /\ Latest' = Latest
           /\ \A v : State(v)' = State(v)
           /\ \A post : Fenced(post)' <=> Fenced(post)
           /\ NoUnseenOverwrite' <=> NoUnseenOverwrite
           /\ \A t, q, r, wish : Sound(t, q, r, wish)' <=> Sound(t, q, r, wish)
<1>1. Latest' = Latest /\ \A v : State(v)' = State(v)
  BY DEF Latest, State
<1>2. \A post : Fenced(post)' <=> Fenced(post)
  BY <1>1 DEF Fenced
<1>3. NoUnseenOverwrite' <=> NoUnseenOverwrite
  BY <1>1 DEF NoUnseenOverwrite
<1>4. \A t, v : Knows(t, v)' <=> Knows(t, v)
  BY <1>1 DEF Knows
<1>5. \A t, q, r, wish : Sound(t, q, r, wish)' <=> Sound(t, q, r, wish)
  <2> TAKE t, q, r, wish
  <2>1. /\ State(q.authority)' = State(q.authority)
        /\ Fenced(r)' <=> Fenced(r)
        /\ Knows(t, q.authority)' <=> Knows(t, q.authority)
        /\ Knows(t, r.version)' <=> Knows(t, r.version)
    BY <1>1, <1>2, <1>4
  <2> QED
    BY <1>1, <2>1 DEF Sound
<1> QED
  BY <1>1, <1>2, <1>3, <1>5

-------------------------------------------------------------------------------
(* The queue of one page *)

Statuses == {"loading", "failed", "idle", "saving", "saved", "recovering", "error"}

\* Page t comes to another sound state and leaves the table alone.
Proceeds(t) ==
    \E wish \in Settings, q \in Queue, r \in Request :
        /\ Goes(t, q, r)
        /\ intent' = [intent EXCEPT ![t] = wish]
        /\ Sound(t, q, r, wish)

LEMMA TabTypes ==
    ASSUME Inv, NEW t \in Tabs
    PROVE  /\ tab[t] \in Queue /\ net[t] \in Request /\ intent[t] \in Settings
           /\ shown[t] \in Nat
           /\ Sound(t, tab[t], net[t], intent[t])
BY DEF Inv, Types

\* A page that proceeds keeps the invariant, whatever it leaves behind.
LEMMA Turn ==
    ASSUME Inv, NEW t \in Tabs, Proceeds(t), log' = log,
           strays' \subseteq Request, \A post \in strays' : Fenced(post),
           shown' \in [Tabs -> Nat], edits' \in Nat, fails' \in Nat
    PROVE  Inv'
<1>1. PICK wish \in Settings, q \in Queue, r \in Request :
        /\ Goes(t, q, r)
        /\ intent' = [intent EXCEPT ![t] = wish]
        /\ Sound(t, q, r, wish)
  BY DEF Proceeds
<1>2. /\ tab' = [tab EXCEPT ![t] = q] /\ net' = [net EXCEPT ![t] = r]
      /\ tab \in [Tabs -> Queue] /\ net \in [Tabs -> Request] /\ intent \in [Tabs -> Settings]
  BY <1>1 DEF Goes, Inv, Types
<1>3. Types'
  <2>1. tab' \in [Tabs -> Queue] /\ net' \in [Tabs -> Request] /\ intent' \in [Tabs -> Settings]
    BY <1>1, <1>2
  <2>2. log' \in Seq(Entry) /\ log' # <<>>
    BY DEF Inv, Types
  <2> QED
    BY <2>1, <2>2 DEF Types
<1>4. ASSUME NEW u \in Tabs
      PROVE  Sound(u, tab'[u], net'[u], intent'[u])
  <2>1. CASE u = t
    BY <1>1, <1>2, <2>1
  <2>2. CASE u # t
    BY <1>1, <1>2, <2>2, TabTypes
  <2> QED
    BY <2>1, <2>2
<1>5. (\A u \in Tabs : Sound(u, tab[u], net[u], intent[u]))'
  BY <1>4, SameTable DEF Sound, Knows, Fenced
<1>6. (\A post \in strays : Fenced(post))' /\ NoUnseenOverwrite'
  BY SameTable DEF Inv, Fenced
<1> QED
  BY <1>3, <1>5, <1>6 DEF Inv

\* An operation ends; a page that is not in error shows what is stored and what its
\* user wants.
LEMMA Finishes ==
    ASSUME Inv, NEW t \in Tabs, NEW q \in Queue, NEW status \in Statuses, NEW wish \in Settings,
           Finish(t, q, status), intent' = [intent EXCEPT ![t] = wish],
           q.authority \in 1..Latest, q.desired = wish,
           ~q.disposed /\ status \notin {"loading", "failed"} =>
              /\ q.desired = State(q.authority)
              /\ ~q.preflight => Knows(t, q.authority)
    PROVE  Proceeds(t)
<1> DEFINE rest == [q EXCEPT !.op = "none", !.status = status, !.flushing = FALSE]
<1>1. Goes(t, rest, NoRequest)
  BY DEF Finish
<1>2. /\ rest \in Queue
      /\ rest.op = "none" /\ rest.status = status /\ ~rest.flushing
      /\ rest.authority = q.authority /\ rest.desired = q.desired
      /\ rest.disposed = q.disposed /\ rest.preflight = q.preflight
  BY DEF Queue, Statuses
<1>3. NoRequest \in Request /\ NoRequest.kind = "none" /\ NoRequest.stage = "none"
  BY NothingAwaited DEF Inv
<1> HIDE DEF rest
<1>4. Sound(t, rest, NoRequest, wish)
  BY <1>2, <1>3 DEF Sound
<1> QED
  BY <1>1, <1>2, <1>3, <1>4 DEF Proceeds

LEMMA FinishesInError ==
    ASSUME Inv, NEW t \in Tabs, NEW q \in Queue, FinishInError(t, q),
           q.authority \in 1..Latest,
           ~q.preflight => Knows(t, q.authority)
    PROVE  Proceeds(t)
<1> DEFINE p == [q EXCEPT !.desired = State(q.authority)]
<1>1. State(q.authority) \in Settings
  BY LogTypes DEF Inv
<1>2. /\ p \in Queue /\ p.desired = State(q.authority)
      /\ p.authority = q.authority /\ p.preflight = q.preflight
  BY <1>1 DEF Queue
<1>3. Finish(t, p, "error") /\ intent' = [intent EXCEPT ![t] = State(q.authority)]
  BY DEF FinishInError
<1> HIDE DEF p
<1> QED
  BY <1>1, <1>2, <1>3, Finishes DEF Statuses

LEMMA BeginsWrite ==
    ASSUME Inv, NEW t \in Tabs, NEW q \in Queue, NEW fetched \in BOOLEAN, NEW wish \in Settings,
           BeginWrite(t, q, fetched), intent' = [intent EXCEPT ![t] = wish],
           shown' \in [Tabs -> Nat], q.authority \in 1..Latest, q.desired = wish,
           \/ fetched
           \/ q.authority = shown'[t]
           \/ log[q.authority].by = t
    PROVE  Proceeds(t)
<1> DEFINE p == [q EXCEPT !.op = "write", !.status = "saving"]
           r == [kind |-> "write", stage |-> "sent", tab |-> t, state |-> q.desired,
                 version |-> q.authority, shown |-> shown'[t], fetched |-> fetched]
<1>1. Goes(t, p, r)
  BY DEF BeginWrite
<1>2. p \in Queue /\ p.op = "write" /\ p.status = "saving"
      /\ p.authority = q.authority /\ p.desired = q.desired
  BY DEF Queue
<1>3. /\ r \in Request /\ r.kind = "write" /\ r.stage = "sent" /\ r.tab = t
      /\ r.version = q.authority /\ r.shown = shown'[t] /\ r.fetched = fetched
  BY LogTypes DEF Request, Queue, Inv
<1> HIDE DEF p, r
<1>4. Fenced(r)
  BY <1>3 DEF Fenced
<1>5. Sound(t, p, r, wish)
  BY <1>2, <1>3, <1>4 DEF Sound
<1> QED
  BY <1>1, <1>2, <1>3, <1>5 DEF Proceeds

LEMMA BeginsRecovery ==
    ASSUME Inv, NEW t \in Tabs, NEW q \in Queue, NEW purpose \in {"reconcile", "preflight"},
           NEW wish \in Settings,
           BeginRecovery(t, q, purpose), intent' = [intent EXCEPT ![t] = wish],
           q.authority \in 1..Latest, q.desired = wish
    PROVE  Proceeds(t)
<1> DEFINE p == [q EXCEPT !.op = purpose, !.status = "recovering"]
           r == [NoRequest EXCEPT !.kind = "read", !.stage = "sent", !.tab = t]
<1>1. Goes(t, p, r)
  BY DEF BeginRecovery
<1>2. p \in Queue /\ p.op = purpose /\ p.status = "recovering"
      /\ p.authority = q.authority /\ p.desired = q.desired
  BY DEF Queue
<1>3. r \in Request /\ r.kind = "read" /\ r.stage = "sent"
  BY NothingAwaited DEF Request, Inv
<1> HIDE DEF p, r
<1>4. Sound(t, p, r, wish)
  BY <1>2, <1>3 DEF Sound
<1> QED
  BY <1>1, <1>2, <1>3, <1>4 DEF Proceeds

LEMMA Unwished ==
    ASSUME Inv, NEW t \in Tabs, UNCHANGED intent
    PROVE  intent' = [intent EXCEPT ![t] = intent[t]] /\ intent[t] \in Settings
BY DEF Inv, Types

LEMMA Continues ==
    ASSUME Inv, NEW t \in Tabs, NEW q \in Queue, NEW fetched \in BOOLEAN,
           Continue(t, q, fetched), shown' \in [Tabs -> Nat],
           q.authority \in 1..Latest, q.desired = intent[t], Knows(t, q.authority),
           fetched \/ log[q.authority].by = t
    PROVE  Proceeds(t)
<1>1. CASE BeginWrite(t, q, fetched) /\ UNCHANGED intent
  BY <1>1, Unwished, BeginsWrite
<1>2. CASE FinishInError(t, q)
  BY <1>2, FinishesInError
<1> QED
  BY <1>1, <1>2 DEF Continue

LEMMA FinishesDisposed ==
    ASSUME Inv, NEW t \in Tabs, tab[t].disposed, FinishDisposed(t), UNCHANGED intent
    PROVE  Proceeds(t)
<1>1. /\ tab[t] \in Queue /\ tab[t].status \in Statuses
      /\ tab[t].authority \in 1..Latest /\ tab[t].desired = intent[t]
  BY TabTypes DEF Queue, Statuses, Sound
<1> QED
  BY <1>1, Unwished, Finishes DEF FinishDisposed

\* The authority of page t becomes v, a version that knows all of its commits.
LEMMA Adopts ==
    ASSUME Inv, NEW t \in Tabs, Answered(t)
    PROVE  LET q == [tab[t] EXCEPT !.authority = net[t].version, !.preflight = FALSE]
           IN  /\ q \in Queue /\ q.authority = net[t].version
               /\ q.desired = intent[t] /\ q.disposed = tab[t].disposed
               /\ net[t].version \in 1..Latest /\ Knows(t, net[t].version)
<1>1. tab[t] \in Queue /\ net[t].version \in Nat
  BY TabTypes DEF Request
<1>2. net[t].version \in 1..Latest /\ Knows(t, net[t].version) /\ tab[t].desired = intent[t]
  BY TabTypes DEF Sound, Answered
<1> QED
  BY <1>1, <1>2 DEF Queue

-------------------------------------------------------------------------------
(* The replies a page receives *)

LEMMA LoadProceeds ==
    ASSUME Inv, NEW t \in Tabs, ReceiveLoad(t)
    PROVE  Proceeds(t)
<1>1. CASE tab[t].disposed
  BY <1>1, FinishesDisposed DEF ReceiveLoad
<1>2. CASE ~tab[t].disposed /\ Answered(t)
  <2> DEFINE v == net[t].version
             q == [tab[t] EXCEPT !.authority = v, !.desired = State(v)]
  <2>1. Finish(t, q, "idle") /\ intent' = [intent EXCEPT ![t] = State(v)]
    BY <1>2 DEF ReceiveLoad
  <2>2. v \in 1..Latest /\ Knows(t, v)
    BY <1>2, Adopts
  <2>3. State(v) \in Settings /\ v \in Nat
    BY <2>2, LogTypes DEF Inv
  <2>4. q \in Queue /\ q.authority = v /\ q.desired = State(v)
    BY <2>3, TabTypes DEF Queue
  <2> HIDE DEF v, q
  <2> QED
    BY <2>1, <2>2, <2>3, <2>4, Finishes DEF Statuses
<1>3. CASE ~tab[t].disposed /\ ~Answered(t)
  <2>1. Finish(t, tab[t], "failed") /\ UNCHANGED intent
    BY <1>3 DEF ReceiveLoad
  <2>2. tab[t] \in Queue /\ tab[t].authority \in 1..Latest /\ tab[t].desired = intent[t]
    BY TabTypes DEF Sound
  <2> QED
    BY <2>1, <2>2, Unwished, Finishes DEF Statuses
<1> QED
  BY <1>1, <1>2, <1>3

LEMMA WriteProceeds ==
    ASSUME Inv, NEW t \in Tabs, ReceiveWrite(t)
    PROVE  Proceeds(t)
<1> DEFINE q == [tab[t] EXCEPT !.authority = net[t].version, !.preflight = FALSE]
<1>0. tab[t].op = "write" /\ shown' \in [Tabs -> Nat]
  BY DEF ReceiveWrite, Inv, Types
<1>1. CASE Answered(t) /\ ~tab[t].disposed /\ State(net[t].version) = net[t].state
  <2>1. Confirmed(t, q)
    BY <1>1 DEF ReceiveWrite
  <2>2. /\ q \in Queue /\ q.authority \in 1..Latest /\ q.desired = intent[t]
        /\ Knows(t, q.authority) /\ q.authority = net[t].version
    BY <1>1, Adopts
  <2>3. log[q.authority].by = t
    BY <1>0, <1>1, <2>2, TabTypes DEF Sound, Answered
  <2> HIDE DEF q
  <2>4. CASE State(q.authority) = q.desired
    <3>1. Finish(t, q, "saved") /\ UNCHANGED intent
      BY <2>1, <2>4 DEF Confirmed
    <3> QED
      BY <2>2, <2>4, <3>1, Unwished, Finishes DEF Statuses
  <2>5. CASE State(q.authority) # q.desired
    BY <1>0, <2>1, <2>2, <2>3, <2>5, Continues DEF Confirmed
  <2> QED
    BY <2>4, <2>5
<1>2. CASE WriteUnknown(t)
  <2>1. CASE tab[t].disposed
    BY <1>2, <2>1, FinishesDisposed DEF WriteUnknown
  <2>2. CASE ~tab[t].disposed
    <3>1. BeginRecovery(t, tab[t], "reconcile") /\ UNCHANGED intent
      BY <1>2, <2>2 DEF WriteUnknown
    <3>2. tab[t] \in Queue /\ tab[t].authority \in 1..Latest /\ tab[t].desired = intent[t]
      BY TabTypes DEF Sound
    <3> QED
      BY <3>1, <3>2, Unwished, BeginsRecovery
  <2> QED
    BY <2>1, <2>2
<1> QED
  BY <1>1, <1>2 DEF ReceiveWrite

LEMMA RecoveryProceeds ==
    ASSUME Inv, NEW t \in Tabs, ReceiveRecovery(t)
    PROVE  Proceeds(t)
<1> DEFINE q == [tab[t] EXCEPT !.authority = net[t].version, !.preflight = FALSE]
           failed == [tab[t] EXCEPT !.preflight = TRUE]
<1>0. shown' \in [Tabs -> Nat] /\ tab[t].op \in {"reconcile", "preflight"}
  BY DEF ReceiveRecovery, Inv, Types
<1>1. CASE tab[t].disposed
  BY <1>1, FinishesDisposed DEF ReceiveRecovery
<1>2. CASE ~tab[t].disposed /\ Answered(t)
  <2>1. Reconciled(t, q) \/ Preflighted(t, q)
    BY <1>0, <1>2 DEF ReceiveRecovery
  <2>2. /\ q \in Queue /\ q.authority \in 1..Latest /\ q.desired = intent[t]
        /\ Knows(t, q.authority)
    BY <1>2, Adopts
  <2> HIDE DEF q
  <2>3. CASE State(q.authority) = q.desired
    <3>1. Finish(t, q, "saved") /\ UNCHANGED intent
      BY <2>1, <2>3 DEF Reconciled, Preflighted
    <3> QED
      BY <2>2, <2>3, <3>1, Unwished, Finishes DEF Statuses
  <2>4. CASE State(q.authority) # q.desired
    <3>1. FinishInError(t, q) \/ Continue(t, q, TRUE)
      BY <2>1, <2>4 DEF Reconciled, Preflighted
    <3> QED
      BY <1>0, <2>2, <3>1, FinishesInError, Continues
  <2> QED
    BY <2>3, <2>4
<1>3. CASE ~tab[t].disposed /\ ~Answered(t)
  <2>1. FinishInError(t, failed)
    BY <1>3 DEF ReceiveRecovery
  <2>2. /\ failed \in Queue /\ failed.preflight
        /\ failed.authority = tab[t].authority
    BY TabTypes DEF Queue
  <2>3. tab[t].authority \in 1..Latest
    BY TabTypes DEF Sound
  <2> HIDE DEF failed
  <2> QED
    BY <2>1, <2>2, <2>3, FinishesInError
<1> QED
  BY <1>1, <1>2, <1>3

-------------------------------------------------------------------------------
(* The user *)

\* A page whose queue changes while it awaits what it awaited.
LEMMA Notes ==
    ASSUME Inv, NEW t \in Tabs, NEW q \in Queue, NEW wish \in Settings,
           tab' = [tab EXCEPT ![t] = q], UNCHANGED net,
           intent' = [intent EXCEPT ![t] = wish], Sound(t, q, net[t], wish)
    PROVE  Proceeds(t)
<1>1. net[t] \in Request /\ net' = [net EXCEPT ![t] = net[t]]
  BY DEF Inv, Types
<1> QED
  BY <1>1 DEF Proceeds, Goes

LEMMA DesireProceeds ==
    ASSUME Inv, NEW t \in Tabs, NEW state \in Settings, Loaded(t), SetDesired(t, state),
           shown' = [shown EXCEPT ![t] = tab[t].authority],
           intent' = [intent EXCEPT ![t] = state]
    PROVE  Proceeds(t)
<1> DEFINE q == [tab[t] EXCEPT !.desired = state]
<1>0. tab[t] \in Queue /\ Sound(t, tab[t], net[t], intent[t])
  BY TabTypes
<1>1. /\ q \in Queue /\ q.desired = state
      /\ q.op = tab[t].op /\ q.authority = tab[t].authority /\ q.flushing = tab[t].flushing
  BY <1>0 DEF Queue
<1>2. tab[t].op \in {"none", "write", "reconcile", "preflight"} /\ q.authority \in 1..Latest
  BY <1>0, <1>1 DEF Queue, Sound, Loaded
<1>3. shown' \in [Tabs -> Nat] /\ shown'[t] = q.authority
  BY <1>0, <1>1 DEF Inv, Types, Queue
<1>4. CASE tab[t].op \in {"write", "reconcile", "preflight"}
  <2>1. PICK status \in Statuses :
          tab' = [tab EXCEPT ![t] = [q EXCEPT !.status = status]] /\ UNCHANGED net
    BY <1>4 DEF SetDesired, Statuses
  <2> DEFINE p == [q EXCEPT !.status = status]
  <2>2. /\ p \in Queue /\ p.desired = state /\ p.op = tab[t].op
        /\ p.authority = tab[t].authority
    BY <1>1, <2>1 DEF Queue, Statuses
  <2>3. tab' = [tab EXCEPT ![t] = p]
    BY <2>1
  <2> HIDE DEF p, q
  <2>4. Sound(t, p, net[t], state)
    BY <1>0, <1>4, <2>2 DEF Sound
  <2> QED
    BY <2>1, <2>2, <2>3, <2>4, Notes
<1>5. CASE tab[t].op = "none"
  <2>1. BeginRecovery(t, q, "preflight") \/ BeginWrite(t, q, FALSE)
    BY <1>5 DEF SetDesired
  <2> HIDE DEF q
  <2> QED
    BY <1>1, <1>2, <1>3, <2>1, BeginsRecovery, BeginsWrite
<1> QED
  BY <1>2, <1>4, <1>5

LEMMA ModelProceeds ==
    ASSUME Inv, NEW t \in Tabs, NEW m \in Options \cup Dated, SetAnalysisModel(t, m)
    PROVE  Proceeds(t)
<1> DEFINE state == [tab[t].desired EXCEPT !.model = m]
<1>1. /\ tab[t] \in Queue /\ tab[t].desired = intent[t]
      /\ intent[t] \in Settings /\ intent \in [Tabs -> Settings]
  BY TabTypes DEF Sound, Inv, Types
<1>2. state \in Settings
  BY <1>1 DEF Settings, Models
<1>3. intent' = [intent EXCEPT ![t] = state]
  BY <1>1 DEF SetAnalysisModel
<1>4. /\ Loaded(t) /\ SetDesired(t, state)
      /\ shown' = [shown EXCEPT ![t] = tab[t].authority]
  BY DEF SetAnalysisModel, Chooses
<1> HIDE DEF state
<1> QED
  BY <1>2, <1>3, <1>4, DesireProceeds

LEMMA EffortProceeds ==
    ASSUME Inv, NEW t \in Tabs, NEW e \in Efforts, SetAnalysisEffort(t, e)
    PROVE  Proceeds(t)
<1> DEFINE state == [tab[t].desired EXCEPT !.effort = e]
<1>1. /\ tab[t] \in Queue /\ tab[t].desired = intent[t]
      /\ intent[t] \in Settings /\ intent \in [Tabs -> Settings]
      /\ Sound(t, tab[t], net[t], intent[t])
  BY TabTypes DEF Sound, Inv, Types
<1>2. Loaded(t) /\ shown' = [shown EXCEPT ![t] = tab[t].authority]
  BY DEF SetAnalysisEffort, Chooses
<1>3. CASE tab[t].desired.model \in Settable
  <2>1. state \in Settings
    BY <1>1 DEF Settings
  <2>2. intent' = [intent EXCEPT ![t] = state] /\ SetDesired(t, state)
    BY <1>1, <1>3 DEF SetAnalysisEffort, Carried
  <2> HIDE DEF state
  <2> QED
    BY <1>2, <2>1, <2>2, DesireProceeds
<1>4. CASE tab[t].desired.model \notin Settable
  <2> DEFINE q == [tab[t] EXCEPT !.status = "error"]
  <2>1. tab' = [tab EXCEPT ![t] = q] /\ UNCHANGED <<net, intent>>
    BY <1>4 DEF SetAnalysisEffort, Carried, Inv, Types
  <2>2. /\ q \in Queue /\ q.status = "error" /\ q.op = tab[t].op
        /\ q.authority = tab[t].authority /\ q.desired = tab[t].desired
        /\ q.flushing = tab[t].flushing /\ q.disposed = tab[t].disposed
        /\ q.preflight = tab[t].preflight
    BY <1>1 DEF Queue
  <2> HIDE DEF q
  <2>3. Sound(t, q, net[t], intent[t])
    BY <1>1, <1>2, <2>2 DEF Sound, Loaded
  <2> QED
    BY <2>1, <2>2, <2>3, Unwished, Notes
<1> QED
  BY <1>3, <1>4

LEMMA FlushProceeds ==
    ASSUME Inv, NEW t \in Tabs, Flush(t)
    PROVE  Proceeds(t)
<1> DEFINE q == [tab[t] EXCEPT !.flushing = TRUE]
<1>1. tab[t] \in Queue /\ Sound(t, tab[t], net[t], intent[t]) /\ tab[t].op # "none"
  BY TabTypes DEF Flush, Busy
<1>2. tab' = [tab EXCEPT ![t] = q] /\ UNCHANGED <<net, intent>>
  BY DEF Flush, Inv, Types
<1>3. /\ q \in Queue /\ q.status = tab[t].status /\ q.op = tab[t].op
      /\ q.authority = tab[t].authority /\ q.desired = tab[t].desired
  BY <1>1 DEF Queue
<1> HIDE DEF q
<1>4. Sound(t, q, net[t], intent[t])
  BY <1>1, <1>3 DEF Sound
<1> QED
  BY <1>2, <1>3, <1>4, Unwished, Notes

LEMMA DisposeProceeds ==
    ASSUME Inv, NEW t \in Tabs, Dispose(t)
    PROVE  Proceeds(t)
<1> DEFINE q == [tab[t] EXCEPT !.disposed = TRUE]
           r == [net[t] EXCEPT !.stage = "failed"]
<1>1. tab[t] \in Queue /\ net[t] \in Request /\ Sound(t, tab[t], net[t], intent[t])
  BY TabTypes
<1>2. tab' = [tab EXCEPT ![t] = q] /\ UNCHANGED intent
  BY DEF Dispose, Inv, Types
<1>3. /\ q \in Queue /\ q.status = tab[t].status /\ q.op = tab[t].op /\ q.disposed
      /\ q.authority = tab[t].authority /\ q.desired = tab[t].desired
      /\ q.flushing = tab[t].flushing
  BY <1>1 DEF Queue
<1>4. r \in Request /\ r.stage = "failed" /\ r.kind = net[t].kind
  BY <1>1 DEF Request
<1>5. CASE net[t].kind = "read"
  <2>1. Goes(t, q, r)
    BY <1>2, <1>5 DEF Dispose, Goes, Inv, Types
  <2> HIDE DEF q, r
  <2>2. Sound(t, q, r, intent[t])
    BY <1>1, <1>3, <1>4, <1>5 DEF Sound
  <2> QED
    BY <1>2, <1>3, <1>4, <2>1, <2>2, Unwished DEF Proceeds
<1>6. CASE net[t].kind # "read"
  <2>1. UNCHANGED net
    BY <1>6 DEF Dispose
  <2> HIDE DEF q
  <2>2. Sound(t, q, net[t], intent[t])
    BY <1>1, <1>3 DEF Sound
  <2> QED
    BY <1>2, <1>3, <2>1, <2>2, Unwished, Notes
<1> QED
  BY <1>5, <1>6

-------------------------------------------------------------------------------
(* The server and the network *)

\* A request that gets an answer, or none, while the table stays as it is.
LEMMA Comes ==
    ASSUME Inv, NEW t \in Tabs, NEW r \in Request,
           net' = [net EXCEPT ![t] = r], UNCHANGED <<tab, intent>>,
           Sound(t, tab[t], r, intent[t])
    PROVE  Proceeds(t)
<1>1. tab[t] \in Queue /\ tab' = [tab EXCEPT ![t] = tab[t]]
  BY DEF Inv, Types
<1> QED
  BY <1>1, Unwished DEF Proceeds, Goes

LEMMA ReadProceeds ==
    ASSUME Inv, NEW t \in Tabs, ServerReads(t)
    PROVE  Proceeds(t)
<1> DEFINE r == [net[t] EXCEPT !.stage = "ok", !.version = Latest]
<1>1. net[t] \in Request /\ Sound(t, tab[t], net[t], intent[t])
  BY TabTypes
<1>2. Latest \in Nat /\ Latest \in 1..Latest
  BY LogTypes DEF Inv
<1>3. r \in Request /\ r.stage = "ok" /\ r.version = Latest /\ r.kind = net[t].kind
  BY <1>1, <1>2 DEF Request
<1>4. net' = [net EXCEPT ![t] = r] /\ UNCHANGED <<tab, intent>>
  BY <1>1 DEF ServerReads, Inv, Types
<1>5. net[t].kind = "read" /\ net[t].stage = "sent"
  BY DEF ServerReads
<1> HIDE DEF r
<1>6. Knows(t, Latest)
  BY <1>2 DEF Knows
<1>7. Sound(t, tab[t], r, intent[t])
  BY <1>1, <1>2, <1>3, <1>5, <1>6 DEF Sound
<1> QED
  BY <1>3, <1>4, <1>7, Comes

\* A request that fails, at the server or on its way.
LEMMA FailProceeds ==
    ASSUME Inv, NEW t \in Tabs, net[t].stage \in {"sent", "ok"},
           net' = [net EXCEPT ![t].stage = "failed"], UNCHANGED <<tab, intent>>
    PROVE  Proceeds(t)
<1> DEFINE r == [net[t] EXCEPT !.stage = "failed"]
<1>1. net[t] \in Request /\ Sound(t, tab[t], net[t], intent[t])
  BY TabTypes
<1>2. /\ r \in Request /\ r.stage = "failed" /\ r.kind = net[t].kind /\ r.tab = net[t].tab
  BY <1>1 DEF Request
<1>3. net' = [net EXCEPT ![t] = r]
  BY DEF Inv, Types
<1> HIDE DEF r
<1>4. Sound(t, tab[t], r, intent[t])
  BY <1>1, <1>2 DEF Sound
<1> QED
  BY <1>2, <1>3, <1>4, Comes

LEMMA FailPreserved ==
    ASSUME Inv, NEW t \in Tabs, RequestFails(t)
    PROVE  Inv'
<1>1. Proceeds(t)
  BY FailProceeds DEF RequestFails
<1>2. strays' \subseteq Request /\ \A post \in strays' : Fenced(post)
  <2>1. strays \subseteq Request /\ \A post \in strays : Fenced(post)
    BY DEF Inv, Types
  <2>2. CASE UNCHANGED strays
    BY <2>1, <2>2
  <2>3. CASE /\ net[t].stage = "sent" /\ net[t].kind = "write"
             /\ strays' = strays \cup {net[t]}
    <3>1. net[t] \in Request /\ Fenced(net[t])
      BY <2>3, TabTypes DEF Sound
    <3> QED
      BY <2>1, <2>3, <3>1
  <2> QED
    BY <2>2, <2>3 DEF RequestFails
<1>3. log' = log /\ shown' \in [Tabs -> Nat] /\ edits' \in Nat /\ fails' \in Nat
  BY DEF RequestFails, Inv, Types
<1> QED
  BY <1>1, <1>2, <1>3, Turn

\* A version is added to the table: what follows for everything but the pages.
LEMMA Grows ==
    ASSUME Inv, NEW e \in Entry, log' = Append(log, e),
           e.by # Nobody => \/ log[Latest].by = e.by
                            \/ Latest = e.shown
                            \/ e.fetched,
           strays' \subseteq strays, net' \in [Tabs -> Request],
           UNCHANGED <<tab, intent, shown, edits, fails>>,
           \A t \in Tabs : Sound(t, tab[t], net[t], intent[t])'
    PROVE  Inv'
<1>1. Longer(e) /\ log' \in Seq(Entry) /\ log' # <<>>
  BY Appended DEF Inv
<1>2. Types'
  BY <1>1 DEF Inv, Types
<1>3. NoUnseenOverwrite'
  BY <1>1, Overwrites DEF Inv
<1>4. (\A post \in strays : Fenced(post))'
  <2> SUFFICES ASSUME NEW post \in strays' PROVE Fenced(post)'
    OBVIOUS
  <2>1. Fenced(post)
    BY DEF Inv
  <2> QED
    BY <1>1, <2>1, FencedLater
<1>5. (\A t \in Tabs : Sound(t, tab[t], net[t], intent[t]))'
  OBVIOUS
<1> QED
  BY <1>2, <1>3, <1>4, <1>5 DEF Inv

\* A version no page awaits is added to the table.
LEMMA Appears ==
    ASSUME Inv, NEW e \in Entry, log' = Append(log, e),
           e.by # Nobody => \/ log[Latest].by = e.by
                            \/ Latest = e.shown
                            \/ e.fetched,
           e.by # Nobody => e.stray,
           strays' \subseteq strays, UNCHANGED <<tab, net, intent, shown, edits, fails>>
    PROVE  Inv'
<1>1. Longer(e)
  BY Appended DEF Inv
<1>2. ASSUME NEW t \in Tabs PROVE Sound(t, tab[t], net[t], intent[t])'
  <2>1. Sound(t, tab[t], net[t], intent[t]) /\ (e.by = t => e.stray)
    BY TabTypes, NobodyIsNoTab
  <2> DEFINE q == tab[t]
             r == net[t]
             wish == intent[t]
  <2>2. q' = q /\ r' = r /\ wish' = wish
    OBVIOUS
  <2>3. \A a, b, c : Sound(t, a, b, c) => Sound(t, a, b, c)'
    BY <1>1, <2>1, SoundLater
  <2> QED
    BY <2>1, <2>2, <2>3 DEF Sound, Knows, Fenced
<1>3. net' \in [Tabs -> Request]
  BY DEF Inv, Types
<1> QED
  BY <1>2, <1>3, Grows

\* What a write of the latest version by a page adds.
LEMMA Posted ==
    ASSUME Inv, NEW post \in Request, Fenced(post), Accepted(post), NEW stray \in BOOLEAN
    PROVE  LET e == Version(post, stray)
           IN  /\ e \in Entry /\ e.by = post.tab /\ e.stray = stray
               /\ \/ log[Latest].by = e.by
                  \/ Latest = e.shown
                  \/ e.fetched
BY DEF Version, Entry, Request, Fenced, Accepted

LEMMA StrayPreserved ==
    ASSUME Inv, NEW post \in strays, StrayArrives(post)
    PROVE  Inv'
<1>1. post \in Request /\ Fenced(post)
  BY DEF Inv, Types
<1>2. strays' \subseteq strays /\ UNCHANGED <<tab, net, intent, shown, edits, fails>>
  BY DEF StrayArrives
<1>3. CASE Accepted(post)
  <2> DEFINE e == Version(post, TRUE)
  <2>1. /\ e \in Entry /\ e.stray
        /\ \/ log[Latest].by = e.by
           \/ Latest = e.shown
           \/ e.fetched
    BY <1>1, <1>3, Posted
  <2>2. log' = Append(log, e)
    BY <1>3 DEF StrayArrives
  <2> HIDE DEF e
  <2> QED
    BY <1>2, <2>1, <2>2, Appears
<1>4. CASE ~Accepted(post)
  <2>1. log' = log
    BY <1>4 DEF StrayArrives
  <2>2. Types'
    BY <1>2, <2>1 DEF Inv, Types
  <2>3. (\A t \in Tabs : Sound(t, tab[t], net[t], intent[t]))'
    BY <1>2, <2>1, SameTable DEF Inv, Sound, Knows, Fenced
  <2>4. (\A p \in strays : Fenced(p))' /\ NoUnseenOverwrite'
    BY <1>2, <2>1, SameTable DEF Inv, Fenced
  <2> QED
    BY <2>2, <2>3, <2>4 DEF Inv
<1> QED
  BY <1>3, <1>4

LEMMA ResetPreserved ==
    ASSUME Inv, Reset
    PROVE  Inv'
<1> DEFINE e == [log[1] EXCEPT !.by = Nobody]
<1>1. log[1] \in Entry
  BY LogTypes DEF Inv
<1>2. e \in Entry /\ e.by = Nobody
  BY <1>1 DEF Entry
<1>3. log' = Append(log, e) /\ UNCHANGED <<tab, net, strays, intent, shown, edits, fails>>
  BY DEF Reset
<1> HIDE DEF e
<1> QED
  BY <1>2, <1>3, Appears

\* The page whose write is accepted knows the version it is answered with, the latest.
LEMMA CommitPreserved ==
    ASSUME Inv, NEW t \in Tabs, ServerWrites(t), Accepted(net[t])
    PROVE  Inv'
<1> DEFINE e == Version(net[t], FALSE)
           r == [net[t] EXCEPT !.stage = "ok", !.version = Latest + 1]
<1>1. /\ net[t] \in Request /\ tab[t] \in Queue /\ Sound(t, tab[t], net[t], intent[t])
      /\ net[t].stage = "sent" /\ net[t].kind = "write"
  BY TabTypes DEF ServerWrites
<1>2. Fenced(net[t]) /\ net[t].tab = t
  BY <1>1 DEF Sound
<1>3. /\ e \in Entry /\ e.by = t
      /\ \/ log[Latest].by = e.by
         \/ Latest = e.shown
         \/ e.fetched
  BY <1>1, <1>2, Posted
<1>4. /\ log' = Append(log, e) /\ net' = [net EXCEPT ![t] = r]
      /\ UNCHANGED <<tab, strays, intent, shown, edits, fails>>
  BY DEF ServerWrites, Inv, Types
<1>5. Latest \in Nat
  BY LogTypes DEF Inv
<1>6. r \in Request
  <2>1. net[t] \in Request /\ Latest + 1 \in Nat
    BY <1>1, <1>5
  <2> QED
    BY <2>1 DEF Request
<1>7. /\ net' \in [Tabs -> Request]
      /\ net'[t].stage = "ok" /\ net'[t].version = Latest + 1
      /\ net'[t].kind = "write" /\ net'[t].tab = t
      /\ \A u \in Tabs : u # t => net'[u] = net[u]
  <2>1. r.stage = "ok" /\ r.version = Latest + 1 /\ r.kind = "write" /\ r.tab = t
    BY <1>1, <1>2 DEF Request
  <2> HIDE DEF r
  <2> QED
    BY <1>4, <1>6, <2>1 DEF Inv, Types
<1> HIDE DEF e, r
<1>8. Longer(e)
  BY <1>3, <1>4, Appended DEF Inv
<1>9. Sound(t, tab[t], net[t], intent[t])'
  <2>1. /\ Latest' \in 1..Latest' /\ log'[Latest'].by = t /\ net'[t].version = Latest'
        /\ tab[t].authority \in 1..Latest'
    BY <1>1, <1>3, <1>7, <1>8 DEF Longer, Sound
  <2>2. Knows(t, net[t].version)'
    BY <2>1, <1>8 DEF Knows, Longer
  <2>3. tab'[t] = tab[t] /\ intent'[t] = intent[t]
    BY <1>4
  <2>4. tab[t].op = "write"
    BY <1>1 DEF Sound
  <2> QED
    BY <1>1, <1>7, <2>1, <2>2, <2>3, <2>4 DEF Sound
<1>10. ASSUME NEW u \in Tabs, u # t PROVE Sound(u, tab[u], net[u], intent[u])'
  <2>1. \A a, b, c : Sound(u, a, b, c) => Sound(u, a, b, c)'
    BY <1>3, <1>8, <1>10, SoundLater
  <2>2. Sound(u, tab[u], net[u], intent[u])
    BY TabTypes
  <2>3. tab'[u] = tab[u] /\ net'[u] = net[u] /\ intent'[u] = intent[u]
    BY <1>4, <1>7, <1>10
  <2> QED
    BY <2>1, <2>2, <2>3 DEF Sound, Knows, Fenced
<1>11. \A u \in Tabs : Sound(u, tab[u], net[u], intent[u])'
  BY <1>9, <1>10
<1> QED
  BY <1>3, <1>4, <1>7, <1>11, Grows

-------------------------------------------------------------------------------
(* Every step *)

LEMMA Initially == Init => Inv
<1> SUFFICES ASSUME Init PROVE Inv
  OBVIOUS
<1>1. PICK s \in Settings :
        /\ log = <<[state |-> s, by |-> Nobody, shown |-> 0,
                    fetched |-> FALSE, stray |-> FALSE]>>
        /\ tab = [t \in Tabs |->
              [authority |-> 1, desired |-> s, op |-> "load", preflight |-> FALSE,
               disposed |-> FALSE, flushing |-> FALSE, status |-> "loading"]]
        /\ net = [t \in Tabs |->
              [kind |-> "read", stage |-> "sent", tab |-> t, state |-> s, version |-> 0,
               shown |-> 0, fetched |-> FALSE]]
        /\ intent = [t \in Tabs |-> s]
  BY DEF Init
<1>2. strays = {} /\ shown = [t \in Tabs |-> 1] /\ edits = 0 /\ fails = 0
  BY DEF Init
<1>3. log \in Seq(Entry) /\ log # <<>> /\ Latest = 1
  BY <1>1 DEF Entry, Latest
<1>4. Types
  <2>1. tab \in [Tabs -> Queue] /\ intent \in [Tabs -> Settings]
    BY <1>1 DEF Queue
  <2>2. net \in [Tabs -> Request]
    BY <1>1 DEF Request
  <2> QED
    BY <1>2, <1>3, <2>1, <2>2 DEF Types
<1>5. \A t \in Tabs : Sound(t, tab[t], net[t], intent[t])
  <2> TAKE t \in Tabs
  <2>1. /\ tab[t].authority = 1 /\ tab[t].op = "load" /\ tab[t].status = "loading"
        /\ ~tab[t].flushing /\ tab[t].desired = intent[t]
        /\ net[t].stage = "sent" /\ net[t].kind = "read"
    BY <1>1
  <2>2. 1 \in 1..Latest
    BY <1>3
  <2> QED
    BY <2>1, <2>2 DEF Sound
<1>6. NoUnseenOverwrite
  BY <1>3 DEF NoUnseenOverwrite
<1> QED
  BY <1>2, <1>4, <1>5, <1>6 DEF Inv

\* A page that receives a reply, or its user, leaves everything but its own part.
LEMMA TurnPreserved ==
    ASSUME Inv, NEW t \in Tabs, Proceeds(t), UNCHANGED <<log, strays>>,
           shown' \in [Tabs -> Nat], edits' \in Nat, fails' \in Nat
    PROVE  Inv'
BY Turn DEF Inv, Types

LEMMA ReceivePreserved ==
    ASSUME Inv, NEW t \in Tabs, Receive(t)
    PROVE  Inv'
<1>1. Proceeds(t)
  BY LoadProceeds, WriteProceeds, RecoveryProceeds DEF Receive
<1>2. UNCHANGED <<log, strays, shown, edits, fails>>
  BY DEF Receive, ReceiveLoad, ReceiveWrite, ReceiveRecovery
<1> QED
  BY <1>1, <1>2, TurnPreserved DEF Inv, Types

LEMMA UserPreserved ==
    ASSUME Inv, NEW t \in Tabs, Proceeds(t), Chooses(t)
    PROVE  Inv'
<1>1. shown' \in [Tabs -> Nat] /\ edits' \in Nat /\ fails' \in Nat /\ UNCHANGED <<log, strays>>
  BY TabTypes DEF Chooses, Inv, Types, Queue
<1> QED
  BY <1>1, TurnPreserved

LEMMA ServerPreserved ==
    ASSUME Inv, NEW t \in Tabs, ServerReads(t) \/ ServerWrites(t)
    PROVE  Inv'
<1>1. CASE ServerReads(t)
  <2>1. UNCHANGED <<log, strays, shown, edits, fails>>
    BY <1>1 DEF ServerReads
  <2> QED
    BY <1>1, <2>1, ReadProceeds, TurnPreserved DEF Inv, Types
<1>2. CASE ServerWrites(t) /\ Accepted(net[t])
  BY <1>2, CommitPreserved
<1>3. CASE ServerWrites(t) /\ ~Accepted(net[t])
  <2>1. /\ net[t].stage = "sent" /\ net' = [net EXCEPT ![t].stage = "failed"]
        /\ UNCHANGED <<tab, intent, log, strays, shown, edits, fails>>
    BY <1>3 DEF ServerWrites
  <2> QED
    BY <2>1, FailProceeds, TurnPreserved DEF Inv, Types
<1> QED
  BY <1>1, <1>2, <1>3

LEMMA Preserved == Inv /\ [Next]_vars => Inv'
<1> SUFFICES ASSUME Inv, [Next]_vars PROVE Inv'
  OBVIOUS
<1>1. CASE Reset
  BY <1>1, ResetPreserved
<1>2. CASE \E post \in strays : StrayArrives(post)
  BY <1>2, StrayPreserved
<1>3. ASSUME NEW t \in Tabs, ServerReads(t) \/ ServerWrites(t)
      PROVE  Inv'
  BY <1>3, ServerPreserved
<1>4. ASSUME NEW t \in Tabs, RequestFails(t)
      PROVE  Inv'
  BY <1>4, FailPreserved
<1>5. ASSUME NEW t \in Tabs, Receive(t)
      PROVE  Inv'
  BY <1>5, ReceivePreserved
<1>6. ASSUME NEW t \in Tabs, Flush(t) \/ Dispose(t)
      PROVE  Inv'
  <2>1. Proceeds(t)
    BY <1>6, FlushProceeds, DisposeProceeds
  <2>2. UNCHANGED <<log, strays, shown, edits, fails>>
    BY <1>6 DEF Flush, Dispose
  <2> QED
    BY <2>1, <2>2, TurnPreserved DEF Inv, Types
<1>7. ASSUME NEW t \in Tabs, NEW m \in Options \cup Dated, SetAnalysisModel(t, m)
      PROVE  Inv'
  BY <1>7, ModelProceeds, UserPreserved DEF SetAnalysisModel
<1>8. ASSUME NEW t \in Tabs, NEW e \in Efforts, SetAnalysisEffort(t, e)
      PROVE  Inv'
  BY <1>8, EffortProceeds, UserPreserved DEF SetAnalysisEffort
<1>9. CASE UNCHANGED vars
  <2>1. UNCHANGED <<log, tab, net, strays, intent, shown, edits, fails>>
    BY <1>9 DEF vars
  <2>2. Types'
    BY <2>1 DEF Inv, Types
  <2>3. (\A t \in Tabs : Sound(t, tab[t], net[t], intent[t]))'
    BY <2>1, SameTable DEF Inv, Sound, Knows, Fenced
  <2>4. (\A p \in strays : Fenced(p))' /\ NoUnseenOverwrite'
    BY <2>1, SameTable DEF Inv, Fenced
  <2> QED
    BY <2>2, <2>3, <2>4 DEF Inv
<1> QED
  BY <1>1, <1>2, <1>3, <1>4, <1>5, <1>6, <1>7, <1>8, <1>9 DEF Next

LEMMA Invariance == Spec => []Inv
BY Initially, Preserved, PTL DEF Spec

-------------------------------------------------------------------------------
(* What follows *)

\* The types of the state; and a page awaits a request exactly while its write
\* queue is busy, on a version the table really went through.
THEOREM TypeCorrect == Spec => []TypeOK
<1>1. Inv => TypeOK
  BY DEF Inv, Types, TypeOK, Sound, Busy
<1> QED
  BY <1>1, Invariance, PTL

\* However its choices, its failed writes and its read-backs interleave, a page at
\* rest that is in no error shows a state the server confirmed, and it is what its
\* user last chose.
THEOREM SettlesAsAsked == Spec => []SettledIsIntent
<1>1. Inv => SettledIsIntent
  BY DEF Inv, Sound, SettledIsIntent, Loaded, Busy
<1> QED
  BY <1>1, Invariance, PTL

\* No page, in any number of them, replaces a version its user had not seen, not even
\* by a request that arrives after its failure: every write is fenced on what was on
\* display, on a version of its own, or on one that was read back for it.
THEOREM OverwritesWhatWasSeen == Spec => []NoUnseenOverwrite
<1>1. Inv => NoUnseenOverwrite
  BY DEF Inv
<1> QED
  BY <1>1, Invariance, PTL

\* A page at rest knows of every one of its commits, however many replies were lost.
THEOREM OutcomesKnown == Spec => []OutcomeKnown
<1>1. Inv => OutcomeKnown
  BY DEF Inv, Sound, Knows, OutcomeKnown, Loaded, Busy
<1> QED
  BY <1>1, Invariance, PTL

\* No way an operation ends leaves a flush promise behind in a queue at rest.
THEOREM FlushesResolved == Spec => []NoFlushStranded
<1>1. Inv => NoFlushStranded
  BY DEF Inv, Sound, NoFlushStranded, Busy
<1> QED
  BY <1>1, Invariance, PTL

===============================================================================
