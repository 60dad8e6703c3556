------------------------------ MODULE ApiCache ------------------------------
(***************************************************************************)
(* The provider response cache of src/src/cache: one row of api_cache, the *)
(* servers that serve it stale while they revalidate it (apiCache.ts), and *)
(* the maintenance sweeps that processes run on the same row when they     *)
(* open the database (maintenance.ts).  Every map of the code is keyed by  *)
(* the cache key and no step mixes two keys, so one row is the whole of    *)
(* what a key can go through.                                              *)
(*                                                                         *)
(* The row is shared; the flag of a withheld refresh and the flights are   *)
(* a process' own.  A server is one thread, so its next step is the rest   *)
(* of the stretch it is in, but every statement commits by itself and      *)
(* other processes come between two of them.  Bodies are model values;     *)
(* Large ones are those at or above COMPRESS_THRESHOLD_BYTES.  Time is in  *)
(* units of the caller's options.                                          *)
(***************************************************************************)
EXTENDS Integers

CONSTANTS
    Servers,    \* processes that serve the cache
    Callers,    \* callers of cachedFetch
    Readers,    \* callers of readCachedResponse, which only look
    Sweepers,   \* processes that run maintainApiCache
    Goods,      \* bodies with data in them
    Empty,      \* a body isEmptyBody accepts
    Bad,        \* a body validateBody rejects
    Large,      \* the bodies at or above the compression threshold
    Blank,      \* the empty bodyJson of a row whose body is in bodyGz
    Torn,       \* a body that does not decode
    None,       \* no value: no row, no blob, no reply, no flight
    Home,       \* the server of each caller and reader
    Ttl,        \* ttlSeconds of each caller and reader
    Ceiling,    \* maxStaleSeconds of each of them
    Margin,     \* PURGE_EXPIRED_MARGIN_SECONDS
    Interval,   \* MIN_INTERVAL_SECONDS between two sweeps
    MaxNow      \* bound on the clock

Clients == Callers \union Readers
Bodies == Goods \union {Empty, Bad}
Time == 0..MaxNow

ASSUME CacheAssumption ==
    /\ Callers \intersect Readers = {}
    /\ Large \subseteq Goods
    /\ {Empty, Bad, Blank, Torn, None} \intersect Goods = {}
    /\ Empty \notin {Bad, Blank, Torn, None} /\ Bad \notin {Blank, Torn, None}
    /\ Blank \notin {Torn, None} /\ Torn # None
    /\ None \notin Callers
    /\ Home \in [Clients -> Servers]
    /\ Ttl \in [Clients -> Nat]
    /\ Ceiling \in [Clients -> Nat]
    /\ Margin \in Nat /\ Interval \in Nat /\ MaxNow \in Nat

VARIABLES
    now,        \* the wall clock; it may be set back
    row,        \* the row of the key, or None
    flagged,    \* per server: the key is in preservedEmptyRefreshes
    refresh,    \* per server: the caller whose options its refresh uses, or None
    miss,       \* per server: the same of its synchronous fetch
    next,       \* per server: the statement that ends the stretch it is in
    waiting,    \* callers that await the synchronous fetch of their server
    reply,      \* what the last step gave to clients, or None
    stamp,      \* settings.cacheMaintenanceLastRunAt, or None
    sweep,      \* each sweeper's next statement and the text it selected
    stored,     \* history: the body and time of the last storeRow of the row
    withheld    \* history, per server: whether the row its last refusal was about
                \* is the one stored last, or another server has replaced it

\* A server that is in no stretch: it may take any step.
Idle == [stmt |-> "none", by |-> None, body |-> None, asked |-> FALSE, raced |-> FALSE]

\* What a step outside the servers leaves alone; it gives nobody a reply.
ServerIdle ==
    /\ reply' = None
    /\ UNCHANGED <<flagged, refresh, miss, next, waiting>>

vars == <<now, row, flagged, refresh, miss, next, waiting, reply, stamp, sweep,
          stored, withheld>>

-----------------------------------------------------------------------------
(* The storage codec and the row *)

Row(b, at, ttl) ==
    IF b \in Large
    THEN [text |-> Blank, gz |-> b, fetched |-> at, ttl |-> ttl]
    ELSE [text |-> b, gz |-> None, fetched |-> at, ttl |-> ttl]

Decoded(r) == IF r.gz # None THEN r.gz ELSE r.text

Rows == [text : Bodies \union {Blank, Torn}, gz : Bodies \union {Torn, None},
         fetched : Time, ttl : {Ttl[c] : c \in Clients}]

\* Bug: the upsert does not set bodyGz.
StoreRowKeepsBlob(old, b, ttl) ==
    [Row(b, now, ttl) EXCEPT
       !.gz = IF old # None /\ b \notin Large THEN old.gz ELSE @]

\* storeRow: the upsert replaces every column, the blob included.
StoreRow(old, b, ttl) == Row(b, now, ttl)

Keep == UNCHANGED <<row, stored, withheld>>

Evict ==
    /\ row' = None
    /\ stored' = None
    /\ UNCHANGED withheld

Age == now - row.fetched

\* A Sourced<T>, or the error of a shared fetch: the server that gives it, and
\* whether it is stale and says that an empty refresh was withheld.
Sourced(s, stale, tag) == [from |-> s, stale |-> stale, tag |-> tag]

Replies == [from : Servers, stale : BOOLEAN, tag : BOOLEAN]

-----------------------------------------------------------------------------
Init ==
    /\ now = 0
    /\ \E t \in {Ttl[c] : c \in Clients} :
         row \in {None, Row(Empty, 0, t)}
                 \* rows an older release wrote, plain and unvalidated
                 \union [text : Goods \union {Bad}, gz : {None}, fetched : {0}, ttl : {t}]
    /\ flagged = [s \in Servers |-> FALSE]
    /\ refresh = [s \in Servers |-> None]
    /\ miss = [s \in Servers |-> None]
    /\ next = [s \in Servers |-> Idle]
    /\ waiting = {}
    /\ reply = None
    /\ stamp = None
    /\ sweep = [p \in Sweepers |-> [pc |-> "off", text |-> None]]
    /\ stored = IF row = None THEN None ELSE [body |-> Decoded(row), fetched |-> 0]
    /\ withheld = [s \in Servers |-> "none"]

-----------------------------------------------------------------------------
(* cachedFetch.  The row that is read decides between a reply, a reply with  *)
(* a background refresh, and the fetch all the waiting callers share.        *)

\* fetchStoreReturnOnce: join the server's flight of the key, or start it.
Join(s, c) ==
    /\ miss' = [miss EXCEPT ![s] = IF @ = None THEN c ELSE @]
    /\ waiting' = waiting \union {c}
    /\ reply' = None
    /\ UNCHANGED refresh

Give(r) == reply' = r /\ UNCHANGED <<miss, waiting>>

Readable == row # None /\ Decoded(row) # Torn /\ Decoded(row) # Bad

Missed(s, c) ==
    /\ row = None
    /\ flagged' = [flagged EXCEPT ![s] = FALSE]
    /\ Join(s, c) /\ Keep
    /\ UNCHANGED next

\* An undecodable or a rejected row is to be dropped.
Unreadable(s, c) ==
    /\ row # None /\ Decoded(row) \in {Torn, Bad}
    /\ next' = [next EXCEPT ![s] = [Idle EXCEPT !.stmt = "delete", !.by = c]]
    /\ reply' = None
    /\ Keep /\ UNCHANGED <<flagged, refresh, miss, waiting>>

FreshHit(s, c) ==
    /\ Readable /\ 0 <= Age /\ Age <= Ttl[c]
    /\ Give(Sourced(s, FALSE, FALSE))
    /\ Keep /\ UNCHANGED <<flagged, refresh, next>>

StaleHit(s, c) ==
    /\ Readable /\ Ttl[c] < Age /\ Age <= Ttl[c] + Ceiling[c]
    /\ Give(Sourced(s, TRUE, flagged[s]))
    /\ refresh' = [refresh EXCEPT ![s] = IF @ = None THEN c ELSE @]
    /\ Keep /\ UNCHANGED <<flagged, next>>

\* A row from the future, or one beyond the hard ceiling, establishes nothing.
Unusable(s, c) ==
    /\ Readable /\ Age \notin 0..(Ttl[c] + Ceiling[c])
    /\ Join(s, c) /\ Keep /\ UNCHANGED <<flagged, next>>

CachedFetch(s, c) ==
    /\ s = Home[c] /\ next[s] = Idle
    /\ c \notin waiting
    /\ \/ Missed(s, c) \/ Unreadable(s, c) \/ Unusable(s, c)
       \/ FreshHit(s, c) \/ StaleHit(s, c)
    /\ UNCHANGED <<now, stamp, sweep>>

\* The DELETE of the key, whatever its row holds by now, and the fetch after it.
Healed(s) ==
    /\ next[s].stmt = "delete"
    /\ next' = [next EXCEPT ![s] = Idle]
    /\ Evict /\ Join(s, next[s].by)
    /\ UNCHANGED <<now, flagged, stamp, sweep>>

\* readCachedResponse: an eligible row, else nothing, and no side effect.
ReadCached(s, c) ==
    /\ s = Home[c] /\ next[s] = Idle
    /\ Readable /\ 0 <= Age /\ Age <= Ttl[c] + Ceiling[c]
    /\ reply' = Sourced(s, Age > Ttl[c], flagged[s])
    /\ UNCHANGED <<now, row, flagged, refresh, miss, next, waiting, stamp, sweep,
                   stored, withheld>>

-----------------------------------------------------------------------------
(* The provider answers, or the transport fails *)

\* Bug: no row is worth keeping.
PreservesNothing(b) == FALSE

\* existingRowToPreserve
Preserves(b) ==
    b = Empty /\ row # None /\ Decoded(row) \notin {Torn, Empty}

\* A body is ready for the upsert; the row is still the old one.
Writes(s, by, b, asked) ==
    /\ next' = [next EXCEPT ![s] =
                  [stmt |-> "upsert", by |-> by, body |-> b, asked |-> asked,
                   raced |-> FALSE]]
    /\ Keep

Unflag(s) == flagged' = [flagged EXCEPT ![s] = FALSE]

\* The continuation of the background refresh: its failure is swallowed.
RefreshKeeps(s, b) ==
    /\ Preserves(b)
    /\ flagged' = [flagged EXCEPT ![s] = TRUE]
    /\ withheld' = [withheld EXCEPT ![s] = "present"]
    /\ UNCHANGED <<row, next, stored>>

\* Bug: a refresh that stores a body leaves the key flagged.
RefreshStoresFlagged(s, b) ==
    /\ b \notin {None, Bad} /\ ~Preserves(b)
    /\ Writes(s, refresh[s], b, FALSE)
    /\ UNCHANGED flagged

RefreshStores(s, b) ==
    /\ b \notin {None, Bad} /\ ~Preserves(b)
    /\ Unflag(s)
    /\ Writes(s, refresh[s], b, FALSE)

RefreshFails(s, b) == b \in {None, Bad} /\ Keep /\ UNCHANGED <<flagged, next>>

SettleRefresh(s, b) ==
    /\ refresh[s] # None /\ next[s] = Idle
    /\ RefreshKeeps(s, b) \/ RefreshStores(s, b) \/ RefreshFails(s, b)
    /\ refresh' = [refresh EXCEPT ![s] = None]
    /\ reply' = None
    /\ UNCHANGED <<now, miss, waiting, stamp, sweep>>

\* The shared fetch of s is over: its callers have one result, or one error.
Answer(s) ==
    /\ reply' = Sourced(s, FALSE, FALSE)
    /\ waiting' = {c \in waiting : Home[c] # s}
    /\ miss' = [miss EXCEPT ![s] = None]

\* The continuation of the shared fetch: its body is authoritative.
SettleMiss(s, b) ==
    /\ miss[s] # None /\ next[s] = Idle
    /\ IF b \in {None, Bad}
       THEN Answer(s) /\ Keep /\ UNCHANGED <<flagged, next>>
       ELSE /\ Unflag(s) /\ Writes(s, miss[s], b, TRUE)
            /\ reply' = None
            /\ UNCHANGED <<miss, waiting>>
    /\ UNCHANGED <<now, refresh, stamp, sweep>>

\* What a store of s makes of the row that a server's last refusal was about,
\* and of the upsert another server is about to run.
Replaced(s, t) ==
    IF t = s \/ withheld[t] = "none" THEN "none" ELSE "replaced"
Overtaken(s, t) ==
    IF t = s THEN Idle
    ELSE IF next[t].stmt = "upsert" THEN [next[t] EXCEPT !.raced = TRUE] ELSE next[t]

\* The upsert of storeRow, which also ends the flight it belongs to.  Its wait
\* for a lock is shorter than a unit of time: the row bears the time it is run.
Upsert(s) ==
    /\ next[s].stmt = "upsert"
    /\ row' = StoreRow(row, next[s].body, Ttl[next[s].by])
    /\ stored' = [body |-> next[s].body, fetched |-> now]
    /\ withheld' = [t \in Servers |-> Replaced(s, t)]
    /\ next' = [t \in Servers |-> Overtaken(s, t)]
    /\ IF next[s].asked THEN Answer(s)
                        ELSE reply' = None /\ UNCHANGED <<miss, waiting>>
    /\ UNCHANGED <<now, flagged, refresh, stamp, sweep>>

\* The upsert throws (a busy database, a full disk): the flight fails.
UpsertThrows(s) ==
    /\ next[s].stmt = "upsert"
    /\ next' = [next EXCEPT ![s] = Idle]
    /\ IF next[s].asked THEN Answer(s)
                        ELSE reply' = None /\ UNCHANGED <<miss, waiting>>
    /\ Keep /\ UNCHANGED <<now, flagged, refresh, stamp, sweep>>

Server(s) ==
    \/ Healed(s) \/ Upsert(s) \/ UpsertThrows(s)
    \/ \E c \in Callers : CachedFetch(s, c)
    \/ \E c \in Readers : ReadCached(s, c)
    \/ \E b \in Bodies \union {None} : SettleRefresh(s, b) \/ SettleMiss(s, b)

-----------------------------------------------------------------------------
(* maintainApiCache, one statement at a time *)

Goto(p, pc, text) == sweep' = [sweep EXCEPT ![p] = [pc |-> pc, text |-> text]]

\* The guard on the last completed sweep, and the SELECT of the plain rows.
SweepSelect(p) ==
    /\ sweep[p].pc = "off"
    /\ stamp # None => now - stamp >= Interval
    /\ IF row # None /\ row.gz = None /\ row.text \in Large
       THEN Goto(p, "compress", row.text) ELSE Goto(p, "purge", None)
    /\ ServerIdle /\ UNCHANGED <<now, row, stamp, stored, withheld>>

\* Bug: bodyJson is set to NULL when the body moves into the blob.
CompressToNull(r, text) ==
    IF r # None /\ r.gz = None /\ r.text = text
    THEN [r EXCEPT !.text = None, !.gz = text] ELSE r

\* The UPDATE is conditional on the text that was selected.
Compress(r, text) ==
    IF r # None /\ r.gz = None /\ r.text = text
    THEN [r EXCEPT !.text = Blank, !.gz = text] ELSE r

SweepCompress(p) ==
    /\ sweep[p].pc = "compress"
    /\ row' = Compress(row, sweep[p].text)
    /\ Goto(p, "purge", None)
    /\ ServerIdle /\ UNCHANGED <<now, stamp, stored, withheld>>

Expired(r) == now - r.fetched > r.ttl + Margin

SweepPurge(p) ==
    /\ sweep[p].pc = "purge"
    /\ IF row # None /\ Expired(row) THEN Evict ELSE Keep
    /\ Goto(p, "stamp", None)
    /\ ServerIdle /\ UNCHANGED <<now, stamp>>

SweepStamp(p) ==
    /\ sweep[p].pc = "stamp"
    /\ stamp' = now
    /\ Goto(p, "off", None)
    /\ ServerIdle /\ UNCHANGED <<now, row, stored, withheld>>

Sweep(p) == SweepSelect(p) \/ SweepCompress(p) \/ SweepPurge(p) \/ SweepStamp(p)

\* invalidate and purgeOlderThan, the housekeeping entry points.
Invalidate ==
    /\ row # None
    /\ Evict
    /\ ServerIdle /\ UNCHANGED <<now, stamp, sweep>>

-----------------------------------------------------------------------------
(* The environment: time passes or is set back, a stored body is damaged *)

Tick == now < MaxNow /\ now' = now + 1
SetBack == now > 0 /\ now' = now - 1
Clock ==
    /\ Tick \/ SetBack
    /\ ServerIdle /\ UNCHANGED <<row, stamp, sweep, stored, withheld>>

Damage ==
    /\ row # None
    /\ row' = IF row.gz # None THEN [row EXCEPT !.gz = Torn] ELSE [row EXCEPT !.text = Torn]
    /\ ServerIdle /\ UNCHANGED <<now, stamp, sweep, stored, withheld>>

Next ==
    \/ \E s \in Servers : Server(s)
    \/ \E p \in Sweepers : Sweep(p)
    \/ Invalidate \/ Clock \/ Damage

Spec == Init /\ [][Next]_vars

-----------------------------------------------------------------------------
Statements ==
    {Idle}
    \union [stmt : {"delete"}, by : Callers, body : {None},
            asked : {FALSE}, raced : {FALSE}]
    \union [stmt : {"upsert"}, by : Callers, body : Bodies,
            asked : BOOLEAN, raced : BOOLEAN]

TypeOK ==
    /\ now \in Time
    /\ row \in Rows \union {None}
    /\ flagged \in [Servers -> BOOLEAN]
    /\ withheld \in [Servers -> {"none", "present", "replaced"}]
    /\ refresh \in [Servers -> Callers \union {None}]
    /\ miss \in [Servers -> Callers \union {None}]
    /\ next \in [Servers -> Statements]
    /\ waiting \subseteq Callers
    /\ reply \in Replies \union {None}
    /\ stamp \in Time \union {None}
    /\ sweep \in [Sweepers -> [pc : {"off", "compress", "purge", "stamp"},
                               text : Large \union {None}]]
    /\ stored \in [body : Bodies, fetched : Time] \union {None}

\* A row that decodes holds the body of the last store under the time of that
\* store: no sweep writes a body it read earlier over a fresher row, and no
\* blob of an earlier body shadows a smaller one that replaced it.
RowIsLastStore ==
    row # None /\ Decoded(row) # Torn =>
        stored = [body |-> Decoded(row), fetched |-> row.fetched]

\* A server flags a key only while the row stored last is one that server
\* withheld an empty refresh from, or one another server has stored since: a
\* reply never explains its age by a refusal its own server has stored over.
\* The exception is the code's: preservedEmptyRefreshes is a process' own set.
FlagIsTrue ==
    /\ \A s \in Servers : flagged[s] => withheld[s] \in {"present", "replaced"}
    /\ reply # None /\ reply.tag => withheld[reply.from] \in {"present", "replaced"}

HoldsGood(r) == r # None /\ Decoded(r) \in Goods

\* A row with data gives way to an empty body only when a caller that could
\* not use the row it read asked for one, or when another server stored that
\* row between existingRowToPreserve's SELECT and the upsert: a background
\* refresh never erases data that was there when it looked.
EmptyOnlyForWaiter ==
    [][HoldsGood(row) /\ row' # None /\ Decoded(row') = Empty =>
         \E s \in Servers :
           /\ next[s].stmt = "upsert" /\ next'[s] = Idle
           /\ next[s].asked \/ next[s].raced]_vars
=============================================================================
