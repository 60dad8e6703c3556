--------------------------- MODULE ApiCache_proofs ---------------------------
(***************************************************************************)
(* What ApiCache keeps for every number of servers, callers, readers and   *)
(* sweeping processes, every set of bodies and all lifetimes.              *)
(***************************************************************************)
EXTENDS ApiCache, TLAPS

\* A plain row has its body in text, a sweep that is about to compress
\* remembers the body it selected, and a server that is about to store has
\* taken its flag back.
Shape ==
    /\ row # None /\ row.gz = None => row.text # Blank
    /\ \A s \in Servers : next[s].stmt = "upsert" => flagged[s] = FALSE
    /\ \A p \in Sweepers : sweep[p].pc = "compress" => sweep[p].text # None

Inv == TypeOK /\ Shape

-----------------------------------------------------------------------------
(* The codec *)

\* What storeRow writes is a row, and it decodes to the body it was given.
LEMMA StoredRow ==
    ASSUME NEW b \in Bodies, NEW at \in Time, NEW c \in Clients
    PROVE  /\ Row(b, at, Ttl[c]) \in Rows
           /\ Row(b, at, Ttl[c]).gz = None => Row(b, at, Ttl[c]).text # Blank
           /\ Row(b, at, Ttl[c]).fetched = at
           /\ Decoded(Row(b, at, Ttl[c])) = b
    BY CacheAssumption DEF Row, Rows, Decoded, Bodies

\* A row that decodes gives a body.
LEMMA DecodedBody ==
    ASSUME row \in Rows, row.gz = None => row.text # Blank, Decoded(row) # Torn
    PROVE  Decoded(row) \in Bodies
    BY CacheAssumption DEF Rows, Decoded

\* Compressing a row leaves what it decodes to, and its time.
LEMMA CompressedRow ==
    ASSUME NEW r \in Rows, NEW text \in Large
    PROVE  /\ Compress(r, text) \in Rows
           /\ (r.gz = None => r.text # Blank) =>
                 (Compress(r, text).gz = None => Compress(r, text).text # Blank)
           /\ Decoded(Compress(r, text)) = Decoded(r)
           /\ Compress(r, text).fetched = r.fetched
    BY CacheAssumption DEF Compress, Rows, Decoded, Bodies

LEMMA CompressNothing ==
    ASSUME NEW text PROVE Compress(None, text) = None
    BY DEF Compress

\* Damage leaves a row that does not decode.
LEMMA DamagedRow ==
    ASSUME row \in Rows, Damage, row.gz = None => row.text # Blank
    PROVE  /\ row' \in Rows
           /\ row'.gz = None => row'.text # Blank
           /\ Decoded(row') = Torn
    BY CacheAssumption DEF Damage, Rows, Decoded

-----------------------------------------------------------------------------
(* Types *)

\* A reply of a server, whatever it says of its age.
LEMMA SourcedReply ==
    ASSUME NEW s \in Servers, NEW stale \in BOOLEAN, NEW tag \in BOOLEAN
    PROVE  Sourced(s, stale, tag) \in Replies
    BY DEF Sourced, Replies

\* A server that is about to store has a body and a caller's options for it.
LEMMA UpsertStatement ==
    ASSUME NEW n \in Statements, n.stmt = "upsert"
    PROVE  /\ n.body \in Bodies /\ n.by \in Clients /\ n.by \in Callers
           /\ n.asked \in BOOLEAN /\ n.raced \in BOOLEAN
           /\ [n EXCEPT !.raced = TRUE] \in Statements
  <1>1. n # Idle BY DEF Idle
  <1>2. n \in [stmt : {"upsert"}, by : Callers, body : Bodies,
               asked : BOOLEAN, raced : BOOLEAN]
    BY <1>1 DEF Statements
  <1>3. [n EXCEPT !.raced = TRUE] \in [stmt : {"upsert"}, by : Callers, body : Bodies,
               asked : BOOLEAN, raced : BOOLEAN]
    BY <1>2
  <1> QED BY <1>2, <1>3 DEF Statements, Clients

\* The statements of the other servers stay statements when one stores.
LEMMA OvertakenStatement ==
    ASSUME Inv, NEW s \in Servers, NEW t \in Servers
    PROVE  /\ Overtaken(s, t) \in Statements
           /\ Overtaken(s, t).stmt = "upsert" =>
                 /\ t # s /\ next[t].stmt = "upsert"
                 /\ Overtaken(s, t) = [next[t] EXCEPT !.raced = TRUE]
  <1>1. next[t] \in Statements BY DEF Inv, TypeOK
  <1>2. CASE t = s
    BY <1>2 DEF Overtaken, Idle, Statements
  <1>3. CASE t # s /\ next[t].stmt = "upsert"
    <2>1. Overtaken(s, t) = [next[t] EXCEPT !.raced = TRUE]
      BY <1>3 DEF Overtaken
    <2> QED BY <1>1, <1>3, <2>1, UpsertStatement
  <1>4. CASE t # s /\ next[t].stmt # "upsert"
    <2>1. Overtaken(s, t) = next[t] BY <1>4 DEF Overtaken
    <2> QED BY <1>1, <1>4, <2>1
  <1> QED BY <1>2, <1>3, <1>4

\* An upsert writes a row that decodes to its body, under the present time.
LEMMA UpsertTyped ==
    ASSUME Inv, NEW s \in Servers, Upsert(s)
    PROVE  /\ next[s].body \in Bodies /\ next[s].by \in Clients
           /\ row' = Row(next[s].body, now, Ttl[next[s].by]) /\ row' \in Rows
           /\ stored' \in [body : Bodies, fetched : Time]
           /\ row'.gz = None => row'.text # Blank
           /\ Decoded(row') = next[s].body /\ row'.fetched = now
  <1>1. now \in Time /\ next[s] \in Statements BY DEF Inv, TypeOK
  <1>2. next[s].stmt = "upsert" /\ next[s].body \in Bodies /\ next[s].by \in Clients
    BY <1>1, UpsertStatement DEF Upsert
  <1>3. row' = Row(next[s].body, now, Ttl[next[s].by]) BY DEF Upsert, StoreRow
  <1>4. /\ row' \in Rows /\ (row'.gz = None => row'.text # Blank)
        /\ Decoded(row') = next[s].body /\ row'.fetched = now
    BY <1>1, <1>2, <1>3, StoredRow
  <1>5. stored' \in [body : Bodies, fetched : Time] BY <1>1, <1>2 DEF Upsert
  <1> QED BY <1>2, <1>3, <1>4, <1>5

LEMMA InvInit == Init => Inv
  <1> SUFFICES ASSUME Init PROVE Inv OBVIOUS
  <1>1. PICK t \in {Ttl[c] : c \in Clients} :
          row \in {None, Row(Empty, 0, t)}
            \union [text : Goods \union {Bad}, gz : {None}, fetched : {0}, ttl : {t}]
    BY DEF Init
  <1>2. 0 \in Time /\ now = 0 BY CacheAssumption DEF Time, Init
  <1>3. Row(Empty, 0, t) = [text |-> Empty, gz |-> None, fetched |-> 0, ttl |-> t]
    BY CacheAssumption DEF Row
  <1>4. row \in Rows \union {None} /\ (row # None /\ row.gz = None => row.text # Blank)
    BY <1>1, <1>2, <1>3, CacheAssumption DEF Rows, Bodies
  <1>5. row # None => Decoded(row) \in Bodies
    BY <1>1, <1>3, CacheAssumption DEF Decoded, Bodies
  <1>6. next \in [Servers -> Statements] /\ \A s \in Servers : next[s].stmt # "upsert"
    BY DEF Init, Statements, Idle
  <1> QED BY <1>2, <1>4, <1>5, <1>6 DEF Inv, Shape, TypeOK, Init

\* The steps of a server on its flights leave the row and the sweeps alone.
LEMMA CallStep ==
    ASSUME Inv, NEW s \in Servers, NEW c \in Callers, CachedFetch(s, c)
    PROVE  Inv'
  <1> USE DEF Inv
  <1>1. c \in Clients /\ c # None BY CacheAssumption DEF Clients
  <1>2. CASE Missed(s, c)
    BY <1>1, <1>2 DEF CachedFetch, Missed, Join, Keep, TypeOK, Shape
  <1>3. CASE Unreadable(s, c)
    <2>1. [Idle EXCEPT !.stmt = "delete", !.by = c] \in Statements
      BY DEF Idle, Statements
    <2>2. next' = [next EXCEPT ![s] = [Idle EXCEPT !.stmt = "delete", !.by = c]]
      BY <1>3 DEF Unreadable
    <2>3. next' \in [Servers -> Statements] BY <2>1, <2>2 DEF TypeOK
    <2>4. next'[s].stmt = "delete" BY <2>2 DEF TypeOK, Idle
    <2>5. \A t \in Servers : next'[t].stmt = "upsert" => next[t].stmt = "upsert"
      BY <2>2, <2>4 DEF TypeOK
    <2> QED BY <1>3, <2>3, <2>5 DEF CachedFetch, Unreadable, Keep, TypeOK, Shape
  <1>4. CASE Unusable(s, c)
    BY <1>1, <1>4 DEF CachedFetch, Unusable, Join, Keep, TypeOK, Shape
  <1>5. CASE FreshHit(s, c)
    <2>1. reply' \in Replies
      BY <1>5, SourcedReply DEF FreshHit, Give
    <2> QED BY <1>5, <2>1 DEF CachedFetch, FreshHit, Give, Keep, TypeOK, Shape
  <1>6. CASE StaleHit(s, c)
    <2>1. reply' \in Replies
      BY <1>6, SourcedReply DEF StaleHit, Give, TypeOK
    <2> QED BY <1>6, <2>1 DEF CachedFetch, StaleHit, Give, Keep, TypeOK, Shape
  <1> QED BY <1>2, <1>3, <1>4, <1>5, <1>6 DEF CachedFetch

LEMMA ReadStep ==
    ASSUME Inv, NEW s \in Servers, NEW c \in Readers, ReadCached(s, c)
    PROVE  Inv'
  <1> USE DEF Inv
  <1>1. reply' \in Replies
    <2>1. (Age > Ttl[c]) \in BOOLEAN /\ flagged[s] \in BOOLEAN BY DEF TypeOK
    <2> QED BY <2>1, SourcedReply DEF ReadCached
  <1> QED BY <1>1 DEF ReadCached, TypeOK, Shape

\* A server that is about to store has unflagged the key.
LEMMA WritesTyped ==
    ASSUME Inv, NEW s \in Servers, NEW c \in Callers, NEW b \in Bodies, NEW asked \in BOOLEAN,
           Writes(s, c, b, asked), Unflag(s)
    PROVE  /\ next' \in [Servers -> Statements]
           /\ flagged' \in [Servers -> BOOLEAN]
           /\ \A t \in Servers : next'[t].stmt = "upsert" => flagged'[t] = FALSE
  <1> DEFINE n == [stmt |-> "upsert", by |-> c, body |-> b, asked |-> asked, raced |-> FALSE]
  <1>1. next' = [next EXCEPT ![s] = n] BY DEF Writes
  <1>2. n \in Statements BY DEF Statements
  <1> HIDE DEF n
  <1>3. next \in [Servers -> Statements] /\ flagged \in [Servers -> BOOLEAN]
    BY DEF Inv, TypeOK
  <1>4. \A t \in Servers : next[t].stmt = "upsert" => flagged[t] = FALSE
    BY DEF Inv, Shape
  <1> QED BY <1>1, <1>2, <1>3, <1>4 DEF Unflag

LEMMA SettleStep ==
    ASSUME Inv, NEW s \in Servers, NEW b \in Bodies \union {None},
           SettleRefresh(s, b) \/ SettleMiss(s, b)
    PROVE  Inv'
  <1> USE DEF Inv
  <1>1. CASE SettleRefresh(s, b)
    <2>1. refresh[s] \in Callers BY <1>1 DEF SettleRefresh, TypeOK
    <2>2. CASE RefreshKeeps(s, b)
      <3>1. next[s].stmt # "upsert" BY <1>1 DEF SettleRefresh, Idle
      <3> QED BY <1>1, <2>2, <3>1 DEF SettleRefresh, RefreshKeeps, TypeOK, Shape
    <2>3. CASE RefreshStores(s, b)
      <3>1. b \in Bodies /\ Writes(s, refresh[s], b, FALSE) /\ Unflag(s)
        BY <2>3 DEF RefreshStores
      <3>2. /\ next' \in [Servers -> Statements]
            /\ flagged' \in [Servers -> BOOLEAN]
            /\ \A t \in Servers : next'[t].stmt = "upsert" => flagged'[t] = FALSE
        BY <2>1, <3>1, WritesTyped
      <3>3. UNCHANGED <<row, stored, withheld>> BY <3>1 DEF Writes, Keep
      <3> QED BY <1>1, <3>2, <3>3 DEF SettleRefresh, TypeOK, Shape
    <2>4. CASE RefreshFails(s, b)
      BY <1>1, <2>4 DEF SettleRefresh, RefreshFails, Keep, TypeOK, Shape
    <2> QED BY <1>1, <2>2, <2>3, <2>4 DEF SettleRefresh
  <1>2. CASE SettleMiss(s, b)
    <2>1. miss[s] \in Callers BY <1>2 DEF SettleMiss, TypeOK
    <2>2. CASE b \in {None, Bad}
      <3>1. Answer(s) /\ Keep /\ UNCHANGED <<flagged, next>> BY <1>2, <2>2 DEF SettleMiss
      <3>2. reply' \in Replies BY <3>1, SourcedReply DEF Answer
      <3> QED BY <1>2, <3>1, <3>2 DEF SettleMiss, Answer, Keep, TypeOK, Shape
    <2>3. CASE b \notin {None, Bad}
      <3>1. b \in Bodies /\ Writes(s, miss[s], b, TRUE) /\ Unflag(s)
            /\ reply' = None /\ UNCHANGED <<miss, waiting>>
        BY <1>2, <2>3 DEF SettleMiss
      <3>2. /\ next' \in [Servers -> Statements]
            /\ flagged' \in [Servers -> BOOLEAN]
            /\ \A t \in Servers : next'[t].stmt = "upsert" => flagged'[t] = FALSE
        BY <2>1, <3>1, WritesTyped
      <3>3. UNCHANGED <<row, stored, withheld>> BY <3>1 DEF Writes, Keep
      <3> QED BY <1>2, <3>1, <3>2, <3>3 DEF SettleMiss, TypeOK, Shape
    <2> QED BY <2>2, <2>3
  <1> QED BY <1>1, <1>2

LEMMA StatementStep ==
    ASSUME Inv, NEW s \in Servers, Healed(s) \/ Upsert(s) \/ UpsertThrows(s)
    PROVE  Inv'
  <1> USE DEF Inv
  <1>1. Idle \in Statements /\ Idle.stmt = "none" BY DEF Statements, Idle
  <1>2. CASE Healed(s)
    <2>1. next[s].stmt = "delete" /\ next[s] \in Statements BY <1>2 DEF Healed, TypeOK
    <2>2. next[s].by \in Callers
      <3>1. next[s] # Idle BY <2>1 DEF Idle
      <3>2. next[s].stmt # "upsert" BY <2>1
      <3> QED BY <2>1, <3>1, <3>2 DEF Statements
    <2>3. /\ next' = [next EXCEPT ![s] = Idle]
          /\ row' = None /\ stored' = None /\ withheld' = withheld
          /\ UNCHANGED <<now, flagged, stamp, sweep, refresh>>
      BY <1>2 DEF Healed, Evict, Join
    <2>4. next' \in [Servers -> Statements]
      BY <1>1, <2>3 DEF TypeOK
    <2>5. \A t \in Servers : next'[t].stmt = "upsert" => next[t].stmt = "upsert"
      BY <1>1, <2>3 DEF TypeOK
    <2>6. reply' = None /\ waiting' \subseteq Callers /\ miss' \in [Servers -> Callers \union {None}]
      BY <1>2, <2>2 DEF Healed, Join, TypeOK
    <2> QED BY <2>3, <2>4, <2>5, <2>6 DEF TypeOK, Shape
  <1>3. CASE Upsert(s)
    <2>1. /\ row' \in Rows /\ stored' \in [body : Bodies, fetched : Time]
          /\ row'.gz = None => row'.text # Blank
      BY <1>3, UpsertTyped
    <2>2. next' = [t \in Servers |-> Overtaken(s, t)]
          /\ withheld' = [t \in Servers |-> Replaced(s, t)]
          /\ UNCHANGED <<now, flagged, refresh, stamp, sweep>>
      BY <1>3 DEF Upsert
    <2>3. /\ next' \in [Servers -> Statements]
          /\ \A t \in Servers : next'[t].stmt = "upsert" => next[t].stmt = "upsert"
      BY <2>2, OvertakenStatement
    <2>4. withheld' \in [Servers -> {"none", "present", "replaced"}]
      BY <2>2 DEF Replaced
    <2>5. /\ reply' \in Replies \union {None} /\ waiting' \subseteq Callers
          /\ miss' \in [Servers -> Callers \union {None}]
      BY <1>3, SourcedReply DEF Upsert, Answer, TypeOK
    <2> QED BY <2>1, <2>2, <2>3, <2>4, <2>5 DEF TypeOK, Shape
  <1>4. CASE UpsertThrows(s)
    <2>1. /\ next' = [next EXCEPT ![s] = Idle]
          /\ UNCHANGED <<row, stored, withheld, now, flagged, refresh, stamp, sweep>>
      BY <1>4 DEF UpsertThrows, Keep
    <2>2. next' \in [Servers -> Statements]
      BY <1>1, <2>1 DEF TypeOK
    <2>3. \A t \in Servers : next'[t].stmt = "upsert" => next[t].stmt = "upsert"
      BY <1>1, <2>1 DEF TypeOK
    <2>4. /\ reply' \in Replies \union {None} /\ waiting' \subseteq Callers
          /\ miss' \in [Servers -> Callers \union {None}]
      BY <1>4, SourcedReply DEF UpsertThrows, Answer, TypeOK
    <2> QED BY <2>1, <2>2, <2>3, <2>4 DEF TypeOK, Shape
  <1> QED BY <1>2, <1>3, <1>4

LEMMA InvStep == Inv /\ [Next]_vars => Inv'
  <1> SUFFICES ASSUME Inv, [Next]_vars PROVE Inv' OBVIOUS
  <1> USE DEF Inv
  <1>1. ASSUME NEW s \in Servers, Server(s) PROVE Inv'
    BY <1>1, CallStep, ReadStep, SettleStep, StatementStep DEF Server
  <1>5. ASSUME NEW p \in Sweepers, SweepSelect(p) PROVE Inv'
    BY <1>5, CacheAssumption DEF SweepSelect, Goto, ServerIdle, TypeOK, Shape
  <1>6. ASSUME NEW p \in Sweepers, SweepCompress(p) PROVE Inv'
    <2>1. sweep[p].text \in Large
      BY <1>6 DEF SweepCompress, TypeOK, Shape
    <2>2. row' \in Rows \union {None} /\ (row' # None /\ row'.gz = None => row'.text # Blank)
      BY <1>6, <2>1, CompressedRow, CompressNothing DEF SweepCompress, TypeOK, Shape
    <2> QED BY <1>6, <2>2 DEF SweepCompress, Goto, ServerIdle, TypeOK, Shape
  <1>7. ASSUME NEW p \in Sweepers, SweepPurge(p) PROVE Inv'
    BY <1>7 DEF SweepPurge, Evict, Keep, Goto, ServerIdle, TypeOK, Shape
  <1>8. ASSUME NEW p \in Sweepers, SweepStamp(p) PROVE Inv'
    BY <1>8 DEF SweepStamp, Goto, ServerIdle, TypeOK, Shape
  <1>9. CASE Invalidate
    BY <1>9 DEF Invalidate, Evict, ServerIdle, TypeOK, Shape
  <1>10. CASE Clock
    <2>1. now' \in Time
      BY <1>10, CacheAssumption DEF Clock, Tick, SetBack, TypeOK, Time
    <2> QED BY <1>10, <2>1 DEF Clock, ServerIdle, TypeOK, Shape
  <1>11. CASE Damage
    <2>1. row' \in Rows /\ (row'.gz = None => row'.text # Blank)
      BY <1>11, DamagedRow DEF Damage, TypeOK, Shape
    <2> QED BY <1>11, <2>1 DEF Damage, ServerIdle, TypeOK, Shape
  <1>12. CASE UNCHANGED vars
    BY <1>12 DEF vars, TypeOK, Shape
  <1> QED
    BY <1>1, <1>5, <1>6, <1>7, <1>8, <1>9, <1>10, <1>11, <1>12 DEF Next, Sweep

LEMMA Invariant == Spec => []Inv
    BY InvInit, InvStep, PTL DEF Spec

\* The cache keeps its types whatever interleaves.
THEOREM TypeCorrect == Spec => []TypeOK
    BY Invariant, PTL DEF Inv

-----------------------------------------------------------------------------
(* Which body a row holds *)

LEMMA LastStoreInit == Init => RowIsLastStore
  <1> SUFFICES ASSUME Init, row # None PROVE stored = [body |-> Decoded(row), fetched |-> row.fetched]
    BY DEF RowIsLastStore
  <1>1. row.fetched = 0 BY DEF Init, Row
  <1> QED BY <1>1 DEF Init

LEMMA LastStoreStep == Inv /\ RowIsLastStore /\ [Next]_vars => RowIsLastStore'
  <1> SUFFICES ASSUME Inv, RowIsLastStore, [Next]_vars PROVE RowIsLastStore' OBVIOUS
  <1>1. ASSUME UNCHANGED <<row, stored>> PROVE RowIsLastStore'
    BY <1>1 DEF RowIsLastStore, Decoded
  <1>2. ASSUME row' = None PROVE RowIsLastStore'
    BY <1>2 DEF RowIsLastStore
  <1>3. ASSUME NEW s \in Servers, Server(s) PROVE RowIsLastStore'
    <2>1. CASE Upsert(s)
      <3>1. Decoded(row') = next[s].body /\ row'.fetched = now BY <2>1, UpsertTyped
      <3>2. stored' = [body |-> next[s].body, fetched |-> now] BY <2>1 DEF Upsert
      <3> QED BY <3>1, <3>2 DEF RowIsLastStore
    <2>2. CASE Healed(s) \/ UpsertThrows(s)
      BY <1>1, <1>2, <2>2 DEF Healed, Evict, UpsertThrows, Keep
    <2>3. ASSUME NEW c \in Callers, CachedFetch(s, c) PROVE RowIsLastStore'
      BY <1>1, <2>3
      DEF CachedFetch, Missed, Unreadable, FreshHit, StaleHit, Unusable, Keep
    <2>4. ASSUME NEW c \in Readers, ReadCached(s, c) PROVE RowIsLastStore'
      BY <1>1, <2>4 DEF ReadCached
    <2>5. ASSUME NEW b \in Bodies \union {None}, SettleRefresh(s, b) \/ SettleMiss(s, b)
          PROVE  RowIsLastStore'
      BY <1>1, <2>5
      DEF SettleRefresh, RefreshKeeps, RefreshStores, RefreshFails, SettleMiss, Writes, Keep
    <2> QED BY <1>3, <2>1, <2>2, <2>3, <2>4, <2>5 DEF Server
  <1>5. ASSUME NEW p \in Sweepers, SweepCompress(p) PROVE RowIsLastStore'
    <2>1. sweep[p].text \in Large
      BY <1>5 DEF SweepCompress, Inv, TypeOK, Shape
    <2>2. CASE row = None
      BY <1>2, <1>5, <2>2, CompressNothing DEF SweepCompress
    <2>3. CASE row # None
      <3>1. row \in Rows BY <2>3 DEF Inv, TypeOK
      <3>2. Decoded(row') = Decoded(row) /\ row'.fetched = row.fetched /\ stored' = stored
        BY <1>5, <2>1, <3>1, CompressedRow DEF SweepCompress
      <3> QED BY <2>3, <3>2 DEF RowIsLastStore
    <2> QED BY <2>2, <2>3
  <1>6. CASE Damage
    <2>1. Decoded(row') = Torn
      BY <1>6, DamagedRow DEF Damage, Inv, TypeOK, Shape
    <2> QED BY <2>1 DEF RowIsLastStore
  <1>9. ASSUME NEW p \in Sweepers, SweepSelect(p) \/ SweepPurge(p) \/ SweepStamp(p)
        PROVE  RowIsLastStore'
    BY <1>1, <1>2, <1>9 DEF SweepSelect, SweepPurge, SweepStamp, Keep, Evict
  <1>10. CASE Invalidate \/ Clock
    BY <1>1, <1>2, <1>10 DEF Invalidate, Clock, Evict
  <1>11. CASE UNCHANGED vars
    BY <1>1, <1>11 DEF vars
  <1> QED
    BY <1>3, <1>5, <1>6, <1>9, <1>10, <1>11 DEF Next, Sweep

\* A row that decodes is the last body stored, under the time of that store.
THEOREM LastStoreKept == Spec => []RowIsLastStore
    BY Invariant, LastStoreInit, LastStoreStep, PTL DEF Spec

-----------------------------------------------------------------------------
(* Withheld empty answers *)

LEMMA FlagStep == Inv /\ FlagIsTrue /\ [Next]_vars => FlagIsTrue'
  <1> SUFFICES ASSUME Inv, FlagIsTrue, [Next]_vars PROVE FlagIsTrue' OBVIOUS
  <1> DEFINE About == {"present", "replaced"}
  <1>0. \A s \in Servers : flagged[s] => withheld[s] \in About
    BY DEF FlagIsTrue
  <1>1. ASSUME NEW s \in Servers, NEW c \in Callers, CachedFetch(s, c) PROVE FlagIsTrue'
    <2>1. UNCHANGED withheld
      BY <1>1 DEF CachedFetch, Missed, Unreadable, Unusable, FreshHit, StaleHit, Keep
    <2>2. CASE FreshHit(s, c) \/ StaleHit(s, c)
      <3>1. UNCHANGED flagged /\ reply'.from = s /\ (reply'.tag => flagged[s])
        BY <2>2 DEF FreshHit, StaleHit, Give, Sourced
      <3> QED BY <1>0, <2>1, <3>1 DEF FlagIsTrue
    <2>3. CASE Unreadable(s, c) \/ Unusable(s, c)
      BY <1>0, <2>1, <2>3 DEF FlagIsTrue, Unreadable, Unusable, Join
    <2>4. CASE Missed(s, c)
      <3>1. flagged' = [flagged EXCEPT ![s] = FALSE] /\ reply' = None
        BY <2>4 DEF Missed, Join
      <3> QED BY <1>0, <2>1, <3>1 DEF FlagIsTrue, Inv, TypeOK
    <2> QED BY <1>1, <2>2, <2>3, <2>4 DEF CachedFetch
  <1>2. ASSUME NEW s \in Servers, NEW c \in Readers, ReadCached(s, c) PROVE FlagIsTrue'
    BY <1>0, <1>2 DEF ReadCached, Sourced, FlagIsTrue
  <1>3. ASSUME NEW s \in Servers, NEW b \in Bodies \union {None}, SettleRefresh(s, b)
        PROVE  FlagIsTrue'
    <2>1. reply' = None BY <1>3 DEF SettleRefresh
    <2>2. CASE RefreshKeeps(s, b)
      BY <1>0, <2>1, <2>2 DEF RefreshKeeps, FlagIsTrue, Inv, TypeOK
    <2>3. CASE RefreshStores(s, b)
      BY <1>0, <2>1, <2>3 DEF RefreshStores, Unflag, Writes, Keep, FlagIsTrue, Inv, TypeOK
    <2>4. CASE RefreshFails(s, b)
      BY <1>0, <2>1, <2>4 DEF RefreshFails, Keep, FlagIsTrue
    <2> QED BY <1>3, <2>2, <2>3, <2>4 DEF SettleRefresh
  <1>4. ASSUME NEW s \in Servers, NEW b \in Bodies \union {None}, SettleMiss(s, b)
        PROVE  FlagIsTrue'
    <2>1. UNCHANGED withheld /\ (reply' = None \/ reply'.tag = FALSE)
      BY <1>4 DEF SettleMiss, Answer, Sourced, Writes, Keep
    <2>2. flagged' = flagged \/ flagged' = [flagged EXCEPT ![s] = FALSE]
      BY <1>4 DEF SettleMiss, Unflag
    <2> QED BY <1>0, <2>1, <2>2 DEF FlagIsTrue, Inv, TypeOK
  <1>5. ASSUME NEW s \in Servers, Upsert(s) PROVE FlagIsTrue'
    <2>1. withheld' = [t \in Servers |-> Replaced(s, t)] /\ UNCHANGED flagged
          /\ (reply' = None \/ reply'.tag = FALSE)
      BY <1>5 DEF Upsert, Answer, Sourced
    <2>2. flagged[s] = FALSE BY <1>5 DEF Upsert, Inv, Shape
    <2>3. \A t \in Servers : flagged[t] => withheld'[t] = "replaced"
      BY <1>0, <2>1, <2>2 DEF Replaced
    <2> QED BY <2>1, <2>3 DEF FlagIsTrue
  <1>6. ASSUME NEW s \in Servers, Healed(s) \/ UpsertThrows(s) PROVE FlagIsTrue'
    <2>1. UNCHANGED <<flagged, withheld>> /\ (reply' = None \/ reply'.tag = FALSE)
      BY <1>6 DEF Healed, Evict, Join, UpsertThrows, Keep, Answer, Sourced
    <2> QED BY <1>0, <2>1 DEF FlagIsTrue
  <1>7. ASSUME NEW p \in Sweepers, Sweep(p) PROVE FlagIsTrue'
    <2>1. UNCHANGED <<flagged, withheld>> /\ reply' = None
      BY <1>7 DEF Sweep, SweepCompress, SweepSelect, SweepPurge, SweepStamp, Evict, Keep, ServerIdle
    <2> QED BY <1>0, <2>1 DEF FlagIsTrue
  <1>8. CASE Invalidate \/ Clock \/ Damage
    <2>1. UNCHANGED <<flagged, withheld>> /\ reply' = None
      BY <1>8 DEF Invalidate, Clock, Damage, Evict, ServerIdle
    <2> QED BY <1>0, <2>1 DEF FlagIsTrue
  <1>9. CASE UNCHANGED vars
    BY <1>9 DEF vars, FlagIsTrue
  <1> QED
    BY <1>1, <1>2, <1>3, <1>4, <1>5, <1>6, <1>7, <1>8, <1>9 DEF Next, Server

\* No reply of any server explains its age by a refusal that server has stored
\* over since; another server's store is the exception the property names.
THEOREM FlagsAreTrue == Spec => []FlagIsTrue
  <1>1. Init => FlagIsTrue BY DEF Init, FlagIsTrue
  <1> QED BY <1>1, Invariant, FlagStep, PTL DEF Spec

\* A background refresh about to store an empty body saw no data in the row,
\* and there is none while no other server has stored.
Unopposed ==
    \A s \in Servers :
      /\ next[s].stmt = "upsert" /\ next[s].body = Empty
      /\ ~next[s].asked /\ ~next[s].raced
      => ~HoldsGood(row)

LEMMA NoneIsNoData == row' = None => ~HoldsGood(row)'
    BY DEF HoldsGood

\* Only an upsert puts data into a row that holds none.
LEMMA DataFromUpsert ==
    ASSUME Inv, Next, HoldsGood(row)', ~HoldsGood(row)
    PROVE  \E s \in Servers : Upsert(s)
  <1> SUFFICES ASSUME \A s \in Servers : ~Upsert(s) PROVE FALSE OBVIOUS
  <1>1. row' # row BY DEF HoldsGood, Decoded
  <1>2. row' # None BY NoneIsNoData
  <1>3. ASSUME NEW s \in Servers, Server(s) PROVE FALSE
    BY <1>1, <1>2, <1>3
    DEF Server, CachedFetch, Missed, Unreadable, FreshHit, StaleHit, Unusable, Keep,
        ReadCached, SettleRefresh, RefreshKeeps, RefreshStores, RefreshFails, SettleMiss,
        Writes, Healed, Evict, UpsertThrows
  <1>4. ASSUME NEW p \in Sweepers, SweepCompress(p) PROVE FALSE
    <2>1. sweep[p].text \in Large
      BY <1>4 DEF SweepCompress, Inv, TypeOK, Shape
    <2>2. row # None BY <1>2, <1>4, CompressNothing DEF SweepCompress
    <2>3. row \in Rows BY <2>2 DEF Inv, TypeOK
    <2>4. Decoded(row') = Decoded(row)
      BY <1>4, <2>1, <2>3, CompressedRow DEF SweepCompress
    <2>5. Decoded(row') \in Goods BY DEF HoldsGood
    <2> QED BY <2>2, <2>4, <2>5 DEF HoldsGood
  <1>5. ASSUME Damage PROVE FALSE
    <2>1. Decoded(row') = Torn
      BY <1>5, DamagedRow DEF Damage, Inv, TypeOK, Shape
    <2>2. Decoded(row') \in Goods BY DEF HoldsGood
    <2> QED BY <2>1, <2>2, CacheAssumption
  <1>6. ASSUME NEW p \in Sweepers, SweepSelect(p) \/ SweepPurge(p) \/ SweepStamp(p) PROVE FALSE
    BY <1>1, <1>2, <1>6 DEF SweepSelect, SweepPurge, SweepStamp, Keep, Evict
  <1>7. ASSUME Invalidate \/ Clock PROVE FALSE
    BY <1>1, <1>2, <1>7 DEF Invalidate, Clock, Evict
  <1> QED BY <1>3, <1>4, <1>5, <1>6, <1>7 DEF Next, Sweep

\* A step that does not end in an upsert readies none, or readies one whose
\* body the row gives way to.
LEMMA ReadiesUpsert ==
    ASSUME Inv, Next, \A s \in Servers : ~Upsert(s),
           NEW t \in Servers, next'[t].stmt = "upsert", next'[t] # next[t]
    PROVE  next'[t].asked \/ ~Preserves(next'[t].body)
  <1>0. next \in [Servers -> Statements] BY DEF Inv, TypeOK
  <1>1. next' # next OBVIOUS
  <1>2. ASSUME NEW s \in Servers, Server(s)
        PROVE  next'[t].asked \/ ~Preserves(next'[t].body)
    <2>1. ASSUME NEW n, n.stmt # "upsert", next' = [next EXCEPT ![s] = n]
          PROVE  FALSE
      BY <1>0, <2>1
    <2>2. CASE Healed(s) \/ UpsertThrows(s)
      <3>1. Idle.stmt # "upsert" BY DEF Idle
      <3> QED BY <2>1, <2>2, <3>1 DEF Healed, UpsertThrows
    <2>3. ASSUME NEW c \in Callers, CachedFetch(s, c) PROVE FALSE
      <3>1. [Idle EXCEPT !.stmt = "delete", !.by = c].stmt # "upsert" BY DEF Idle
      <3>2. Unreadable(s, c)
        BY <1>1, <2>3 DEF CachedFetch, Missed, FreshHit, StaleHit, Unusable
      <3> QED BY <2>1, <3>1, <3>2 DEF Unreadable
    <2>4. ASSUME NEW b \in Bodies \union {None}, SettleRefresh(s, b)
          PROVE  ~Preserves(next'[t].body)
      <3>1. RefreshStores(s, b)
        BY <1>1, <2>4 DEF SettleRefresh, RefreshKeeps, RefreshFails
      <3>2. ~Preserves(b) /\ Writes(s, refresh[s], b, FALSE) BY <3>1 DEF RefreshStores
      <3>3. next'[t].body = b BY <1>0, <3>2 DEF Writes
      <3> QED BY <3>2, <3>3
    <2>5. ASSUME NEW b \in Bodies \union {None}, SettleMiss(s, b)
          PROVE  next'[t].asked
      <3>1. Writes(s, miss[s], b, TRUE) BY <1>1, <2>5 DEF SettleMiss
      <3> QED BY <1>0, <3>1 DEF Writes
    <2>6. ASSUME NEW c \in Readers, ReadCached(s, c) PROVE FALSE
      BY <1>1, <2>6 DEF ReadCached
    <2> QED BY <1>2, <2>2, <2>3, <2>4, <2>5, <2>6 DEF Server
  <1>3. ASSUME NEW p \in Sweepers, Sweep(p) PROVE FALSE
    BY <1>1, <1>3 DEF Sweep, SweepSelect, SweepCompress, SweepPurge, SweepStamp, ServerIdle
  <1>4. ASSUME Invalidate \/ Clock \/ Damage PROVE FALSE
    BY <1>1, <1>4 DEF Invalidate, Clock, Damage, ServerIdle
  <1> QED BY <1>2, <1>3, <1>4 DEF Next

LEMMA UnopposedStep == Inv /\ Unopposed /\ [Next]_vars => Unopposed'
  <1> SUFFICES ASSUME Inv, Unopposed, [Next]_vars,
                      NEW t \in Servers,
                      next'[t].stmt = "upsert", next'[t].body = Empty,
                      ~next'[t].asked, ~next'[t].raced, HoldsGood(row)'
               PROVE  FALSE
    BY DEF Unopposed
  <1>1. CASE UNCHANGED vars
    BY <1>1 DEF vars, Unopposed, HoldsGood, Decoded
  <1>2. ASSUME Next, NEW s \in Servers, Upsert(s) PROVE FALSE
    <2>1. next'[t] = Overtaken(s, t) BY <1>2 DEF Upsert
    <2>2. t # s /\ next[t] \in Statements /\ next[t].stmt = "upsert"
          /\ next'[t] = [next[t] EXCEPT !.raced = TRUE]
      BY <2>1, OvertakenStatement DEF Inv, TypeOK
    <2>3. next'[t].raced
      <3>1. next[t] # Idle BY <2>2 DEF Idle
      <3>2. next[t] \in [stmt : {"upsert"}, by : Callers, body : Bodies,
                         asked : BOOLEAN, raced : BOOLEAN]
        BY <2>2, <3>1 DEF Statements
      <3> QED BY <2>2, <3>2
    <2> QED BY <2>3
  <1>3. ASSUME Next, \A s \in Servers : ~Upsert(s) PROVE FALSE
    <2>1. HoldsGood(row) BY <1>3, DataFromUpsert
    <2>2. next'[t] # next[t] BY <2>1 DEF Unopposed
    <2>3. ~Preserves(Empty) BY <1>3, <2>2, ReadiesUpsert
    <2> QED BY <2>1, <2>3, CacheAssumption DEF Preserves, HoldsGood
  <1> QED BY <1>1, <1>2, <1>3

LEMMA EmptyStep ==
    ASSUME Inv, Unopposed, Next, HoldsGood(row), row' # None, Decoded(row') = Empty
    PROVE  \E s \in Servers :
             /\ next[s].stmt = "upsert" /\ next'[s] = Idle
             /\ next[s].asked \/ next[s].raced
  <1>1. row # None /\ row \in Rows /\ Decoded(row) \in Goods /\ Decoded(row) # Empty
    BY CacheAssumption DEF HoldsGood, Inv, TypeOK
  <1>2. row' # row BY <1>1
  <1>3. ASSUME NEW s \in Servers, Upsert(s)
        PROVE  /\ next[s].stmt = "upsert" /\ next'[s] = Idle
               /\ next[s].asked \/ next[s].raced
    <2>1. next[s].stmt = "upsert" /\ next'[s] = Idle BY <1>3 DEF Upsert, Overtaken
    <2>2. next[s].body = Empty BY <1>3, UpsertTyped
    <2> QED BY <2>1, <2>2 DEF Unopposed
  <1>4. ASSUME NEW s \in Servers, Server(s), ~Upsert(s) PROVE FALSE
    BY <1>2, <1>4
    DEF Server, CachedFetch, Missed, Unreadable, FreshHit, StaleHit, Unusable, Keep,
        ReadCached, SettleRefresh, RefreshKeeps, RefreshStores, RefreshFails, SettleMiss,
        Writes, Healed, Evict, UpsertThrows
  <1>5. ASSUME NEW p \in Sweepers, SweepCompress(p) PROVE FALSE
    <2>1. sweep[p].text \in Large
      BY <1>5 DEF SweepCompress, Inv, TypeOK, Shape
    <2>2. Decoded(row') = Decoded(row)
      BY <1>1, <1>5, <2>1, CompressedRow DEF SweepCompress
    <2> QED BY <1>1, <2>2
  <1>6. ASSUME Damage PROVE FALSE
    <2>1. Decoded(row') = Torn
      BY <1>1, <1>6, DamagedRow DEF Inv, Shape
    <2> QED BY <2>1, CacheAssumption
  <1>7. ASSUME NEW p \in Sweepers, SweepSelect(p) \/ SweepPurge(p) \/ SweepStamp(p) PROVE FALSE
    BY <1>2, <1>7 DEF SweepSelect, SweepPurge, SweepStamp, Keep, Evict
  <1>8. ASSUME Invalidate \/ Clock PROVE FALSE
    BY <1>2, <1>8 DEF Invalidate, Clock, Evict
  <1> QED
    BY <1>3, <1>4, <1>5, <1>6, <1>7, <1>8 DEF Next, Sweep

\* A background refresh never puts an empty body in the place of data that was
\* there when it looked; data another server stored after that may give way.
THEOREM EmptyNeverByRefresh == Spec => EmptyOnlyForWaiter
  <1>1. Init => Unopposed BY DEF Init, Unopposed, Idle
  <1>2. Inv /\ Unopposed /\ [Next]_vars =>
          [HoldsGood(row) /\ row' # None /\ Decoded(row') = Empty =>
             \E s \in Servers :
               /\ next[s].stmt = "upsert" /\ next'[s] = Idle
               /\ next[s].asked \/ next[s].raced]_vars
    <2> SUFFICES ASSUME Inv, Unopposed, Next, HoldsGood(row), row' # None, Decoded(row') = Empty
                 PROVE  \E s \in Servers :
                          /\ next[s].stmt = "upsert" /\ next'[s] = Idle
                          /\ next[s].asked \/ next[s].raced
      OBVIOUS
    <2> QED BY EmptyStep
  <1> QED BY <1>1, <1>2, Invariant, UnopposedStep, PTL DEF Spec, EmptyOnlyForWaiter
=============================================================================
