------------------------- MODULE AiConnections_proofs -------------------------
(***************************************************************************)
(* What AiConnections keeps for every number of servers, operations,       *)
(* tokens, profiles and crashes.                                           *)
(***************************************************************************)
EXTENDS AiConnections, TLAPS

Kinds == {"none", "signin", "request", "disconnect", "gsignin", "grun", "gdisconnect"}

Places ==
    {"idle", "register", "browser", "exchange", "save", "enter", "refresh", "persist",
     "streaming", "clear", "revoke", "gregister", "gchild", "gsave", "gstop", "genter",
     "grunning", "gkill", "gclear"}

Operations ==
    [kind : Kinds, proc : Procs \union {None}, pc : Places,
     waiting : BOOLEAN, aborted : BOOLEAN, overtaken : BOOLEAN, rt : Token,
     plan : BOOLEAN, home : Home, child : BOOLEAN, kids : SUBSET Ops,
     copy : Stores \union {None}]

Typed ==
    /\ store \in Stores
    /\ lock \in Ops \union {None}
    /\ alive \subseteq Procs
    /\ disconnecting \in [Procs -> BOOLEAN]
    /\ issued \in Token /\ valid \subseteq 1..issued
    /\ homes \in Home /\ crashes \in 0..MaxCrashes
    /\ dirs \subseteq Home /\ orphans \subseteq Home
    /\ lost \in BOOLEAN /\ saved \in BOOLEAN

OpTyped == op \in [Ops -> Operations]

\* An operation is of a running server, and is of the kind its place says.
Placed ==
    \A o \in Ops :
      /\ \/ op[o].proc \in alive
         \/ op[o].proc = None /\ op[o].pc = "idle" /\ ~op[o].child /\ ~op[o].waiting
      /\ op[o].child => op[o].pc \in {"gchild", "gsave", "gstop", "grunning"}
      /\ op[o].waiting => op[o].kind \in {"signin", "gsignin"}
      /\ op[o].pc = "gregister" => op[o].kind = "gsignin"
      /\ op[o].pc = "genter" => op[o].kind = "grun"
      /\ op[o].kind = "signin" =>
            /\ op[o].pc \in {"register", "browser", "exchange", "save"}
            /\ op[o].rt # 0 => op[o].pc = "save"
            /\ op[o].overtaken => ~op[o].waiting

\* The lock is held by an operation that came to it or by a renewal, and every
\* renewal holds it.
Locked ==
    \A o \in Ops :
      /\ lock = o => op[o].pc \in Sections \union Renewing
      /\ op[o].pc \in Renewing => lock = o

\* The renewal under the lock will write what is in the store now.
Copied ==
    \A o \in Ops :
      op[o].pc \in Renewing =>
        op[o].copy = Claimed(op[o].proc) /\ Claimable(op[o].proc)

Holds(o) == op[o].pc \in {"save", "persist", "revoke"}

\* Who holds a token: the store, a sign-in that will save it, a renewal that
\* will write it, or a disconnect that will revoke it, and never two of them,
\* but for the renewal whose token was not rotated.
Tokens ==
    /\ store.rt <= issued
    /\ \A o \in Ops : Holds(o) => op[o].rt \in 1..issued
    /\ \A o, q \in Ops : o # q /\ Holds(o) /\ Holds(q) => op[o].rt # op[q].rt
    /\ \A o \in Ops : op[o].pc \in {"save", "revoke"} => op[o].rt # store.rt
    /\ \A o \in Ops : op[o].pc \in {"save", "persist"} => op[o].rt \in valid
    /\ (\A o \in Ops : op[o].pc # "persist") /\ store.rt # 0 /\ ~lost => store.rt \in valid

\* A disconnect knows every CLI process of its server, and no new one starts.
Profiles ==
    /\ \A o \in Ops : Child(o) =>
          op[o].home # 0 /\ store.gemini = op[o].home /\ op[o].home \in dirs
    /\ \A o \in Ops : op[o].pc = "genter" => op[o].home # 0
    /\ \A d \in Ops : op[d].pc \in {"gkill", "gclear"} =>
          /\ disconnecting[op[d].proc]
          /\ \A k \in Ops : Child(k) /\ op[k].proc = op[d].proc =>
                k \in op[d].kids /\ op[d].pc = "gkill"
          /\ \A e \in Ops : op[e].pc \in {"gkill", "gclear"} /\ op[e].proc = op[d].proc => e = d
    /\ \A o \in Ops : op[o].kind = "gsignin" /\ op[o].waiting => ~disconnecting[op[o].proc]

Inv == Typed /\ OpTyped /\ Placed /\ Locked /\ Copied /\ OneRuntime /\ KeyKept /\ Tokens /\ Profiles

USE ConnectionsAssumption DEF Inv

LEMMA Names ==
    /\ "none" \in Kinds /\ "signin" \in Kinds /\ "request" \in Kinds /\ "disconnect" \in Kinds
    /\ "gsignin" \in Kinds /\ "grun" \in Kinds /\ "gdisconnect" \in Kinds
    /\ "idle" \in Places /\ "register" \in Places /\ "browser" \in Places
    /\ "exchange" \in Places /\ "save" \in Places /\ "enter" \in Places
    /\ "refresh" \in Places /\ "persist" \in Places /\ "streaming" \in Places
    /\ "clear" \in Places /\ "revoke" \in Places /\ "gregister" \in Places
    /\ "gchild" \in Places /\ "gsave" \in Places /\ "gstop" \in Places
    /\ "genter" \in Places /\ "grunning" \in Places /\ "gkill" \in Places
    /\ "gclear" \in Places
    BY DEF Kinds, Places

LEMMA IdleOperation == Idle \in Operations
    BY Names DEF Idle, Token, Home, Operations

\* What an operation that has ended, and a request that streams, look like.
LEMMA Fields ==
    /\ Idle.kind = "none" /\ Idle.proc = None /\ Idle.pc = "idle" /\ Idle.waiting = FALSE
    /\ Idle.overtaken = FALSE /\ Idle.rt = 0 /\ Idle.home = 0 /\ Idle.child = FALSE
    /\ \A o \in Ops :
         /\ Streaming(o).kind = "request" /\ Streaming(o).proc = op[o].proc
         /\ Streaming(o).pc = "streaming" /\ Streaming(o).waiting = FALSE
         /\ Streaming(o).overtaken = FALSE /\ Streaming(o).rt = 0
         /\ Streaming(o).home = 0 /\ Streaming(o).child = FALSE
    BY DEF Idle, Streaming, Begin

LEMMA Retyped ==
    ASSUME OpTyped, NEW o \in Ops, NEW x \in Operations, op' = [op EXCEPT ![o] = x]
    PROVE  OpTyped'
    BY DEF OpTyped

\* An operation with some of its fields set is an operation.
LEMMA Updated ==
    /\ \A x \in Operations, b \in BOOLEAN : [x EXCEPT !.waiting = b] \in Operations
    /\ \A x \in Operations, place \in Places, b \in BOOLEAN :
          [x EXCEPT !.pc = place, !.waiting = b] \in Operations
    /\ \A x \in Operations, b \in BOOLEAN, c \in BOOLEAN :
          [x EXCEPT !.child = b, !.waiting = c] \in Operations
    /\ \A x \in Operations, place \in Places, copy \in Stores :
          [x EXCEPT !.pc = place, !.copy = copy] \in Operations
    /\ \A x \in Operations, place \in Places, rt \in Token :
          [x EXCEPT !.pc = place, !.rt = rt] \in Operations
    /\ \A x \in Operations, place \in Places, rt \in Token, b \in BOOLEAN :
          [x EXCEPT !.pc = place, !.rt = rt, !.plan = b] \in Operations
    BY DEF Operations

LEMMA ClaimedStore ==
    ASSUME Typed, NEW p \in Procs
    PROVE  /\ Claimed(p) \in Stores /\ Claimed(p).owner = p
           /\ Claimed(p).rt = store.rt /\ Claimed(p).gemini = store.gemini
           /\ Claimed(p).key = store.key
    BY DEF Claimed, Stores, Typed

LEMMA ClearedStore ==
    ASSUME Typed, NEW p \in Procs PROVE [Cleared EXCEPT !.owner = p] \in Stores
  <1> DEFINE Selection == {"none", "chatgpt", "gemini"}
             left == IF store.selection = "chatgpt" THEN "none" ELSE store.selection
  <1>1. left \in Selection /\ store \in Stores /\ 0 \in Token /\ FALSE \in BOOLEAN
    BY DEF Stores, Token, Typed
  <1>2. \A s \in Stores, rt \in Token, b \in BOOLEAN, c \in Selection :
          [[s EXCEPT !.rt = rt, !.plan = b, !.selection = c] EXCEPT !.owner = p] \in Stores
    BY DEF Stores
  <1>3. [[store EXCEPT !.rt = 0, !.plan = FALSE, !.selection = left] EXCEPT !.owner = p] \in Stores
    <2> HIDE DEF left, Selection
    <2> QED BY <1>1, <1>2, Zenon
  <1> QED BY <1>3 DEF Cleared

LEMMA Server ==
    ASSUME Inv, NEW o \in Ops, op[o].pc # "idle"
    PROVE  op[o].proc \in alive /\ op[o].proc \in Procs
    BY DEF Placed, Typed

\* Whoever has the lock for a section knows that nobody is renewing.
LEMMA NobodyRenews ==
    ASSUME Inv, NEW o \in Ops, Mine(o), op[o].pc \notin Renewing
    PROVE  \A q \in Ops : op[q].pc \notin Renewing
    BY DEF Mine, Locked

LEMMA SectionPlaces ==
    /\ \A pc \in Sections : pc \notin Renewing
    /\ \A pc \in Renewing : pc \in {"refresh", "persist"}
    /\ \A pc \in Sections : pc \notin {"idle", "browser", "exchange", "streaming", "revoke",
                                         "gchild", "gstop", "grunning", "gkill"}
    BY DEF Sections, Renewing

\* A section lets go of the lock, and nobody is renewing after it.
LEMMA LockReleased ==
    ASSUME Inv, NEW o \in Ops, Mine(o), op[o].pc \notin Renewing, op'[o].pc \notin Renewing,
           \A q \in Ops \ {o} : op'[q] = op[q], lock' = None
    PROVE  Locked' /\ Copied'
  <1>1. \A q \in Ops : op'[q].pc \notin Renewing
    BY NobodyRenews
  <1> QED BY <1>1 DEF Locked, Copied

\* An operation that comes to the lock takes it if it is free.
LEMMA LockTaken ==
    ASSUME Inv, NEW o \in Ops, op[o].pc \notin Renewing, op'[o].pc \in Sections,
           \A q \in Ops \ {o} : op'[q].pc = op[q].pc /\ op'[q].copy = op[q].copy
                                 /\ op'[q].proc = op[q].proc,
           Take(o), UNCHANGED <<store, alive>>
    PROVE  Locked' /\ Copied'
  <1>1. op'[o].pc \notin Renewing
    BY SectionPlaces
  <1>2. \A q \in Ops : op'[q].pc \in Renewing => q # o /\ op[q].pc \in Renewing
    BY <1>1
  <1>3. Locked'
    BY <1>1, <1>2 DEF Take, Locked
  <1>4. Copied'
    BY <1>2 DEF Copied, Claimed, Claimable
  <1> QED BY <1>3, <1>4

\* A step that leaves the lock alone, of an operation that is not renewing.
LEMMA LockKept ==
    ASSUME Inv, NEW o \in Ops, op[o].pc \notin Sections \union Renewing,
           op'[o].pc \notin Renewing,
           \A q \in Ops \ {o} : op'[q].pc = op[q].pc /\ op'[q].copy = op[q].copy
                                 /\ op'[q].proc = op[q].proc,
           UNCHANGED <<lock, store, alive>>
    PROVE  Locked' /\ Copied'
  <1>1. \A q \in Ops : op'[q].pc \in Renewing => q # o /\ op[q].pc \in Renewing
    OBVIOUS
  <1>2. lock # o
    BY DEF Locked
  <1>3. Locked'
    BY <1>1, <1>2 DEF Locked
  <1>4. Copied'
    BY <1>1 DEF Copied, Claimed, Claimable
  <1> QED BY <1>3, <1>4

\* A sign-in receives a token nobody holds.
LEMMA TokenIssued ==
    ASSUME Typed, Tokens, NEW o \in Ops, ~Holds(o),
           op'[o].pc = "save", op'[o].rt = issued',
           \A q \in Ops \ {o} : op'[q] = op[q],
           issued' = issued + 1, valid' = valid \union {issued'}, store' = store, lost' = lost
    PROVE  Tokens'
  <1>1. issued \in Nat /\ store.rt \in Nat
    BY DEF Token, Stores, Typed
  <1>2. /\ \A x \in 1..issued : x \in 1..issued' /\ x # issued'
        /\ issued' \in 1..issued'
    BY <1>1
  <1>3. \A q \in Ops \ {o} : Holds(q) => op[q].rt \in 1..issued
    BY DEF Tokens
  <1>4. store'.rt <= issued' /\ store'.rt # issued'
    BY <1>1 DEF Tokens
  <1>5. \A q \in Ops : Holds(q)' => op'[q].rt \in 1..issued'
    BY <1>2, <1>3 DEF Holds
  <1>6. \A q, r \in Ops : q # r /\ Holds(q)' /\ Holds(r)' => op'[q].rt # op'[r].rt
    <2>1. \A r \in Ops \ {o} : Holds(r)' => op'[r].rt # issued'
      BY <1>2, <1>3 DEF Holds
    <2>2. \A q, r \in Ops \ {o} : q # r /\ Holds(q)' /\ Holds(r)' => op'[q].rt # op'[r].rt
      BY DEF Holds, Tokens
    <2> QED BY <2>1, <2>2
  <1>7. \A q \in Ops : op'[q].pc \in {"save", "revoke"} => op'[q].rt # store'.rt
    BY <1>4 DEF Tokens
  <1>8. \A q \in Ops : op'[q].pc \in {"save", "persist"} => op'[q].rt \in valid'
    BY DEF Tokens
  <1>9. (\A q \in Ops : op'[q].pc # "persist") /\ store'.rt # 0 /\ ~lost' => store'.rt \in valid'
    BY DEF Tokens, Holds
  <1> QED BY <1>4, <1>5, <1>6, <1>7, <1>8, <1>9 DEF Tokens

\* A renewal spends the stored token and receives it again, or a new one.
LEMMA TokenRenewed ==
    ASSUME Typed, Tokens, Locked, NEW o \in Ops, lock = o, op[o].pc = "refresh",
           op'[o].pc = "persist", \A q \in Ops \ {o} : op'[q] = op[q],
           store.rt \in valid, store' = store,
           \/ op'[o].rt = store.rt /\ issued' = issued
           \/ op'[o].rt = issued' /\ issued' = issued + 1,
           valid' = (valid \ {store.rt}) \union {op'[o].rt}
    PROVE  Tokens'
  <1>1. issued \in Nat /\ store.rt \in Nat /\ valid \subseteq 1..issued /\ store.rt \in 1..issued
    BY DEF Token, Stores, Typed
  <1>2. /\ \A x \in 1..issued : x \in 1..issued' /\ (x = op'[o].rt => x = store.rt)
        /\ op'[o].rt \in 1..issued' /\ store.rt <= issued'
    BY <1>1
  <1>3. \A q \in Ops \ {o} : op[q].pc # "persist"
    BY DEF Locked, Renewing
  <1>4. \A q \in Ops \ {o} : Holds(q) => op[q].rt \in 1..issued /\ op[q].rt # store.rt
    BY <1>3 DEF Tokens, Holds
  <1>5. \A q \in Ops : Holds(q)' => op'[q].rt \in 1..issued'
    BY <1>2, <1>4 DEF Holds
  <1>6. \A q, r \in Ops : q # r /\ Holds(q)' /\ Holds(r)' => op'[q].rt # op'[r].rt
    <2>1. \A r \in Ops \ {o} : Holds(r)' => op'[r].rt # op'[o].rt
      BY <1>2, <1>4 DEF Holds
    <2>2. \A q, r \in Ops \ {o} : q # r /\ Holds(q)' /\ Holds(r)' => op'[q].rt # op'[r].rt
      BY DEF Holds, Tokens
    <2> QED BY <2>1, <2>2
  <1>7. \A q \in Ops : op'[q].pc \in {"save", "revoke"} => op'[q].rt # store'.rt
    BY DEF Tokens
  <1>8. \A q \in Ops : op'[q].pc \in {"save", "persist"} => op'[q].rt \in valid'
    BY <1>3, <1>4 DEF Tokens
  <1> QED BY <1>2, <1>5, <1>6, <1>7, <1>8 DEF Tokens

\* A renewal whose answer is lost spends the stored token for nothing.
LEMMA TokenNotRenewed ==
    ASSUME Typed, Tokens, Locked, NEW o \in Ops, lock = o, op[o].pc = "refresh",
           op'[o].pc = "idle", \A q \in Ops \ {o} : op'[q] = op[q],
           store' = store, issued' = issued,
           \/ valid' = valid /\ lost' = lost
           \/ valid' = valid \ {store.rt} /\ lost' = TRUE
    PROVE  Tokens'
  <1>1. \A q \in Ops : op[q].pc # "persist"
    BY DEF Locked, Renewing
  <1>2. \A q \in Ops : op'[q].pc \in {"save", "persist"} => op'[q].rt \in valid'
    BY <1>1 DEF Tokens
  <1>3. store'.rt # 0 /\ ~lost' => store'.rt \in valid'
    BY <1>1 DEF Tokens
  <1> QED BY <1>2, <1>3 DEF Tokens, Holds

\* An operation that awaits no renewal gives up, and nothing else changes.
LEMMA Ends ==
    ASSUME Inv, NEW o \in Ops, op[o].pc \notin Renewing, End(o), Release(o),
           UNCHANGED <<store, disconnecting>>, Provider, Local
    PROVE  Inv'
  <1>1. Typed'
    BY DEF Release, Provider, Local, Typed
  <1>2. OpTyped'
    BY Names, IdleOperation DEF End, OpTyped
  <1>3. Placed'
    BY Fields DEF End, Local, Placed
  <1>4. Locked' /\ Copied'
    <2>1. /\ \A q \in Ops \ {o} : op'[q] = op[q]
          /\ op'[o].pc = "idle" /\ op'[o].pc \notin Renewing
      BY Fields DEF End, Renewing, OpTyped
    <2>2. \A q \in Ops : op'[q].pc \in Renewing => q # o /\ op[q].pc \in Renewing
      BY <2>1
    <2>3. Locked'
      BY <2>1, <2>2 DEF Release, Locked
    <2>4. Copied'
      BY <2>1, <2>2 DEF Copied, Claimed, Claimable, Local
    <2> QED BY <2>3, <2>4
  <1>6. OneRuntime'
    BY Fields DEF Child, End, OneRuntime
  <1>7. KeyKept'
    BY DEF Local, KeyKept
  <1>8. Tokens'
    <2>1. /\ \A q \in Ops \ {o} : op'[q] = op[q]
          /\ op'[o].pc = "idle"
      BY Fields DEF End, OpTyped
    <2>2. op[o].pc # "persist"
      BY DEF Renewing
    <2> QED BY <2>1, <2>2 DEF Holds, Provider, Tokens
  <1>9. Profiles'
    BY Fields DEF Child, End, Local, Profiles
  <1> QED BY <1>1, <1>2, <1>3, <1>4, <1>6, <1>7, <1>8, <1>9

\* What an operation that begins does to the others: it may cancel a sign-in
\* or a run, or abort a request.
Interrupted(q) ==
    /\ op'[q].kind = op[q].kind /\ op'[q].proc = op[q].proc /\ op'[q].pc = op[q].pc
    /\ op'[q].rt = op[q].rt /\ op'[q].home = op[q].home /\ op'[q].child = op[q].child
    /\ op'[q].copy = op[q].copy /\ op'[q].kids = op[q].kids
    /\ op'[q].waiting => op[q].waiting
    /\ op'[q].kind = "signin" /\ op'[q].overtaken => ~op'[q].waiting

LEMMA Begun ==
    ASSUME Inv, NEW o \in Ops, NEW p \in alive, op[o] = Idle,
           op'[o].proc = p, op'[o].pc \in {"register", "clear", "gkill"}, op'[o].child = FALSE,
           op'[o].waiting => op'[o].kind = "signin", op'[o].overtaken = FALSE, op'[o].rt = 0,
           op'[o].kind = "signin" => op'[o].pc = "register",
           \A q \in Ops \ {o} : Interrupted(q),
           lock' = lock \/ (Take(o) /\ op'[o].pc \in Sections),
           UNCHANGED store, Provider, Local
    PROVE  Placed' /\ Locked' /\ Copied' /\ OneRuntime' /\ KeyKept' /\ Tokens'
  <1>1. op[o].pc = "idle" /\ ~op[o].child /\ ~op[o].waiting
    BY DEF Idle
  <1>2. Placed'
    <2> SUFFICES ASSUME NEW q \in Ops PROVE
          /\ \/ op'[q].proc \in alive'
             \/ op'[q].proc = None /\ op'[q].pc = "idle" /\ ~op'[q].child /\ ~op'[q].waiting
          /\ op'[q].child => op'[q].pc \in {"gchild", "gsave", "gstop", "grunning"}
          /\ op'[q].waiting => op'[q].kind \in {"signin", "gsignin"}
          /\ op'[q].pc = "gregister" => op'[q].kind = "gsignin"
          /\ op'[q].pc = "genter" => op'[q].kind = "grun"
          /\ op'[q].kind = "signin" =>
                /\ op'[q].pc \in {"register", "browser", "exchange", "save"}
                /\ op'[q].rt # 0 => op'[q].pc = "save"
                /\ op'[q].overtaken => ~op'[q].waiting
      BY DEF Placed
    <2>1. CASE q = o
      BY <2>1 DEF Local
    <2>2. CASE q # o
      BY <2>2 DEF Placed, Local, Interrupted
    <2> QED BY <2>1, <2>2
  <1>3. /\ op[o].pc \notin Sections \union Renewing /\ op'[o].pc \notin Renewing
        /\ \A q \in Ops \ {o} : op'[q].pc = op[q].pc /\ op'[q].copy = op[q].copy
                              /\ op'[q].proc = op[q].proc
    BY <1>1 DEF Sections, Renewing, Interrupted
  <1>4. Locked' /\ Copied'
    BY <1>3, LockTaken, LockKept DEF Local
  <1>5. OneRuntime'
    BY DEF Child, OneRuntime, Interrupted
  <1>6. Tokens'
    <2>1. \A q \in Ops : Holds(q)' => q # o /\ Holds(q) /\ op'[q].rt = op[q].rt
      BY DEF Holds, Interrupted
    <2>2. \A q \in Ops : op'[q].pc = op[q].pc \/ op[q].pc = "idle"
      BY <1>1 DEF Interrupted
    <2>3. \A q \in Ops \ {o} : op'[q].pc = op[q].pc /\ op'[q].rt = op[q].rt
      BY DEF Interrupted
    <2> QED BY <1>1, <2>1, <2>2, <2>3 DEF Tokens, Provider
  <1> QED BY <1>2, <1>3, <1>4, <1>5, <1>6 DEF KeyKept, Local

\* An operation that has been canceled, or that nothing was done to.
LEMMA Canceling ==
    ASSUME Inv, NEW q \in Ops, NEW p \in Procs,
           \/ op'[q] = op[q]
           \/ op'[q] = [op[q] EXCEPT !.waiting = FALSE, !.overtaken = TRUE]
           \/ op'[q] = [op[q] EXCEPT !.aborted = TRUE]
    PROVE  Interrupted(q) /\ op'[q] \in Operations
  <1>1. op[q] \in Operations
    BY DEF OpTyped
  <1>2. CASE op'[q] = op[q]
    BY <1>1, <1>2 DEF Placed, Interrupted
  <1>3. CASE op'[q] = [op[q] EXCEPT !.waiting = FALSE, !.overtaken = TRUE]
    <2>1. \A x \in Operations, b, c \in BOOLEAN :
            [x EXCEPT !.waiting = b, !.overtaken = c] \in Operations
      BY DEF Operations
    <2>2. op'[q] \in Operations
      BY <1>1, <1>3, <2>1, Zenon
    <2>3. Interrupted(q)
      BY <1>1, <1>3 DEF Interrupted
    <2> QED BY <2>2, <2>3
  <1>4. CASE op'[q] = [op[q] EXCEPT !.aborted = TRUE]
    <2>1. \A x \in Operations, b \in BOOLEAN : [x EXCEPT !.aborted = b] \in Operations
      BY DEF Operations
    <2>2. op'[q] \in Operations
      BY <1>1, <1>4, <2>1, Zenon
    <2>3. Interrupted(q)
      BY <1>1, <1>4 DEF Placed, Interrupted
    <2> QED BY <2>2, <2>3
  <1> QED BY <1>2, <1>3, <1>4

\* A ChatGPT operation that begins leaves the Gemini profile to the others.
LEMMA BegunProfiles ==
    ASSUME Inv, NEW o \in Ops, op[o] = Idle, op'[o].child = FALSE,
           op'[o].pc \in {"register", "clear"}, op'[o].kind \in {"signin", "disconnect"},
           \A q \in Ops \ {o} : Interrupted(q),
           store' = store, disconnecting' = disconnecting, Local
    PROVE  Profiles'
  <1>1. ~op[o].child BY DEF Idle
  <1>2. \A q \in Ops : /\ Child(q)' => Child(q) /\ op'[q].home = op[q].home
                       /\ Child(q)' => op'[q].proc = op[q].proc
                       /\ op'[q].pc \in {"genter", "gkill", "gclear"} =>
                            /\ op'[q].pc = op[q].pc /\ op'[q].home = op[q].home
                            /\ op'[q].proc = op[q].proc /\ op'[q].kids = op[q].kids
                       /\ op'[q].kind = "gsignin" /\ op'[q].waiting =>
                            /\ op[q].kind = "gsignin" /\ op[q].waiting
                            /\ op'[q].proc = op[q].proc
    BY <1>1 DEF Child, Interrupted
  <1> QED BY <1>2 DEF Profiles, Local

LEMMA BeginSignInStep ==
    ASSUME Inv, NEW o \in Ops, NEW p \in Procs, BeginSignIn(o, p)
    PROVE  Inv'
  <1> DEFINE begun == [Begin(o, p, "signin", "register") EXCEPT !.waiting = TRUE]
  <1>1. /\ op[o] = Idle /\ p \in alive /\ Take(o)
        /\ UNCHANGED <<store, disconnecting>> /\ Provider /\ Local
        /\ op' = [Canceled(p) EXCEPT ![o] = begun]
    BY DEF BeginSignIn
  <1>2. op'[o] = begun
    BY <1>1 DEF Canceled
  <1>3. \A q \in Ops \ {o} : Interrupted(q) /\ op'[q] \in Operations
    <2> SUFFICES ASSUME NEW q \in Ops \ {o} PROVE Interrupted(q) /\ op'[q] \in Operations
      OBVIOUS
    <2>1. op'[q] = op[q] \/ op'[q] = [op[q] EXCEPT !.waiting = FALSE, !.overtaken = TRUE]
      BY <1>1 DEF Canceled
    <2> QED BY <2>1, Canceling
  <1>4. OpTyped'
    <2>1. begun \in Operations
      BY Names, IdleOperation DEF Begin, Operations
    <2>2. op' = [q \in Ops |-> op'[q]]
      BY <1>1 DEF Canceled
    <2> QED BY <1>2, <1>3, <2>1, <2>2 DEF OpTyped
  <1>5. /\ begun.proc = p /\ begun.pc = "register" /\ begun.child = FALSE
        /\ begun.kind = "signin" /\ begun.overtaken = FALSE /\ begun.rt = 0
    BY DEF Idle, Begin
  <1>6. Profiles'
    BY <1>1, <1>2, <1>3, <1>5, BegunProfiles
  <1>7. Placed' /\ Locked' /\ Copied' /\ OneRuntime' /\ KeyKept' /\ Tokens'
    <2>1. begun.pc \in Sections
      BY <1>5 DEF Sections
    <2> HIDE DEF begun
    <2> QED BY <1>1, <1>2, <1>3, <1>5, <2>1, Begun
  <1>8. Typed'
    BY <1>1 DEF Take, Typed, Provider, Local
  <1> QED BY <1>4, <1>6, <1>7, <1>8

LEMMA BeginDisconnectStep ==
    ASSUME Inv, NEW o \in Ops, NEW p \in Procs, BeginDisconnect(o, p)
    PROVE  Inv'
  <1> DEFINE begun == Begin(o, p, "disconnect", "clear")
  <1>1. /\ op[o] = Idle /\ p \in alive /\ Take(o)
        /\ UNCHANGED <<store, disconnecting>> /\ Provider /\ Local
        /\ op' = [Disconnected(p) EXCEPT ![o] = begun]
    BY DEF BeginDisconnect
  <1>2. op'[o] = begun
    BY <1>1 DEF Disconnected
  <1>3. \A q \in Ops \ {o} : Interrupted(q) /\ op'[q] \in Operations
    <2> SUFFICES ASSUME NEW q \in Ops \ {o} PROVE Interrupted(q) /\ op'[q] \in Operations
      OBVIOUS
    <2>1. \/ op'[q] = op[q]
          \/ op'[q] = [op[q] EXCEPT !.waiting = FALSE, !.overtaken = TRUE]
          \/ op'[q] = [op[q] EXCEPT !.aborted = TRUE]
      BY <1>1 DEF Disconnected, Canceled
    <2> QED BY <2>1, Canceling
  <1>4. OpTyped'
    <2>1. begun \in Operations
      BY Names, IdleOperation DEF Begin, Operations
    <2>2. op' = [q \in Ops |-> op'[q]]
      BY <1>1 DEF Disconnected
    <2> QED BY <1>2, <1>3, <2>1, <2>2 DEF OpTyped
  <1>5. /\ begun.proc = p /\ begun.pc = "clear" /\ begun.child = FALSE
        /\ begun.kind = "disconnect" /\ begun.overtaken = FALSE /\ begun.rt = 0
        /\ begun.waiting = FALSE
    BY DEF Idle, Begin
  <1>6. Profiles'
    BY <1>1, <1>2, <1>3, <1>5, BegunProfiles
  <1>7. Placed' /\ Locked' /\ Copied' /\ OneRuntime' /\ KeyKept' /\ Tokens'
    <2>1. begun.pc \in Sections
      BY <1>5 DEF Sections
    <2> HIDE DEF begun
    <2> QED BY <1>1, <1>2, <1>3, <1>5, <2>1, Begun
  <1>8. Typed'
    BY <1>1 DEF Take, Typed, Provider, Local
  <1> QED BY <1>4, <1>6, <1>7, <1>8

LEMMA BeginGeminiDisconnectStep ==
    ASSUME Inv, NEW o \in Ops, NEW p \in Procs, BeginGeminiDisconnect(o, p)
    PROVE  Inv'
  <1> DEFINE begun == [Begin(o, p, "gdisconnect", "gkill") EXCEPT
                         !.kids = {k \in Ops : op[k].proc = p /\ Child(k)}]
  <1>0. op' = [Overtaken(p) EXCEPT ![o] = begun]
    BY DEF BeginGeminiDisconnect
  <1>1. /\ op[o] = Idle /\ p \in alive /\ ~disconnecting[p]
        /\ disconnecting' = [disconnecting EXCEPT ![p] = TRUE]
        /\ UNCHANGED <<store, lock>> /\ Provider /\ Local
    BY DEF BeginGeminiDisconnect
  <1>2. op'[o] = begun
    BY <1>0 DEF Overtaken
  <1>3. \A q \in Ops \ {o} :
          op'[q] = IF q \in Of(p, "gsignin") \union Of(p, "grun")
                   THEN [op[q] EXCEPT !.waiting = FALSE, !.overtaken = TRUE] ELSE op[q]
    BY <1>0 DEF Overtaken
  <1>4. \A q \in Ops \ {o} : Interrupted(q) /\ op'[q] \in Operations
    BY <1>3, Canceling
  <1>5. OpTyped'
    <2>1. begun \in Operations
      BY Names, IdleOperation DEF Begin, Operations
    <2>2. op' = [q \in Ops |-> op'[q]]
      BY <1>0 DEF Overtaken
    <2> QED BY <1>2, <1>4, <2>1, <2>2 DEF OpTyped
  <1>6. /\ begun.proc = p /\ begun.pc = "gkill" /\ begun.child = FALSE
        /\ begun.kind = "gdisconnect" /\ begun.overtaken = FALSE /\ begun.rt = 0
        /\ begun.waiting = FALSE /\ begun.kids = {k \in Ops : op[k].proc = p /\ Child(k)}
    BY DEF Idle, Begin
  <1> HIDE DEF begun
  <1>7. Placed' /\ Locked' /\ Copied' /\ OneRuntime' /\ KeyKept' /\ Tokens'
    BY <1>1, <1>2, <1>4, <1>6, Begun
  <1>8. Typed'
    <2>1. disconnecting' \in [Procs -> BOOLEAN]
      BY <1>1 DEF Typed
    <2> QED BY <1>1, <2>1 DEF Typed, Provider, Local
  <1>9. Profiles'
    <2>2. \A q \in Ops : /\ Child(q)' => q # o /\ Child(q) /\ op'[q].home = op[q].home
                         /\ Child(q)' => op'[q].proc = op[q].proc
                         /\ op'[q].pc = "genter" => op[q].pc = "genter" /\ op'[q].home = op[q].home
      BY <1>2, <1>4, <1>6 DEF Child, Interrupted
    <2>3. \A d \in Ops : op'[d].pc \in {"gkill", "gclear"} =>
            \/ d = o
            \/ /\ op[d].pc = op'[d].pc /\ op'[d].proc = op[d].proc /\ op'[d].kids = op[d].kids
               /\ op[d].proc # p /\ disconnecting'[op[d].proc]
      <3> SUFFICES ASSUME NEW d \in Ops, d # o, op'[d].pc \in {"gkill", "gclear"}
                   PROVE  /\ op[d].pc = op'[d].pc /\ op'[d].proc = op[d].proc
                          /\ op'[d].kids = op[d].kids
                          /\ op[d].proc # p /\ disconnecting'[op[d].proc]
        OBVIOUS
      <3>1. op[d].pc = op'[d].pc /\ op'[d].proc = op[d].proc /\ op'[d].kids = op[d].kids
        BY <1>4 DEF Interrupted
      <3>2. disconnecting[op[d].proc]
        BY <3>1 DEF Profiles
      <3>3. op[d].proc # p
        BY <1>1, <3>2
      <3>4. op[d].proc \in Procs
        BY <3>1, Server
      <3> QED BY <1>1, <3>1, <3>2, <3>3, <3>4
    <2>4. \A k \in Ops : Child(k)' /\ op'[k].proc = p => k \in op'[o].kids
      BY <1>2, <1>6, <2>2
    <2>5. \A q \in Ops : op'[q].kind = "gsignin" /\ op'[q].waiting =>
            ~disconnecting'[op'[q].proc]
      <3> SUFFICES ASSUME NEW q \in Ops, op'[q].kind = "gsignin", op'[q].waiting
                   PROVE  ~disconnecting'[op'[q].proc]
        OBVIOUS
      <3>1. q # o BY <1>2, <1>6
      <3>2. q \notin Of(p, "gsignin") \union Of(p, "grun")
        BY <1>3, <3>1 DEF OpTyped, Operations
      <3>3. op'[q] = op[q] /\ op[q].proc # p
        BY <1>3, <3>1, <3>2 DEF Of
      <3>4. ~disconnecting[op[q].proc]
        BY <3>3 DEF Profiles
      <3>5. op[q].proc \in Procs
        BY <3>3 DEF Placed, Typed
      <3> QED BY <1>1, <3>3, <3>4, <3>5
    <2>6. disconnecting'[p]
      BY <1>1 DEF Typed
    <2> QED BY <1>1, <1>2, <1>6, <2>2, <2>3, <2>4, <2>5, <2>6 DEF Profiles, Local
  <1> QED BY <1>5, <1>7, <1>8, <1>9

LEMMA RegisterStep ==
    ASSUME Inv, NEW o \in Ops, Register(o)
    PROVE  Inv'
  <1>1. Typed'
    BY Server, ClaimedStore DEF Register, Provider, Local, Typed
  <1>2. OpTyped'
    BY Names, IdleOperation DEF Register, To, OpTyped, Operations
  <1>3. Placed'
    BY DEF Register, To, Local, OpTyped, Operations, Placed
  <1>4. Locked' /\ Copied'
    BY LockReleased DEF Sections, Renewing, Register, To, OpTyped, Operations
  <1>6. OneRuntime'
    BY DEF Stores, Claimed, Claimable, Placed, Child, Register, To, Typed, OpTyped,
       Operations, OneRuntime
  <1>7. KeyKept'
    BY DEF Stores, Claimed, Register, Local, Typed, KeyKept
  <1>8. Tokens'
    BY DEF Stores, Token, Claimed, Placed, Holds, Register, To, Provider, Local, Typed,
       OpTyped, Operations, Tokens
  <1>9. Profiles'
    BY DEF Stores, Home, Claimed, Placed, OneRuntime, Child, Register,
       To, Provider, Local, Typed, OpTyped, Operations, Profiles
  <1> QED BY <1>1, <1>2, <1>3, <1>4, <1>6, <1>7, <1>8, <1>9

LEMMA SignInTimesOutStep ==
    ASSUME Inv, NEW o \in Ops, SignInTimesOut(o)
    PROVE  Inv'
  <1>1. Typed'
    BY DEF SignInTimesOut, Nothing, Provider, Local, Typed
  <1>2. OpTyped'
    <2>1. op' = [op EXCEPT ![o] = [op[o] EXCEPT !.waiting = FALSE]]
      BY DEF SignInTimesOut
    <2>2. [op[o] EXCEPT !.waiting = FALSE] \in Operations
      BY Updated, Zenon DEF OpTyped
    <2> QED BY <2>1, <2>2, Retyped
  <1>3. Placed'
    BY DEF SignInTimesOut, Local, Placed
  <1>4. Locked' /\ Copied'
    BY DEF SignInTimesOut, Nothing, Local, Claimed, Claimable, Locked, Copied
  <1>6. OneRuntime'
    BY DEF Child, SignInTimesOut, Nothing, OneRuntime
  <1>7. KeyKept'
    BY DEF SignInTimesOut, Nothing, Local, KeyKept
  <1>8. Tokens'
    BY DEF Holds, SignInTimesOut, Nothing, Provider, Tokens
  <1>9. Profiles'
    BY DEF Local, Child, SignInTimesOut, Nothing, Profiles
  <1> QED BY <1>1, <1>2, <1>3, <1>4, <1>6, <1>7, <1>8, <1>9

LEMMA SignInClosedStep ==
    ASSUME Inv, NEW o \in Ops, SignInClosed(o)
    PROVE  Inv'
  <1>1. Typed'
    BY DEF SignInClosed, Nothing, Provider, Local, Typed
  <1>2. OpTyped'
    BY Names, IdleOperation DEF SignInClosed, End, OpTyped
  <1>3. Placed'
    BY Fields DEF SignInClosed, End, Local, Placed
  <1>4. Locked' /\ Copied'
    BY LockKept, Fields DEF Sections, Renewing, To, End, Nothing, Local, OpTyped, Operations, SignInClosed
  <1>6. OneRuntime'
    BY Fields DEF Child, SignInClosed, End, Nothing, OneRuntime
  <1>7. KeyKept'
    BY DEF SignInClosed, Nothing, Local, KeyKept
  <1>8. Tokens'
    BY Fields DEF Holds, SignInClosed, End, Nothing, Provider, Tokens
  <1>9. Profiles'
    BY Fields DEF Local, Child, SignInClosed, End, Nothing, Profiles
  <1> QED BY <1>1, <1>2, <1>3, <1>4, <1>6, <1>7, <1>8, <1>9

LEMMA RetainStep ==
    ASSUME Inv, NEW o \in Ops, Retain(o)
    PROVE  Inv'
  <1>1. Typed'
    BY DEF Stores, Token, Home, Retain, To, Provider, Local, Typed, OpTyped, Operations
  <1>2. OpTyped'
    BY Names, IdleOperation DEF Retain, To, OpTyped, Operations
  <1>3. Placed'
    BY DEF Retain, To, Local, Placed
  <1>4. Locked' /\ Copied'
    BY LockReleased DEF Mine, Sections, Renewing, Idle, Begin, To, End, Nothing, Local, OpTyped, Operations, Retain
  <1>6. OneRuntime'
    BY DEF Child, Retain, To, OneRuntime
  <1>7. KeyKept'
    BY DEF Retain, Local, KeyKept
  <1>8. Tokens'
    BY DEF Holds, Retain, To, Provider, Tokens
  <1>9. Profiles'
    BY DEF Local, Child, Retain, To, Profiles
  <1> QED BY <1>1, <1>2, <1>3, <1>4, <1>6, <1>7, <1>8, <1>9

LEMMA ExchangeStep ==
    ASSUME Inv, NEW o \in Ops, Exchange(o)
    PROVE  Inv'
  <1>1. CASE /\ issued < MaxTokens /\ issued' = issued + 1 /\ valid' = valid \union {issued + 1}
             /\ \E plan \in BOOLEAN :
                  op' = [op EXCEPT ![o].pc = "save", ![o].rt = issued + 1, ![o].plan = plan]
    <2>1. PICK plan \in BOOLEAN :
           op' = [op EXCEPT ![o].pc = "save", ![o].rt = issued + 1, ![o].plan = plan]
      BY <1>1
    <2>2. /\ op[o].pc = "exchange" /\ issued < MaxTokens
         /\ issued' = issued + 1 /\ valid' = valid \union {issued + 1}
         /\ UNCHANGED <<store, lock, disconnecting, lost, alive, homes, crashes, saved,
                         dirs, orphans>>
      BY <1>1 DEF Exchange, Local
    <2>3. Typed'
      BY <2>1, <2>2 DEF Token, Typed
    <2>4. OpTyped'
      <3>1. /\ issued + 1 \in Token /\ op[o] \in Operations /\ "save" \in Places
        BY <2>1, <2>2, Names DEF Token, Typed, OpTyped
      <3>2. [op[o] EXCEPT !.pc = "save", !.rt = issued + 1, !.plan = plan] \in Operations
        <4>1. \A x \in Operations, place \in Places, rt \in Token, b \in BOOLEAN :
                [x EXCEPT !.pc = place, !.rt = rt, !.plan = b] \in Operations
          BY Updated
        <4> QED BY <3>1, <4>1, Zenon
      <3>3. op' = [op EXCEPT ![o] = [op[o] EXCEPT !.pc = "save", !.rt = issued + 1, !.plan = plan]]
        BY <2>1, <2>2
      <3> QED BY <3>1, <3>2, <3>3, Retyped
    <2>5. Placed'
      BY <2>1, <2>2 DEF OpTyped, Placed
    <2>6. Locked' /\ Copied'
      BY <2>1, <2>2, LockKept DEF Sections, Renewing, OpTyped, Operations
    <2>8. OneRuntime'
      BY <2>1, <2>2 DEF Child, OpTyped, OneRuntime
    <2>9. KeyKept'
      BY <2>1, <2>2 DEF KeyKept
    <2>10. Tokens'
      <3>1. /\ op'[o].pc = "save" /\ op'[o].rt = issued'
         /\ \A q \in Ops \ {o} : op'[q] = op[q]
        BY <2>1, <2>2 DEF OpTyped
      <3>2. ~Holds(o) BY <2>1, <2>2 DEF Holds
      <3> QED BY <2>1, <2>2, <3>1, <3>2, TokenIssued
    <2>11. Profiles'
      <3>1. op'[o].child = op[o].child BY <2>1, <2>2 DEF OpTyped
      <3>2. op'[o].waiting = op[o].waiting BY <2>1, <2>2 DEF OpTyped
      <3>3. /\ op'[o].pc = "save" /\ op'[o].home = op[o].home
          /\ op'[o].proc = op[o].proc /\ op'[o].kind = op[o].kind
        BY <2>1, <2>2 DEF OpTyped
      <3>4. \A q \in Ops \ {o} : op'[q] = op[q]
        BY <2>1, <2>2 DEF OpTyped
      <3>5. \A q \in Ops :
             /\ op'[q].child = op[q].child /\ op'[q].home = op[q].home /\ op'[q].proc = op[q].proc
             /\ op'[q].kind = op[q].kind /\ op'[q].waiting = op[q].waiting
             /\ op'[q].pc \in {"genter", "gkill", "gclear"} => op'[q] = op[q]
        BY <3>1, <3>2, <3>3, <3>4
      <3>6. store' = store /\ disconnecting' = disconnecting /\ dirs' = dirs
        BY <2>1, <2>2
      <3> QED BY <3>5, <3>6 DEF Profiles, Child
    <2> QED BY <2>3, <2>4, <2>5, <2>6, <2>8, <2>9, <2>10, <2>11
  <1>2. CASE End(o) /\ UNCHANGED <<valid, issued>>
    <2>1. op[o].pc \notin Sections \union Renewing /\ lock # o
      BY DEF Exchange, Sections, Renewing, Locked
    <2>2. Release(o)
      BY <2>1 DEF Exchange, Release
    <2> QED BY <1>2, <2>1, <2>2, Ends DEF Exchange, Provider
  <1> QED BY <1>1, <1>2 DEF Exchange

LEMMA SaveTokensStep ==
    ASSUME Inv, NEW o \in Ops, SaveTokens(o)
    PROVE  Inv'
  <1>1. Typed'
    BY Fields DEF Stores, Token, Home, SaveTokens, End, Provider, Local, Typed, OpTyped, Operations
  <1>2. OpTyped'
    BY Names, IdleOperation DEF SaveTokens, End, OpTyped
  <1>3. Placed'
    BY Fields DEF SaveTokens, End, Local, Placed
  <1>4. Locked' /\ Copied'
    BY LockReleased, Fields DEF Mine, Sections, Renewing, To, End, Nothing, Local, OpTyped, Operations, SaveTokens
  <1>6. OneRuntime'
    BY Fields DEF Child, SaveTokens, End, OneRuntime
  <1>7. KeyKept'
    BY DEF SaveTokens, Local, KeyKept
  <1>8. Tokens'
    BY Fields DEF Holds, SaveTokens, End, Provider, OpTyped, Tokens
  <1>9. Profiles'
    BY Fields DEF Local, Child, SaveTokens, End, Profiles
  <1> QED BY <1>1, <1>2, <1>3, <1>4, <1>6, <1>7, <1>8, <1>9

LEMMA BeginRequestStep ==
    ASSUME Inv, NEW o \in Ops, NEW p \in Procs, BeginRequest(o, p)
    PROVE  Inv'
  <1>1. Typed'
    BY DEF BeginRequest, Take, Provider, Local, Typed
  <1>2. OpTyped'
    BY Names, IdleOperation DEF Token, Home, BeginRequest, Begin, Nothing, Provider, Local,
       Typed, OpTyped, Operations
  <1>3. Placed'
    BY DEF Idle, BeginRequest, Begin, Local, Placed
  <1>4. Locked' /\ Copied'
    BY LockTaken DEF Sections, Renewing, Idle, Begin, To, End, Nothing, Local, OpTyped, Operations, BeginRequest
  <1>6. OneRuntime'
    BY DEF Idle, Child, BeginRequest, Local, Begin, Nothing, OneRuntime
  <1>7. KeyKept'
    BY DEF BeginRequest, Nothing, Local, KeyKept
  <1>8. Tokens'
    BY DEF Idle, Holds, BeginRequest, Begin, Nothing, Provider, Tokens
  <1>9. Profiles'
    BY DEF Idle, Child, BeginRequest, Local, Begin, Nothing, Profiles
  <1> QED BY <1>1, <1>2, <1>3, <1>4, <1>6, <1>7, <1>8, <1>9

LEMMA EnterStep ==
    ASSUME Inv, NEW o \in Ops, Enter(o)
    PROVE  Inv'
  <1> USE DEF Enter
  <1>1. CASE Admitted(o)
    <2>1. /\ store' = Claimed(op[o].proc) /\ lock' = None
          /\ op' = [op EXCEPT ![o] = IF op[o].aborted THEN Idle ELSE Streaming(o)]
      BY <1>1 DEF Admitted, Send
    <2>2. Streaming(o) \in Operations
      BY Names, IdleOperation DEF Streaming, Begin, OpTyped, Operations
    <2>3. /\ op'[o] = Idle \/ op'[o] = Streaming(o)
          /\ \A q \in Ops \ {o} : op'[q] = op[q]
      BY <2>1 DEF OpTyped
    <2>4. Typed'
      BY <2>1, Server, ClaimedStore DEF Provider, Local, Typed
    <2>5. OpTyped'
      BY <2>1, <2>2, IdleOperation, Retyped
    <2>6. Placed'
      BY <2>3, Server, Fields DEF Local, Placed
    <2>7. Locked' /\ Copied'
      BY <2>1, <2>3, LockReleased, Fields DEF Renewing
    <2>8. OneRuntime'
      BY <2>1, <2>3, Fields DEF Claimed, Claimable, Placed, Child, Typed, OneRuntime
    <2>9. KeyKept'
      BY <2>1 DEF Claimed, Local, KeyKept
    <2>10. Tokens'
      <3>1. /\ \A q \in Ops : Holds(q)' => q # o /\ Holds(q)
            /\ op[o].pc = "enter" /\ op'[o].pc \in {"idle", "streaming"}
        BY <2>3, Fields DEF Holds
      <3>2. store'.rt = store.rt
        BY <2>1 DEF Claimed
      <3> QED BY <2>3, <3>1, <3>2 DEF Tokens, Holds, Provider
    <2>11. Profiles'
      <3>1. /\ ~Child(o)' /\ op'[o].pc \in {"idle", "streaming"} /\ ~op'[o].waiting
            /\ store'.gemini = store.gemini
        BY <2>1, <2>3, Fields DEF Claimed, Child
      <3> QED BY <2>3, <3>1 DEF Child, Local, Profiles
    <2> QED BY <2>4, <2>5, <2>6, <2>7, <2>8, <2>9, <2>10, <2>11
  <1>2. CASE /\ lock' = o /\ store' = store
             /\ op' = [op EXCEPT ![o].pc = "refresh", ![o].copy = Claimed(op[o].proc)]
    <2>1. Typed'
      BY <1>2 DEF Provider, Local, Typed
    <2>2. OpTyped'
      <3>1. op' = [op EXCEPT ![o] = [op[o] EXCEPT !.pc = "refresh", !.copy = Claimed(op[o].proc)]]
        BY <1>2 DEF OpTyped
      <3>2. Claimed(op[o].proc) \in Stores /\ op[o] \in Operations
        BY Server, ClaimedStore DEF OpTyped
      <3>3. [op[o] EXCEPT !.pc = "refresh", !.copy = Claimed(op[o].proc)] \in Operations
        BY <3>2, Names, Updated, Zenon
      <3> QED BY <3>1, <3>3, Retyped
    <2>3. Placed'
      BY <1>2 DEF OpTyped, Local, Placed
    <2>4. /\ op'[o].pc = "refresh" /\ op'[o].copy = Claimed(op[o].proc)
          /\ op'[o].proc = op[o].proc
          /\ \A q \in Ops \ {o} : op'[q] = op[q] /\ op[q].pc \notin Renewing
      BY <1>2, NobodyRenews DEF OpTyped, Operations, Renewing
    <2>5. Locked'
      BY <1>2, <2>4 DEF Renewing, Locked
    <2>6. Copied'
      BY <1>2, <2>4 DEF Claimed, Claimable, Local, Copied
    <2>7. OneRuntime'
      BY <1>2 DEF Child, OpTyped, OneRuntime
    <2>8. KeyKept'
      BY <1>2 DEF Local, KeyKept
    <2>9. Tokens'
      BY <1>2 DEF Holds, Provider, OpTyped, Tokens
    <2>10. Profiles'
      BY <1>2 DEF Child, OpTyped, Local, Profiles
    <2> QED BY <2>1, <2>2, <2>3, <2>5, <2>6, <2>7, <2>8, <2>9, <2>10
  <1> QED BY <1>1, <1>2

LEMMA RenewedStep ==
    ASSUME Inv, NEW o \in Ops, Renewed(o)
    PROVE  Inv'
  <1>1. Typed'
    BY DEF Token, Renewed, Local, Typed
  <1>2. OpTyped'
    <2>1. PICK next \in {op[o].copy.rt} \union ({issued + 1} \intersect Token), plan \in BOOLEAN :
            op' = [op EXCEPT ![o].pc = "persist", ![o].rt = next, ![o].plan = plan]
      BY DEF Renewed
    <2>4. next \in Token
      BY <2>1, Server, ClaimedStore DEF Renewing, Locked, Copied, Stores, Renewed
    <2>5. op' = [op EXCEPT ![o] = [op[o] EXCEPT !.pc = "persist", !.rt = next, !.plan = plan]]
      BY <2>1
    <2>2. op[o] \in Operations /\ "persist" \in Places
      BY Names DEF OpTyped
    <2>3. [op[o] EXCEPT !.pc = "persist", !.rt = next, !.plan = plan] \in Operations
      <3>1. \A x \in Operations, place \in Places, rt \in Token, b \in BOOLEAN :
              [x EXCEPT !.pc = place, !.rt = rt, !.plan = b] \in Operations
        BY Updated
      <3> QED BY <2>2, <2>4, <3>1, Zenon
    <2> QED BY <2>5, <2>3, Retyped
  <1>3. Placed'
    BY DEF Renewed, Local, OpTyped, Placed
  <1>4. Locked'
    BY DEF Renewed, OpTyped, Renewing, Locked
  <1>5. Copied'
    BY DEF Claimed, Claimable, Renewed, Local, OpTyped, Renewing, Locked, Copied
  <1>6. OneRuntime'
    BY DEF Child, Renewed, OpTyped, OneRuntime
  <1>7. KeyKept'
    BY DEF Renewed, Local, KeyKept
  <1>8. Tokens'
    <2>1. lock = o /\ op[o].copy.rt = store.rt /\ op[o].pc = "refresh"
      BY Server, ClaimedStore DEF Renewing, Locked, Copied, Renewed
    <2>2. /\ op'[o].pc = "persist" /\ \A q \in Ops \ {o} : op'[q] = op[q]
        /\ store.rt \in valid /\ store' = store
        /\ \/ op'[o].rt = store.rt /\ issued' = issued
           \/ op'[o].rt = issued' /\ issued' = issued + 1
        /\ valid' = (valid \ {store.rt}) \union {op'[o].rt}
      BY <2>1 DEF Renewed, OpTyped
    <2> QED BY <2>1, <2>2, TokenRenewed
  <1>9. Profiles'
    BY DEF Local, Child, Renewed, OpTyped, Profiles
  <1> QED BY <1>1, <1>2, <1>3, <1>4, <1>5, <1>6, <1>7, <1>8, <1>9

LEMMA NotRenewedStep ==
    ASSUME Inv, NEW o \in Ops, NotRenewed(o)
    PROVE  Inv'
  <1>1. Typed'
    BY Fields DEF Stores, Token, Home, NotRenewed, End, Local, Typed, OpTyped, Operations
  <1>2. OpTyped'
    BY Names, IdleOperation DEF NotRenewed, End, OpTyped
  <1>3. Placed'
    BY Fields DEF NotRenewed, End, Local, Placed
  <1>4. Locked'
    BY Fields DEF NotRenewed, End, OpTyped, Renewing, Locked
  <1>5. Copied'
    BY Fields DEF NotRenewed, End, OpTyped, Renewing, Locked, Copied
  <1>6. OneRuntime'
    BY Fields DEF Child, NotRenewed, End, OneRuntime
  <1>7. KeyKept'
    BY DEF NotRenewed, Local, KeyKept
  <1>8. Tokens'
    <2>1. lock = o /\ op[o].copy.rt = store.rt /\ op[o].pc = "refresh"
      BY Server, ClaimedStore DEF Renewing, Locked, Copied, NotRenewed
    <2>2. /\ op'[o].pc = "idle" /\ \A q \in Ops \ {o} : op'[q] = op[q]
        /\ store' = store /\ issued' = issued
        /\ \/ valid' = valid /\ lost' = lost
           \/ valid' = valid \ {store.rt} /\ lost' = TRUE
      BY <2>1, Fields DEF NotRenewed, End, OpTyped
    <2> QED BY <2>1, <2>2, TokenNotRenewed
  <1>9. Profiles'
    BY Fields DEF Local, Child, NotRenewed, End, Profiles
  <1> QED BY <1>1, <1>2, <1>3, <1>4, <1>5, <1>6, <1>7, <1>8, <1>9

LEMMA PersistStep ==
    ASSUME Inv, NEW o \in Ops, Persist(o)
    PROVE  Inv'
  <1>1. /\ op[o].pc = "persist" /\ lock = o /\ lock' = None
        /\ op[o].copy = Claimed(op[o].proc) /\ Claimable(op[o].proc)
        /\ UNCHANGED <<disconnecting, valid, issued>> /\ Local
    BY DEF Renewing, Locked, Copied, Persist
  <1>2. /\ op[o].proc \in alive /\ op[o].proc \in Procs /\ op[o].rt \in Token
        /\ \A q \in Ops \ {o} : op[q].pc \notin Renewing
    BY <1>1, Server DEF Locked, OpTyped, Operations
  <1>3. CASE /\ store' = [op[o].copy EXCEPT !.rt = op[o].rt, !.plan = TRUE]
             /\ Send(o) /\ UNCHANGED lost
    <2>1. store' = [Claimed(op[o].proc) EXCEPT !.rt = op[o].rt, !.plan = TRUE]
      BY <1>1, <1>3
    <2>2. /\ store'.owner = op[o].proc /\ store'.rt = op[o].rt
          /\ store'.gemini = store.gemini /\ store'.key = store.key
      BY <1>2, <2>1 DEF Claimed
    <2>3. store' \in Stores
      BY <1>2, <2>1, ClaimedStore DEF Stores
    <2>4. op' = [op EXCEPT ![o] = IF op[o].aborted THEN Idle ELSE Streaming(o)]
      BY <1>3 DEF Send
    <2>5. Streaming(o) \in Operations
      BY Names, IdleOperation DEF Streaming, Begin, OpTyped, Operations
    <2>6. /\ op'[o] = Idle \/ op'[o] = Streaming(o)
          /\ \A q \in Ops \ {o} : op'[q] = op[q]
      BY <2>4 DEF OpTyped
    <2>7. Typed'
      BY <1>1, <1>3, <2>3 DEF Local, Typed
    <2>8. OpTyped'
      BY <2>4, <2>5, IdleOperation, Retyped
    <2>9. Placed'
      BY <1>1, <1>2, <2>6, Fields DEF Local, Placed
    <2>10. Locked' /\ Copied'
      <3>1. \A q \in Ops : op'[q].pc \notin Renewing
        BY <1>2, <2>6, Fields DEF Renewing
      <3> QED BY <1>1, <3>1 DEF Locked, Copied
    <2>11. OneRuntime'
      BY <1>1, <2>2, <2>6, Fields DEF Placed, Claimable, Child, Typed, OneRuntime
    <2>12. KeyKept'
      BY <1>1, <2>2 DEF Local, KeyKept
    <2>13. Tokens'
      <3>1. /\ \A q \in Ops : Holds(q)' => q # o /\ Holds(q)
            /\ op'[o].pc \in {"idle", "streaming"}
        BY <2>6, Fields DEF Holds
      <3> QED BY <1>1, <1>3, <2>2, <2>6, <3>1 DEF Holds, Tokens
    <2>14. Profiles'
      <3>1. ~Child(o)' /\ op'[o].pc \in {"idle", "streaming"} /\ ~op'[o].waiting
        BY <2>6, Fields DEF Child
      <3> QED BY <1>1, <2>2, <2>6, <3>1 DEF Child, Local, Profiles
    <2> QED BY <2>7, <2>8, <2>9, <2>10, <2>11, <2>12, <2>13, <2>14
  <1>4. CASE End(o) /\ lost' = (lost \/ op[o].rt # op[o].copy.rt) /\ UNCHANGED store
    <2>1. Typed'
      BY <1>1, <1>4 DEF Local, Typed
    <2>2. OpTyped'
      BY <1>4, Names, IdleOperation DEF End, OpTyped
    <2>3. Placed'
      BY <1>1, <1>4, Fields DEF End, Local, Placed
    <2>4. Locked' /\ Copied'
      <3>1. \A q \in Ops : op'[q].pc \notin Renewing
        BY <1>2, <1>4, Fields DEF Renewing, End, OpTyped
      <3> QED BY <1>1, <3>1 DEF Locked, Copied
    <2>6. OneRuntime'
      BY <1>4, Fields DEF Child, End, OneRuntime
    <2>7. KeyKept'
      BY <1>1, <1>4 DEF Local, KeyKept
    <2>8. Tokens'
      <3>1. op[o].rt = store.rt => store.rt \in valid
        BY <1>1 DEF Tokens
      <3>2. op[o].copy.rt = store.rt
        BY <1>1, <1>2, ClaimedStore
      <3>3. /\ \A q \in Ops \ {o} : op'[q] = op[q] /\ op[q].pc # "persist"
            /\ op'[o].pc = "idle" /\ store' = store /\ valid' = valid /\ issued' = issued
            /\ lost' = (lost \/ op[o].rt # op[o].copy.rt)
        BY <1>1, <1>2, <1>4, Fields DEF Renewing, End, OpTyped
      <3> QED BY <3>1, <3>2, <3>3 DEF Tokens, Holds
    <2>9. Profiles'
      BY <1>1, <1>4, Fields DEF Child, End, Local, Profiles
    <2> QED BY <2>1, <2>2, <2>3, <2>4, <2>6, <2>7, <2>8, <2>9
  <1> QED BY <1>3, <1>4 DEF Persist

LEMMA StreamedStep ==
    ASSUME Inv, NEW o \in Ops, Streamed(o)
    PROVE  Inv'
  <1>1. Typed'
    BY DEF Streamed, Nothing, Provider, Local, Typed
  <1>2. OpTyped'
    BY Names, IdleOperation DEF Streamed, End, OpTyped
  <1>3. Placed'
    BY Fields DEF Streamed, End, Local, Placed
  <1>4. Locked' /\ Copied'
    BY LockKept, Fields DEF Sections, Renewing, To, End, Nothing, Local, OpTyped, Operations, Streamed
  <1>6. OneRuntime'
    BY Fields DEF Child, Streamed, End, Nothing, OneRuntime
  <1>7. KeyKept'
    BY DEF Streamed, Nothing, Local, KeyKept
  <1>8. Tokens'
    BY Fields DEF Holds, Streamed, End, Nothing, Provider, Tokens
  <1>9. Profiles'
    BY Fields DEF Local, Child, Streamed, End, Nothing, Profiles
  <1> QED BY <1>1, <1>2, <1>3, <1>4, <1>6, <1>7, <1>8, <1>9

LEMMA ClearStep ==
    ASSUME Inv, NEW o \in Ops, Clear(o)
    PROVE  Inv'
  <1>1. /\ op[o].pc = "clear" /\ lock' = None /\ Mine(o) /\ Claimable(op[o].proc)
        /\ store' = [Cleared EXCEPT !.owner = op[o].proc]
        /\ UNCHANGED disconnecting /\ Provider /\ Local
    BY DEF Clear
  <1>2. op[o].proc \in alive /\ op[o].proc \in Procs
    BY <1>1, Server
  <1>3. /\ store'.owner = op[o].proc /\ store'.rt = 0
        /\ store'.gemini = store.gemini /\ store'.key = store.key
    BY <1>1, <1>2 DEF Cleared
  <1>4. op' = [op EXCEPT ![o] = IF store.rt = 0 THEN Idle
                                ELSE [op[o] EXCEPT !.pc = "revoke", !.rt = store.rt]]
    BY DEF Clear
  <1>5. [op[o] EXCEPT !.pc = "revoke", !.rt = store.rt] \in Operations
    <2>1. store.rt \in Token /\ op[o] \in Operations
      BY DEF Stores, Typed, OpTyped
    <2> QED BY <2>1, Names, Updated, Zenon
  <1>6. /\ \A q \in Ops \ {o} : op'[q] = op[q]
        /\ \/ op'[o] = Idle
           \/ store.rt # 0 /\ op'[o] = [op[o] EXCEPT !.pc = "revoke", !.rt = store.rt]
    BY <1>4 DEF OpTyped
  <1> DEFINE revoking == [op[o] EXCEPT !.pc = "revoke", !.rt = store.rt]
  <1>60. /\ revoking.pc = "revoke" /\ revoking.rt = store.rt /\ revoking.kind = op[o].kind
         /\ revoking.proc = op[o].proc /\ revoking.child = op[o].child
         /\ revoking.waiting = op[o].waiting
    BY DEF OpTyped, Operations
  <1>61. op'[o] = Idle \/ (store.rt # 0 /\ op'[o] = revoking)
    BY <1>6
  <1> HIDE DEF revoking
  <1>62. /\ op[o].kind # "signin" /\ ~op[o].child
         /\ op[o].waiting => op[o].kind = "gsignin"
    BY <1>1 DEF Placed
  <1>63. /\ op'[o].pc \in {"idle", "revoke"} /\ ~op'[o].child
         /\ op'[o].waiting => op'[o].kind = "gsignin" /\ op[o].kind = "gsignin"
                              /\ op[o].waiting /\ op'[o].proc = op[o].proc
         /\ op'[o].kind # "signin"
         /\ op'[o].pc = "revoke" => /\ op'[o].rt = store.rt /\ store.rt # 0
                                    /\ op'[o].proc = op[o].proc
         /\ op'[o].pc = "idle" => op'[o].proc = None /\ ~op'[o].waiting
    <2>1. CASE op'[o] = Idle
      BY <2>1, Fields
    <2>2. CASE store.rt # 0 /\ op'[o] = revoking
      <3>1. /\ op'[o].pc = "revoke" /\ op'[o].rt = store.rt /\ op'[o].kind = op[o].kind
            /\ op'[o].proc = op[o].proc
        BY <2>2, <1>60
      <3>2. op'[o].child = op[o].child /\ op'[o].waiting = op[o].waiting
        BY <2>2, <1>60, Zenon
      <3>3. ~op'[o].child /\ (op'[o].waiting => op[o].waiting)
        BY <3>2, <1>62, Zenon
      <3> QED BY <2>2, <3>1, <3>3, <1>62
    <2> QED BY <1>61, <2>1, <2>2
  <1>7. Typed'
    BY <1>1, <1>2, ClearedStore DEF Provider, Local, Typed
  <1>8. OpTyped'
    BY <1>4, <1>5, IdleOperation, Retyped
  <1>9. Placed'
    BY <1>1, <1>2, <1>6, <1>63 DEF Local, Placed
  <1>10. Locked' /\ Copied'
    BY <1>1, <1>6, LockReleased, Fields DEF Renewing, OpTyped, Operations
  <1>11. OneRuntime'
    BY <1>1, <1>2, <1>3, <1>6, <1>63 DEF Placed, Claimable, Child, Typed, OneRuntime
  <1>12. KeyKept'
    BY <1>1, <1>3 DEF Local, KeyKept
  <1>13. Tokens'
    <2>1. \A q \in Ops : op[q].pc # "persist"
      BY <1>1, NobodyRenews DEF Renewing
    <2> QED BY <1>1, <1>3, <1>6, <1>63, <2>1 DEF Stores, Token, Holds, Provider, Typed, Tokens
  <1>14. Profiles'
    BY <1>1, <1>3, <1>6, <1>63 DEF Child, Local, Profiles
  <1> QED BY <1>7, <1>8, <1>9, <1>10, <1>11, <1>12, <1>13, <1>14

LEMMA RevokeStep ==
    ASSUME Inv, NEW o \in Ops, Revoke(o)
    PROVE  Inv'
  <1>1. Typed'
    BY DEF Revoke, Local, Typed
  <1>2. OpTyped'
    BY Names, IdleOperation DEF Revoke, End, OpTyped
  <1>3. Placed'
    BY Fields DEF Revoke, End, Local, Placed
  <1>4. Locked' /\ Copied'
    BY LockKept, Fields DEF Sections, Renewing, To, End, Nothing, Local, OpTyped, Operations, Revoke
  <1>6. OneRuntime'
    BY Fields DEF Child, Revoke, End, OneRuntime
  <1>7. KeyKept'
    BY DEF Revoke, Local, KeyKept
  <1>8. Tokens'
    BY Fields DEF Holds, Revoke, End, Tokens
  <1>9. Profiles'
    BY Fields DEF Local, Child, Revoke, End, Profiles
  <1> QED BY <1>1, <1>2, <1>3, <1>4, <1>6, <1>7, <1>8, <1>9

LEMMA SelectConnectionStep ==
    ASSUME Inv, NEW s \in {"none", "chatgpt", "gemini"}, SelectConnection(s)
    PROVE  Inv'
  <1>1. Typed'
    BY DEF Stores, SelectConnection, Provider, Local, Typed
  <1>2. OpTyped'
    BY Names, IdleOperation DEF SelectConnection, OpTyped
  <1>3. Placed'
    BY DEF SelectConnection, Local, Placed
  <1>4. Locked'
    BY DEF SelectConnection, Locked
  <1>5. Copied'
    BY DEF Locked, SelectConnection, Copied
  <1>6. OneRuntime'
    BY DEF Child, SelectConnection, OneRuntime
  <1>7. KeyKept'
    BY DEF SelectConnection, Local, KeyKept
  <1>8. Tokens'
    BY DEF Holds, SelectConnection, Provider, Tokens
  <1>9. Profiles'
    BY DEF Local, Child, SelectConnection, Profiles
  <1> QED BY <1>1, <1>2, <1>3, <1>4, <1>5, <1>6, <1>7, <1>8, <1>9

LEMMA SaveKeyStep ==
    ASSUME Inv, NEW k \in BOOLEAN, SaveKey(k)
    PROVE  Inv'
  <1>1. Typed'
    BY DEF Stores, SaveKey, Provider, Typed
  <1>2. OpTyped'
    BY Names, IdleOperation DEF SaveKey, OpTyped
  <1>3. Placed'
    BY DEF SaveKey, Placed
  <1>4. Locked'
    BY DEF SaveKey, Locked
  <1>5. Copied'
    BY DEF Locked, SaveKey, Copied
  <1>6. OneRuntime'
    BY DEF Child, SaveKey, OneRuntime
  <1>7. KeyKept'
    BY DEF SaveKey, KeyKept
  <1>8. Tokens'
    BY DEF Holds, SaveKey, Provider, Tokens
  <1>9. Profiles'
    BY DEF Local, Child, SaveKey, Profiles
  <1> QED BY <1>1, <1>2, <1>3, <1>4, <1>5, <1>6, <1>7, <1>8, <1>9

LEMMA BeginGeminiStep ==
    ASSUME Inv, NEW o \in Ops, NEW p \in Procs, BeginGemini(o, p)
    PROVE  Inv'
  <1>1. Typed'
    BY DEF BeginGemini, Take, Provider, Local, Typed
  <1>2. OpTyped'
    BY Names, IdleOperation DEF Token, Home, BeginGemini, Begin, Nothing, Provider, Local,
       Typed, OpTyped, Operations
  <1>3. Placed'
    BY DEF Idle, BeginGemini, Begin, Local, Placed
  <1>4. Locked' /\ Copied'
    BY LockTaken DEF Sections, Renewing, Idle, Begin, To, End, Nothing, Local, OpTyped, Operations, BeginGemini
  <1>6. OneRuntime'
    BY DEF Idle, Child, BeginGemini, Local, Begin, Nothing, OneRuntime
  <1>7. KeyKept'
    BY DEF BeginGemini, Nothing, Local, KeyKept
  <1>8. Tokens'
    BY DEF Idle, Holds, BeginGemini, Begin, Nothing, Provider, Tokens
  <1>9. Profiles'
    BY DEF Child, BeginGemini, Local, Begin, Nothing, Profiles
  <1> QED BY <1>1, <1>2, <1>3, <1>4, <1>6, <1>7, <1>8, <1>9

\* What starting a CLI does to the operation that starts it.
LEMMA Launched ==
    ASSUME Inv, NEW o \in Ops, NEW home \in Home, NEW pc \in {"gchild", "grunning"},
           Launch(o, home, pc)
    PROVE  /\ OpTyped' /\ dirs' \subseteq Home /\ dirs \subseteq dirs'
           /\ \A q \in Ops \ {o} : op'[q] = op[q]
           /\ \/ op'[o] = Idle
              \/ /\ op'[o].pc = pc /\ op'[o].home = home /\ op'[o].child
                 /\ op'[o].proc = op[o].proc /\ op'[o].kind = op[o].kind
                 /\ op'[o].waiting = op[o].waiting /\ op'[o].rt = op[o].rt
                 /\ op'[o].overtaken = op[o].overtaken
                 /\ home \in dirs'
  <1>1. op[o] \in Operations /\ pc \in Places
    BY Names DEF OpTyped
  <1>2. CASE /\ dirs' = dirs \union {home}
             /\ op' = [op EXCEPT ![o].pc = pc, ![o].home = home, ![o].child = TRUE]
    <2> DEFINE started == [op[o] EXCEPT !.pc = pc, !.home = home, !.child = TRUE]
    <2>1. started \in Operations
      <3>1. \A x \in Operations, place \in Places, h \in Home, b \in BOOLEAN :
              [x EXCEPT !.pc = place, !.home = h, !.child = b] \in Operations
        BY DEF Operations
      <3> QED BY <1>1, <3>1, Zenon
    <2>2. /\ started.pc = pc /\ started.home = home /\ started.child
          /\ started.proc = op[o].proc /\ started.kind = op[o].kind
          /\ started.waiting = op[o].waiting /\ started.rt = op[o].rt
          /\ started.overtaken = op[o].overtaken
      BY <1>1 DEF Operations
    <2>3. op' = [op EXCEPT ![o] = started]
      BY <1>2 DEF OpTyped
    <2>4. op'[o] = started /\ \A q \in Ops \ {o} : op'[q] = op[q]
      BY <2>3 DEF OpTyped
    <2>5. OpTyped'
      BY <2>1, <2>3, Retyped
    <2>6. dirs' \subseteq Home /\ dirs \subseteq dirs' /\ home \in dirs'
      BY <1>2 DEF Typed
    <2> HIDE DEF started
    <2> QED BY <2>2, <2>4, <2>5, <2>6
  <1>3. CASE End(o) /\ UNCHANGED dirs
    <2>1. op'[o] = Idle /\ \A q \in Ops \ {o} : op'[q] = op[q]
      BY <1>3 DEF End, OpTyped
    <2>2. OpTyped'
      BY <1>3, IdleOperation, Retyped DEF End
    <2> QED BY <1>3, <2>1, <2>2 DEF Typed
  <1> QED BY <1>2, <1>3 DEF Launch

LEMMA GeminiRegisterStep ==
    ASSUME Inv, NEW o \in Ops, GeminiRegister(o)
    PROVE  Inv'
  <1> DEFINE home == IF store.gemini = 0 THEN homes + 1 ELSE store.gemini
  <1>1. /\ op[o].pc = "gregister" /\ op[o].waiting /\ Mine(o) /\ Claimable(op[o].proc)
        /\ home \in Home /\ home # 0 /\ store.gemini \in {0, home}
        /\ homes' \in Home
        /\ store' = [Claimed(op[o].proc) EXCEPT !.gemini = home]
        /\ Launch(o, home, "gchild") /\ lock' = None
        /\ UNCHANGED <<disconnecting, alive, crashes, saved, orphans>> /\ Provider
    BY DEF GeminiRegister, Home, Typed
  <1> HIDE DEF home
  <1>2. op[o].proc \in alive /\ op[o].proc \in Procs
    BY <1>1, Server
  <1>3. /\ store' \in Stores /\ store'.owner = op[o].proc /\ store'.rt = store.rt
        /\ store'.gemini = home /\ store'.key = store.key
    BY <1>1, <1>2, ClaimedStore DEF Stores
  <1>4. /\ OpTyped' /\ dirs' \subseteq Home /\ dirs \subseteq dirs'
        /\ \A q \in Ops \ {o} : op'[q] = op[q]
        /\ \/ op'[o] = Idle
           \/ /\ op'[o].pc = "gchild" /\ op'[o].home = home /\ op'[o].child
              /\ op'[o].proc = op[o].proc /\ op'[o].kind = op[o].kind
              /\ op'[o].waiting = op[o].waiting /\ op'[o].rt = op[o].rt
              /\ op'[o].overtaken = op[o].overtaken
              /\ home \in dirs'
    BY <1>1, Launched
  <1>5. op[o].kind = "gsignin" /\ ~op[o].child
    BY <1>1 DEF Placed
  <1>50. /\ op'[o].pc \in {"idle", "gchild"} /\ op'[o].kind # "signin"
         /\ op'[o].pc = "idle" => op'[o].proc = None /\ ~op'[o].child /\ ~op'[o].waiting
         /\ op'[o].pc = "gchild" => /\ op'[o].proc = op[o].proc /\ op'[o].home = home
                                    /\ op'[o].kind = "gsignin" /\ home \in dirs'
    <2>1. CASE op'[o] = Idle
      BY <2>1, Fields
    <2>2. CASE op'[o] # Idle
      BY <1>4, <1>5, <2>2
    <2> QED BY <2>1, <2>2
  <1>6. Typed'
    BY <1>1, <1>3, <1>4 DEF Provider, Typed
  <1>7. Placed'
    BY <1>1, <1>2, <1>4, <1>5, <1>50 DEF Placed
  <1>8. Locked' /\ Copied'
    BY <1>1, <1>4, LockReleased, Fields DEF Renewing
  <1>9. OneRuntime'
    BY <1>1, <1>2, <1>3, <1>4, <1>50 DEF Placed, Claimable, Child, Typed, OneRuntime
  <1>10. KeyKept'
    BY <1>1, <1>3 DEF KeyKept
  <1>11. Tokens'
    <2>1. /\ \A q \in Ops : Holds(q)' => q # o /\ Holds(q)
          /\ op'[o].pc \in {"idle", "gchild"}
      BY <1>4, Fields DEF Holds
    <2> QED BY <1>1, <1>3, <1>4, <2>1 DEF Holds, Provider, Tokens
  <1>12. Profiles'
    <2>1. ~disconnecting[op[o].proc]
      BY <1>1, <1>5 DEF Profiles
    <2>2. \A q \in Ops : Child(q)' =>
            op'[q].home # 0 /\ store'.gemini = op'[q].home /\ op'[q].home \in dirs'
      BY <1>1, <1>3, <1>4, <1>50 DEF Child, Profiles
    <2>3. op'[o].pc \in {"idle", "gchild"}
      BY <1>4, Fields
    <2>4. \A d \in Ops : op'[d].pc \in {"gkill", "gclear"} =>
            d # o /\ op'[d] = op[d] /\ op[d].proc # op[o].proc
      BY <1>4, <2>1, <2>3 DEF Profiles
    <2>5. Child(o)' => op'[o].proc = op[o].proc
      BY <1>4, Fields DEF Child
    <2>6. op'[o].kind = "gsignin" /\ op'[o].waiting => op'[o].proc = op[o].proc
      BY <1>4, Fields
    <2> QED BY <1>1, <1>4, <2>1, <2>2, <2>3, <2>4, <2>5, <2>6 DEF Child, Profiles
  <1> QED BY <1>4, <1>6, <1>7, <1>8, <1>9, <1>10, <1>11, <1>12

LEMMA GeminiAnswerStep ==
    ASSUME Inv, NEW o \in Ops, GeminiAnswer(o)
    PROVE  Inv'
  <1>1. Typed'
    BY DEF GeminiAnswer, Take, Provider, Local, Typed
  <1>2. OpTyped'
    BY Names, IdleOperation DEF GeminiAnswer, To, OpTyped, Operations
  <1>3. Placed'
    BY DEF GeminiAnswer, To, Local, Placed
  <1>4. Locked' /\ Copied'
    BY LockTaken DEF Sections, Renewing, Idle, Begin, To, End, Nothing, Local, OpTyped, Operations, GeminiAnswer
  <1>6. OneRuntime'
    BY DEF Child, GeminiAnswer, Local, To, Nothing, OneRuntime
  <1>7. KeyKept'
    BY DEF GeminiAnswer, Nothing, Local, KeyKept
  <1>8. Tokens'
    BY DEF Holds, GeminiAnswer, To, Nothing, Provider, Tokens
  <1>9. Profiles'
    BY DEF Child, GeminiAnswer, Local, To, Nothing, Profiles
  <1> QED BY <1>1, <1>2, <1>3, <1>4, <1>6, <1>7, <1>8, <1>9

LEMMA GeminiSaveStep ==
    ASSUME Inv, NEW o \in Ops, GeminiSave(o)
    PROVE  Inv'
  <1>1. Typed'
    BY Fields DEF Stores, Token, Home, GeminiSave, GeminiSaved, Provider, Local, Typed, OpTyped, Operations
  <1>2. OpTyped'
    <2>1. CASE Child(o)
      <3>1. op' = [op EXCEPT ![o] = [op[o] EXCEPT !.pc = "gstop", !.waiting = FALSE]]
        BY <2>1 DEF GeminiSave, GeminiSaved, GeminiSaved
      <3>2. [op[o] EXCEPT !.pc = "gstop", !.waiting = FALSE] \in Operations
        BY Names, Updated, Zenon DEF OpTyped
      <3> QED BY <3>1, <3>2, Retyped
    <2>2. CASE ~Child(o)
      BY <2>2, IdleOperation, Retyped DEF GeminiSave, GeminiSaved, GeminiSaved
    <2> QED BY <2>1, <2>2
  <1>3. Placed'
    BY Fields DEF GeminiSave, GeminiSaved, Local, Placed
  <1>4. Locked' /\ Copied'
    BY LockReleased, Fields DEF Sections, Renewing, To, End, Nothing, Local, OpTyped, Operations, GeminiSave, GeminiSaved
  <1>6. OneRuntime'
    BY Fields DEF Child, GeminiSave, GeminiSaved, OneRuntime
  <1>7. KeyKept'
    BY DEF GeminiSave, GeminiSaved, Local, KeyKept
  <1>8. Tokens'
    BY Fields DEF Holds, GeminiSave, GeminiSaved, Provider, Tokens
  <1>9. Profiles'
    BY Fields DEF Local, Child, GeminiSave, GeminiSaved, Profiles
  <1> QED BY <1>1, <1>2, <1>3, <1>4, <1>6, <1>7, <1>8, <1>9

LEMMA BeginRunStep ==
    ASSUME Inv, NEW o \in Ops, NEW p \in Procs, BeginRun(o, p)
    PROVE  Inv'
  <1>1. Typed'
    BY DEF BeginRun, Take, Provider, Local, Typed
  <1>2. OpTyped'
    <2>1. [Begin(o, p, "grun", "genter") EXCEPT !.home = store.gemini] \in Operations
      BY Names, IdleOperation DEF Stores, Begin, Operations, Typed
    <2> QED BY <2>1, Retyped DEF BeginRun
  <1>3. Placed'
    BY DEF Idle, BeginRun, Begin, Local, Placed
  <1>4. Locked' /\ Copied'
    BY LockTaken DEF Sections, Renewing, Idle, Begin, To, End, Nothing, Local, OpTyped, Operations, BeginRun
  <1>6. OneRuntime'
    BY DEF Idle, Child, BeginRun, Local, Begin, Nothing, OneRuntime
  <1>7. KeyKept'
    BY DEF BeginRun, Nothing, Local, KeyKept
  <1>8. Tokens'
    BY DEF Idle, Holds, BeginRun, Begin, Nothing, Provider, Tokens
  <1>9. Profiles'
    BY DEF Child, BeginRun, Local, Begin, Nothing, Profiles
  <1> QED BY <1>1, <1>2, <1>3, <1>4, <1>6, <1>7, <1>8, <1>9

LEMMA GeminiEnterStep ==
    ASSUME Inv, NEW o \in Ops, GeminiEnter(o)
    PROVE  Inv'
  <1>1. /\ op[o].pc = "genter" /\ Mine(o) /\ Claimable(op[o].proc)
        /\ store.gemini = op[o].home /\ store' = Claimed(op[o].proc) /\ lock' = None
        /\ \/ End(o) /\ UNCHANGED dirs
           \/ ~disconnecting[op[o].proc] /\ Launch(o, op[o].home, "grunning")
        /\ UNCHANGED <<disconnecting, alive, homes, crashes, saved, orphans>> /\ Provider
    BY DEF GeminiEnter, RunRefused
  <1>2. /\ op[o].proc \in alive /\ op[o].proc \in Procs /\ op[o].home \in Home
        /\ op[o].kind = "grun" /\ op[o].home # 0 /\ ~op[o].child
    BY <1>1, Server DEF Placed, Profiles, OpTyped, Operations
  <1>3. /\ store' \in Stores /\ store'.owner = op[o].proc /\ store'.rt = store.rt
        /\ store'.gemini = op[o].home /\ store'.key = store.key
    BY <1>1, <1>2, ClaimedStore
  <1>4. /\ OpTyped' /\ dirs' \subseteq Home /\ dirs \subseteq dirs'
        /\ \A q \in Ops \ {o} : op'[q] = op[q]
        /\ \/ op'[o] = Idle
           \/ /\ op'[o].pc = "grunning" /\ op'[o].home = op[o].home /\ op'[o].child
              /\ op'[o].proc = op[o].proc /\ op'[o].kind = op[o].kind
              /\ op'[o].waiting = op[o].waiting /\ op'[o].rt = op[o].rt
              /\ op'[o].overtaken = op[o].overtaken
              /\ op[o].home \in dirs' /\ ~disconnecting[op[o].proc]
    <2>1. CASE End(o) /\ UNCHANGED dirs
      <3>1. Launch(o, op[o].home, "grunning")
        BY <2>1 DEF Launch
      <3> QED BY <1>2, <2>1, <3>1, Launched DEF End, OpTyped
    <2>2. CASE ~disconnecting[op[o].proc] /\ Launch(o, op[o].home, "grunning")
      BY <1>2, <2>2, Launched
    <2> QED BY <1>1, <2>1, <2>2
  <1>6. Typed'
    BY <1>1, <1>3, <1>4 DEF Provider, Typed
  <1>7. Placed'
    BY <1>1, <1>2, <1>4, Fields DEF Placed
  <1>8. Locked' /\ Copied'
    BY <1>1, <1>4, LockReleased, Fields DEF Renewing
  <1>9. OneRuntime'
    BY <1>1, <1>2, <1>3, <1>4, Fields DEF Placed, Claimable, Child, Typed, OneRuntime
  <1>10. KeyKept'
    BY <1>1, <1>3 DEF KeyKept
  <1>11. Tokens'
    <2>1. /\ \A q \in Ops : Holds(q)' => q # o /\ Holds(q)
          /\ op'[o].pc \in {"idle", "grunning"}
      BY <1>4, Fields DEF Holds
    <2> QED BY <1>1, <1>3, <1>4, <2>1 DEF Holds, Provider, Tokens
  <1>12. Profiles'
    <2>2. \A q \in Ops : Child(q)' =>
            op'[q].home # 0 /\ store'.gemini = op'[q].home /\ op'[q].home \in dirs'
      BY <1>1, <1>2, <1>3, <1>4, Fields DEF Child, Profiles
    <2>3. op'[o].pc \in {"idle", "grunning"} /\ op'[o].kind # "gsignin"
      BY <1>2, <1>4, Fields
    <2>4. \A d \in Ops : op'[d].pc \in {"gkill", "gclear"} => d # o /\ op'[d] = op[d]
      BY <1>4, <2>3
    <2>5. Child(o)' => op'[o].proc = op[o].proc /\ ~disconnecting[op[o].proc]
      BY <1>4, Fields DEF Child
    <2> QED BY <1>1, <1>4, <2>2, <2>3, <2>4, <2>5 DEF Child, Profiles
  <1> QED BY <1>4, <1>6, <1>7, <1>8, <1>9, <1>10, <1>11, <1>12

LEMMA ChildExitStep ==
    ASSUME Inv, NEW o \in Ops, ChildExit(o)
    PROVE  Inv'
  <1>1. CASE op[o].pc = "gsave"
    <2>1. Typed'
      BY <1>1 DEF ChildExit, Nothing, Provider, Local, Typed
    <2>2. OpTyped'
      <3>1. op' = [op EXCEPT ![o] = [op[o] EXCEPT !.child = FALSE, !.waiting = FALSE]]
        BY <1>1 DEF ChildExit
      <3>2. [op[o] EXCEPT !.child = FALSE, !.waiting = FALSE] \in Operations
        BY Names, Updated, Zenon DEF OpTyped
      <3> QED BY <3>1, <3>2, Retyped
    <2>3. Placed'
      BY <1>1 DEF ChildExit, Local, Placed
    <2>4. Locked'
      BY <1>1 DEF ChildExit, Nothing, Locked
    <2>5. Copied'
      BY <1>1 DEF Claimed, Claimable, ChildExit, Nothing, Local, Copied
    <2>6. OneRuntime'
      BY <1>1 DEF Child, ChildExit, Nothing, OneRuntime
    <2>7. KeyKept'
      BY <1>1 DEF ChildExit, Nothing, Local, KeyKept
    <2>8. Tokens'
      BY <1>1 DEF Holds, ChildExit, Nothing, Provider, Tokens
    <2>9. Profiles'
      BY <1>1 DEF Local, Child, ChildExit, Nothing, Profiles
    <2> QED BY <2>1, <2>2, <2>3, <2>4, <2>5, <2>6, <2>7, <2>8, <2>9
  <1>2. CASE op[o].pc # "gsave"
    <2>1. op[o].pc \in {"gchild", "gstop", "grunning"}
      BY <1>2 DEF ChildExit, Child, Placed
    <2>2. op[o].pc \notin Sections \union Renewing
      BY <2>1 DEF Sections, Renewing
    <2>3. End(o) /\ Release(o)
      BY <1>2, <2>2 DEF ChildExit, Nothing, End, Release, Locked
    <2> QED BY <2>2, <2>3, Ends DEF ChildExit, Nothing
  <1> QED BY <1>1, <1>2

LEMMA GeminiStoppedStep ==
    ASSUME Inv, NEW o \in Ops, GeminiStopped(o)
    PROVE  Inv'
  <1>1. Typed'
    BY DEF GeminiStopped, Take, Provider, Local, Typed
  <1>2. OpTyped'
    BY Names, IdleOperation DEF GeminiStopped, To, OpTyped, Operations
  <1>3. Placed'
    BY DEF GeminiStopped, To, Local, Placed
  <1>4. Locked' /\ Copied'
    BY LockTaken DEF Sections, Renewing, Idle, Begin, To, End, Nothing, Local, OpTyped, Operations, GeminiStopped
  <1>6. OneRuntime'
    BY DEF Child, GeminiStopped, Local, To, Nothing, OneRuntime
  <1>7. KeyKept'
    BY DEF GeminiStopped, Nothing, Local, KeyKept
  <1>8. Tokens'
    BY DEF Holds, GeminiStopped, To, Nothing, Provider, Tokens
  <1>9. Profiles'
    BY DEF Child, GeminiStopped, Local, To, Nothing, Profiles
  <1> QED BY <1>1, <1>2, <1>3, <1>4, <1>6, <1>7, <1>8, <1>9

LEMMA GeminiStopFailsStep ==
    ASSUME Inv, NEW o \in Ops, GeminiStopFails(o)
    PROVE  Inv'
  <1>1. Typed'
    BY Fields DEF Stores, Token, Home, GeminiStopFails, GeminiDisconnectEnds, End, Provider, 
       Local, Typed, OpTyped, Operations
  <1>2. OpTyped'
    BY Names, IdleOperation DEF GeminiStopFails, GeminiDisconnectEnds, End, OpTyped
  <1>3. Placed'
    BY Fields DEF GeminiStopFails, GeminiDisconnectEnds, End, Local, Placed
  <1>4. Locked' /\ Copied'
    BY LockKept, Fields DEF GeminiDisconnectEnds, Sections, Renewing, To, End, Nothing, Local, OpTyped, Operations, GeminiStopFails
  <1>6. OneRuntime'
    BY Fields DEF Child, GeminiStopFails, GeminiDisconnectEnds, End, OneRuntime
  <1>7. KeyKept'
    BY DEF GeminiStopFails, Local, KeyKept
  <1>8. Tokens'
    BY Fields DEF Holds, GeminiStopFails, GeminiDisconnectEnds, End, Provider, Tokens
  <1>9. Profiles'
    BY Fields DEF Local, Child, GeminiStopFails, GeminiDisconnectEnds, End, OpTyped, Profiles
  <1> QED BY <1>1, <1>2, <1>3, <1>4, <1>6, <1>7, <1>8, <1>9

LEMMA GeminiClearStep ==
    ASSUME Inv, NEW o \in Ops, GeminiClear(o)
    PROVE  Inv'
  <1>1. /\ op[o].pc = "gclear" /\ Mine(o) /\ Claimable(op[o].proc)
        /\ dirs' = dirs \ {store.gemini} /\ lock' = None
        /\ disconnecting' = [disconnecting EXCEPT ![op[o].proc] = FALSE]
        /\ op' = [op EXCEPT ![o] = Idle]
        /\ UNCHANGED <<alive, homes, crashes, saved, orphans>> /\ Provider
    BY DEF GeminiClear, GeminiDisconnectEnds, End
  <1>2. op[o].proc \in alive /\ op[o].proc \in Procs
    BY <1>1, Server
  <1>3. /\ store' \in Stores /\ store'.rt = store.rt /\ store'.key = store.key
        /\ store'.owner = op[o].proc \/ store' = store
    <2> DEFINE Selection == {"none", "chatgpt", "gemini"}
               left == IF store.selection = "gemini" THEN "none" ELSE store.selection
               cleared == [Claimed(op[o].proc) EXCEPT
                             !.gemini = 0, !.connected = FALSE, !.selection = left]
    <2>1. /\ left \in Selection /\ 0 \in Home /\ FALSE \in BOOLEAN
          /\ Claimed(op[o].proc) \in Stores
      BY <1>2, ClaimedStore DEF Stores, Home, Typed
    <2>2. \A s \in Stores, home \in Home, b \in BOOLEAN, c \in Selection :
            [s EXCEPT !.gemini = home, !.connected = b, !.selection = c] \in Stores
      BY DEF Stores
    <2>3. cleared \in Stores
      <3> HIDE DEF left, Selection
      <3> QED BY <2>1, <2>2, Zenon
    <2>4. cleared.rt = store.rt /\ cleared.key = store.key /\ cleared.owner = op[o].proc
      BY <1>2, ClaimedStore
    <2>5. Claimed(op[o].proc).selection = store.selection
      BY DEF Claimed
    <2>6. store' = cleared \/ store' = store
      BY <2>5 DEF GeminiClear
    <2> HIDE DEF cleared
    <2> QED BY <2>3, <2>4, <2>6 DEF Typed
  <1>4. /\ op'[o] = Idle /\ \A q \in Ops \ {o} : op'[q] = op[q]
    BY <1>1 DEF OpTyped
  <1>5. \A q \in Ops : ~Child(q)
    <2> SUFFICES ASSUME NEW q \in Ops, Child(q) PROVE FALSE OBVIOUS
    <2>1. store.owner = op[q].proc
      BY DEF OneRuntime
    <2>2. op[q].proc \in alive
      BY DEF Placed, Child
    <2>3. op[q].proc = op[o].proc
      BY <1>1, <2>1, <2>2 DEF Claimable, Typed
    <2> QED BY <1>1, <2>3 DEF Profiles
  <1>6. Typed'
    BY <1>1, <1>3 DEF Provider, Typed
  <1>7. OpTyped'
    BY <1>1, IdleOperation, Retyped
  <1>8. Placed'
    BY <1>1, <1>4, Fields DEF Placed
  <1>9. Locked' /\ Copied'
    BY <1>1, <1>4, LockReleased, Fields DEF Renewing
  <1>10. OneRuntime'
    BY <1>1, <1>3, <1>4, Fields DEF Claimable, Placed, Child, Typed, OneRuntime
  <1>11. KeyKept'
    BY <1>1, <1>3 DEF KeyKept
  <1>12. Tokens'
    BY <1>1, <1>3, <1>4, Fields DEF Holds, Provider, Tokens
  <1>13. Profiles'
    <2>1. \A q \in Ops : ~Child(q)'
      BY <1>4, <1>5, Fields DEF Child
    <2>2. \A d \in Ops : op'[d].pc \in {"gkill", "gclear"} =>
            /\ d # o /\ op'[d] = op[d] /\ op[d].proc # op[o].proc
            /\ disconnecting'[op[d].proc]
      <3> SUFFICES ASSUME NEW d \in Ops, op'[d].pc \in {"gkill", "gclear"}
                   PROVE  /\ d # o /\ op'[d] = op[d] /\ op[d].proc # op[o].proc
                          /\ disconnecting'[op[d].proc]
        OBVIOUS
      <3>1. d # o /\ op'[d] = op[d]
        BY <1>4, Fields
      <3>2. op[d].proc # op[o].proc /\ disconnecting[op[d].proc]
        BY <1>1, <3>1 DEF Profiles
      <3>3. op[d].proc \in Procs
        BY <3>1, Server
      <3> QED BY <1>1, <3>1, <3>2, <3>3 DEF Typed
    <2>3. \A q \in Ops : op'[q].kind = "gsignin" /\ op'[q].waiting =>
            ~disconnecting'[op'[q].proc]
      <3> SUFFICES ASSUME NEW q \in Ops, op'[q].kind = "gsignin", op'[q].waiting
                   PROVE  ~disconnecting'[op'[q].proc]
        OBVIOUS
      <3>1. q # o /\ op'[q] = op[q]
        BY <1>4, Fields
      <3>2. op[q].proc \in Procs
        BY <3>1 DEF Placed, Typed
      <3> QED BY <1>1, <3>1, <3>2 DEF Profiles, Typed
    <2>4. \A q \in Ops : op'[q].pc = "genter" => op'[q].home # 0
      BY <1>4, Fields DEF Profiles
    <2> QED BY <2>1, <2>2, <2>3, <2>4 DEF Profiles
  <1> QED BY <1>6, <1>7, <1>8, <1>9, <1>10, <1>11, <1>12, <1>13

LEMMA SectionThrowsStep ==
    ASSUME Inv, NEW o \in Ops, SectionThrows(o)
    PROVE  Inv'
  <1>1. /\ op[o].pc \in Sections /\ op[o].pc \notin Renewing /\ op[o].pc # "idle"
        /\ Release(o) /\ UNCHANGED store /\ Provider /\ Local
    BY SectionPlaces DEF SectionThrows
  <1>2. CASE End(o) /\ UNCHANGED disconnecting
    BY <1>1, <1>2, Ends
  <1>3. CASE op[o].pc = "gsave" /\ GeminiSaved(o) /\ UNCHANGED disconnecting
    <2>1. CASE ~Child(o)
      <3>1. End(o)
        BY <1>3, <2>1 DEF GeminiSaved, End
      <3> QED BY <1>1, <1>3, <3>1, Ends
    <2>2. CASE Child(o)
      <3>1. op' = [op EXCEPT ![o] = [op[o] EXCEPT !.pc = "gstop", !.waiting = FALSE]]
        BY <1>3, <2>2 DEF GeminiSaved
      <3>2. [op[o] EXCEPT !.pc = "gstop", !.waiting = FALSE] \in Operations
        BY Names, Updated, Zenon DEF OpTyped
      <3>3. Typed'
        BY <1>1, <1>3 DEF Release, Provider, Local, Typed
      <3>4. OpTyped'
        BY <3>1, <3>2, Retyped
      <3>5. Placed'
        BY <1>1, <1>3, <3>1 DEF Local, OpTyped, Operations, Placed
      <3>6. Locked' /\ Copied'
        <4>1. /\ op'[o].pc \notin Renewing /\ \A q \in Ops \ {o} : op'[q] = op[q]
          BY <3>1 DEF Renewing, OpTyped, Operations
        <4>2. \A q \in Ops : op'[q].pc \in Renewing => q # o /\ op[q].pc \in Renewing
          BY <4>1
        <4>3. Locked'
          BY <1>1, <4>1, <4>2 DEF Release, Locked
        <4>4. Copied'
          BY <1>1, <4>1, <4>2 DEF Copied, Claimed, Claimable, Local
        <4> QED BY <4>3, <4>4
      <3>7. OneRuntime'
        BY <1>1, <3>1 DEF Child, OpTyped, Operations, OneRuntime
      <3>8. KeyKept'
        BY <1>1 DEF Local, KeyKept
      <3>9. Tokens'
        BY <1>1, <1>3, <3>1 DEF Holds, Provider, OpTyped, Operations, Tokens
      <3>10. Profiles'
        BY <1>1, <1>3, <3>1 DEF Child, Local, OpTyped, Operations, Profiles
      <3> QED BY <3>3, <3>4, <3>5, <3>6, <3>7, <3>8, <3>9, <3>10
    <2> QED BY <2>1, <2>2
  <1>4. CASE op[o].pc = "gclear" /\ GeminiDisconnectEnds(o)
    <2>1. Typed'
      BY <1>1, <1>4 DEF Release, GeminiDisconnectEnds, Provider, Local, Typed
    <2>2. op'[o] = Idle /\ \A q \in Ops \ {o} : op'[q] = op[q]
      BY <1>4 DEF GeminiDisconnectEnds, End, OpTyped
    <2>3. OpTyped'
      BY <1>4, IdleOperation, Retyped DEF GeminiDisconnectEnds, End
    <2>4. Placed'
      BY <1>1, <2>2, Fields DEF Local, Placed
    <2>5. Locked' /\ Copied'
      <3>1. \A q \in Ops : op'[q].pc \in Renewing => q # o /\ op[q].pc \in Renewing
        BY <2>2, Fields DEF Renewing
      <3>2. Locked'
        BY <1>1, <2>2, <3>1 DEF Release, Locked
      <3>3. Copied'
        BY <1>1, <2>2, <3>1 DEF Copied, Claimed, Claimable, Local
      <3> QED BY <3>2, <3>3
    <2>6. OneRuntime'
      BY <1>1, <2>2, Fields DEF Child, OneRuntime
    <2>7. KeyKept'
      BY <1>1 DEF Local, KeyKept
    <2>8. Tokens'
      <3>1. op'[o].pc = "idle"
        BY <2>2, Fields
      <3> QED BY <1>1, <1>4, <2>2, <3>1 DEF Holds, Provider, Tokens
    <2>9. Profiles'
      BY <1>1, <1>4, <2>2, Fields DEF Child, GeminiDisconnectEnds, Local, OpTyped, Profiles
    <2> QED BY <2>1, <2>3, <2>4, <2>5, <2>6, <2>7, <2>8, <2>9
  <1> QED BY <1>2, <1>3, <1>4 DEF SectionThrows

LEMMA OrphanExitStep ==
    ASSUME Inv, NEW h \in orphans, OrphanExit(h)
    PROVE  Inv'
  <1>1. Typed' BY DEF OrphanExit, Nothing, Provider, Typed
  <1>2. OpTyped' BY DEF OrphanExit, OpTyped
  <1>3. Placed' /\ Locked' /\ Copied'
    BY DEF Claimed, Claimable, OrphanExit, Nothing, Placed, Locked, Copied
  <1>4. OneRuntime' /\ KeyKept' BY DEF Child, OrphanExit, Nothing, OneRuntime, KeyKept
  <1>5. Tokens' BY DEF Holds, OrphanExit, Nothing, Provider, Tokens
  <1>6. Profiles' BY DEF Child, OrphanExit, Nothing, Profiles
  <1> QED BY <1>1, <1>2, <1>3, <1>4, <1>5, <1>6

LEMMA CrashStep ==
    ASSUME Inv, NEW p \in Procs, Crash(p)
    PROVE  Inv'
  <1>1. Typed'
    <2>1. orphans' \subseteq Home
      BY DEF Crash, Typed, OpTyped, Operations
    <2>2. lock' \in Ops \union {None}
      BY DEF Crash, Typed
    <2>3. disconnecting' \in [Procs -> BOOLEAN] /\ crashes' \in 0..MaxCrashes
      BY DEF Crash, Typed
    <2> QED BY <2>1, <2>2, <2>3 DEF Crash, Typed
  <1>2. OpTyped'
    BY Names, IdleOperation DEF Crash, OpTyped
  <1>3. Placed'
    BY Fields DEF Crash, Placed
  <1>4. Locked' /\ Copied'
    <2>1. \A q \in Ops : \/ op[q].proc = p /\ op'[q].pc = "idle"
                         \/ op[q].proc # p /\ op'[q] = op[q]
      <3> SUFFICES ASSUME NEW q \in Ops
                   PROVE  \/ op[q].proc = p /\ op'[q].pc = "idle"
                          \/ op[q].proc # p /\ op'[q] = op[q]
        OBVIOUS
      <3>1. op'[q] = IF op[q].proc = p THEN Idle ELSE op[q]
        BY DEF Crash
      <3>2. CASE op[q].proc = p
        <4>1. op'[q] = Idle BY <3>1, <3>2
        <4> QED BY <3>2, <4>1, Fields
      <3>3. CASE op[q].proc # p
        BY <3>1, <3>3
      <3> QED BY <3>2, <3>3
    <2>2. \A q \in Ops : op'[q].pc \in Renewing =>
            op[q].pc \in Renewing /\ op'[q] = op[q] /\ op[q].proc # p
      BY <2>1 DEF Renewing
    <2>3. Locked'
      BY <2>1, <2>2 DEF Crash, Locked
    <2>4. Copied'
      BY <2>2 DEF Claimed, Claimable, Crash, Copied
    <2> QED BY <2>3, <2>4
  <1>6. OneRuntime'
    BY Fields DEF Child, Crash, OneRuntime
  <1>7. KeyKept'
    BY DEF Crash, KeyKept
  <1>8. Tokens'
    <2>1. /\ \A q \in Ops : op'[q] = op[q] \/ op'[q].pc = "idle"
        /\ store' = store /\ valid' = valid /\ issued' = issued
      <3>1. \A q \in Ops : op'[q] = IF op[q].proc = p THEN Idle ELSE op[q]
        BY DEF Crash
      <3>2. \A q \in Ops : op'[q] = op[q] \/ op'[q].pc = "idle"
        BY <3>1, Fields
      <3> QED BY <3>2 DEF Crash
    <2>2. ASSUME NEW q \in Ops, op[q].pc = "persist", op'[q].pc # "persist" PROVE lost' = TRUE
      BY <2>2 DEF Renewing, Locked, Crash
    <2>3. ~lost' => ~lost
      BY DEF Crash, Typed
    <2> QED BY <2>1, <2>2, <2>3 DEF Tokens, Holds
  <1>9. Profiles'
    BY Fields DEF Local, Child, Crash, Profiles
  <1> QED BY <1>1, <1>2, <1>3, <1>4, <1>6, <1>7, <1>8, <1>9

LEMMA RestartStep ==
    ASSUME Inv, NEW p \in Procs, Restart(p)
    PROVE  Inv'
  <1>1. Typed'
    BY DEF Stores, Restart, Provider, Typed
  <1>2. OpTyped'
    BY Names, IdleOperation DEF Restart, OpTyped
  <1>3. Placed'
    BY DEF Restart, Placed
  <1>4. Locked'
    BY DEF Restart, Locked
  <1>5. Copied'
    BY DEF Stores, Locked, Claimed, Claimable, Placed, Idle, Restart, Provider, Typed, OpTyped,
       Operations, Copied
  <1>6. OneRuntime'
    BY DEF Placed, Child, Restart, OneRuntime
  <1>7. KeyKept'
    BY DEF Restart, KeyKept
  <1>8. Tokens'
    BY DEF Holds, Restart, Provider, Tokens
  <1>9. Profiles'
    BY DEF Local, Child, Restart, Profiles
  <1> QED BY <1>1, <1>2, <1>3, <1>4, <1>5, <1>6, <1>7, <1>8, <1>9

-----------------------------------------------------------------------------
LEMMA InvInit == Init => Inv
  <1> SUFFICES ASSUME Init PROVE Inv OBVIOUS
  <1>1. /\ \A o \in Ops : op[o] = Idle
        /\ Idle.pc = "idle" /\ Idle.proc = None /\ Idle.child = FALSE /\ Idle.waiting = FALSE
        /\ Idle.kind = "none"
    BY DEF Idle, Init
  <1>2. Typed
    <2>1. store \in Stores
      BY DEF Stores, Token, Home, Init
    <2>2. disconnecting \in [Procs -> BOOLEAN]
      BY DEF Init
    <2>3. /\ 0 \in Token /\ 0 \in Home /\ 0 \in 0..MaxCrashes
          /\ FALSE \in BOOLEAN /\ alive = Procs
      BY DEF Token, Home, Init
    <2> QED BY <2>1, <2>2, <2>3 DEF Init, Typed
  <1>3. OpTyped
    BY IdleOperation DEF Init, OpTyped
  <1>4. Placed /\ Locked /\ Copied
    BY <1>1 DEF Placed, Renewing, Locked, Copied, Init
  <1>5. OneRuntime /\ KeyKept /\ Profiles
    BY <1>1 DEF OneRuntime, KeyKept, Profiles, Child, Init
  <1>6. Tokens
    BY <1>1 DEF Tokens, Holds, Init
  <1> QED BY <1>2, <1>3, <1>4, <1>5, <1>6

LEMMA StutterStep == ASSUME Inv, UNCHANGED vars PROVE Inv'
  <1>1. Typed' BY DEF vars, Typed
  <1>2. OpTyped' BY DEF vars, OpTyped
  <1>3. Placed' /\ Locked' /\ Copied'
    BY DEF Claimed, Claimable, vars, Placed, Locked, Copied
  <1>4. OneRuntime' /\ KeyKept' BY DEF Child, vars, OneRuntime, KeyKept
  <1>5. Tokens' BY DEF Holds, vars, Tokens
  <1>6. Profiles' BY DEF Child, vars, Profiles
  <1> QED BY <1>1, <1>2, <1>3, <1>4, <1>5, <1>6

LEMMA InvStep == Inv /\ [Next]_vars => Inv'
  <1> SUFFICES ASSUME Inv, [Next]_vars PROVE Inv' OBVIOUS
  <1>1. ASSUME NEW o \in Ops, NEW p \in Procs,
               \/ BeginSignIn(o, p) \/ BeginRequest(o, p) \/ BeginDisconnect(o, p)
               \/ BeginGemini(o, p) \/ BeginRun(o, p) \/ BeginGeminiDisconnect(o, p)
        PROVE  Inv'
    BY <1>1, BeginSignInStep, BeginRequestStep, BeginDisconnectStep, BeginGeminiStep,
       BeginRunStep, BeginGeminiDisconnectStep
  <1>2. ASSUME NEW o \in Ops, SignIn(o) PROVE Inv'
    BY <1>2, SignInTimesOutStep, SignInClosedStep, RetainStep, ExchangeStep DEF SignIn
  <1>3. ASSUME NEW o \in Ops, Request(o) PROVE Inv'
    BY <1>3, RenewedStep, NotRenewedStep, PersistStep, StreamedStep DEF Request
  <1>4. ASSUME NEW o \in Ops, Revoke(o) PROVE Inv'
    BY <1>4, RevokeStep
  <1>5. ASSUME NEW o \in Ops, Gemini(o) PROVE Inv'
    BY <1>5, GeminiAnswerStep, ChildExitStep, GeminiStoppedStep, GeminiStopFailsStep DEF Gemini
  <1>6. ASSUME NEW s \in {"none", "chatgpt", "gemini"}, SelectConnection(s) PROVE Inv'
    BY <1>6, SelectConnectionStep
  <1>7. ASSUME NEW k \in BOOLEAN, SaveKey(k) PROVE Inv'
    BY <1>7, SaveKeyStep
  <1>8. ASSUME NEW p \in Procs, Crash(p) \/ Restart(p) PROVE Inv'
    BY <1>8, CrashStep, RestartStep
  <1>9. ASSUME NEW o \in Ops, Section(o) PROVE Inv'
    BY <1>9, RegisterStep, SaveTokensStep, EnterStep, ClearStep, GeminiRegisterStep,
       GeminiSaveStep, GeminiEnterStep, GeminiClearStep, SectionThrowsStep DEF Section
  <1>10. ASSUME NEW h \in orphans, OrphanExit(h) PROVE Inv'
    BY <1>10, OrphanExitStep
  <1>11. CASE UNCHANGED vars
    BY <1>11, StutterStep
  <1> QED BY <1>1, <1>2, <1>3, <1>4, <1>5, <1>6, <1>7, <1>8, <1>9, <1>10, <1>11 DEF Next

LEMMA Invariant == Spec => []Inv
    BY InvInit, InvStep, PTL DEF Spec

\* The store, its lock and the operations of every server keep their types.
THEOREM TypeCorrect == Spec => []TypeOK
  <1>1. Inv => TypeOK
    BY DEF Placed, Locked, Typed, OpTyped, Operations, TypeOK
  <1> QED BY <1>1, Invariant, PTL

\* The refresh token on disk is one the provider accepts, however renewals,
\* sign-ins and disconnects of the servers interleave, until one of the four
\* faults TokenIsCurrent names has lost the token of a renewal.
THEOREM TokenStaysCurrent == Spec => []TokenIsCurrent
  <1>1. Inv => TokenIsCurrent
    BY DEF Renewing, Locked, Tokens, TokenIsCurrent
  <1> QED BY <1>1, Invariant, PTL

\* No renewal writes over a key that another server has saved.
THEOREM KeyNeverLost == Spec => []KeyKept
    BY Invariant, PTL

\* Of the servers that run, only the one that owns the runtime talks to providers
\* or has a CLI process; nothing is said of the processes a crash left behind.
THEOREM RuntimeIsExclusive == Spec => []OneRuntime
    BY Invariant, PTL

\* No CLI process of a running server works on a profile that has been replaced
\* or whose directory has been removed; orphans are outside.
THEOREM ChildKeepsProfile == Spec => []ChildHasProfile
  <1>1. Inv => ChildHasProfile
    BY DEF Profiles, ChildHasProfile
  <1> QED BY <1>1, Invariant, PTL

\* The stored token stays, is cleared, or becomes one that a waiting sign-in or
\* a renewal holds.
LEMMA TokenChanges ==
    ASSUME Inv, Next
    PROVE  \/ store'.rt = store.rt
           \/ store'.rt = 0
           \/ \E q \in Ops : /\ Holds(q) /\ store'.rt = op[q].rt
                             /\ op[q].pc = "save" => op[q].waiting
  <1> DEFINE Goal == \/ store'.rt = store.rt
                     \/ store'.rt = 0
                     \/ \E q \in Ops : /\ Holds(q) /\ store'.rt = op[q].rt
                                       /\ op[q].pc = "save" => op[q].waiting
  <1>1. ASSUME NEW o \in Ops, op[o].pc # "idle" PROVE Claimed(op[o].proc).rt = store.rt
    BY <1>1, Server, ClaimedStore
  <1>2. ASSUME NEW o \in Ops, NEW p \in Procs,
               \/ BeginSignIn(o, p) \/ BeginRequest(o, p) \/ BeginDisconnect(o, p)
               \/ BeginGemini(o, p) \/ BeginRun(o, p) \/ BeginGeminiDisconnect(o, p)
        PROVE  Goal
    BY <1>2 DEF BeginSignIn, BeginRequest, BeginDisconnect, BeginGemini, BeginRun,
       BeginGeminiDisconnect
  <1>3. ASSUME NEW o \in Ops, SignIn(o) PROVE Goal
    BY <1>3 DEF SignIn, Stores, SignInTimesOut, SignInClosed, Retain, Exchange, Nothing, Typed
  <1>4. ASSUME NEW o \in Ops, Request(o) PROVE Goal
    <2>1. CASE Persist(o)
      <3>1. op[o].copy \in Stores
        BY <2>1, Server, ClaimedStore DEF Renewing, Copied, Persist
      <3> QED BY <2>1, <3>1 DEF Holds, Stores, Persist
    <2>2. CASE Renewed(o) \/ NotRenewed(o) \/ Streamed(o)
      BY <2>2 DEF Renewed, NotRenewed, Streamed, Nothing
    <2> QED BY <1>4, <2>1, <2>2 DEF Request
  <1>5. ASSUME NEW o \in Ops, Section(o) PROVE Goal
    <2>1. CASE SaveTokens(o)
      BY <2>1 DEF Holds, SaveTokens
    <2>2. CASE Register(o)
      BY <1>1, <2>2 DEF Register
    <2>3. CASE Enter(o)
      BY <1>1, <2>3 DEF Enter, Admitted
    <2>4. CASE Clear(o)
      BY <2>4 DEF Stores, Clear, Cleared, Typed
    <2>5. CASE GeminiRegister(o)
      BY <1>1, <2>5, Server, ClaimedStore DEF Stores, GeminiRegister
    <2>6. CASE GeminiEnter(o)
      BY <1>1, <2>6 DEF GeminiEnter
    <2>7. CASE GeminiClear(o)
      <3>1. Claimed(op[o].proc).rt = store.rt /\ Claimed(op[o].proc) \in Stores
        BY <2>7, Server, ClaimedStore DEF GeminiClear
      <3> QED BY <2>7, <3>1 DEF GeminiClear, Stores
    <2>8. CASE GeminiSave(o) \/ SectionThrows(o)
      BY <2>8 DEF GeminiSave, SectionThrows, Typed, Stores
    <2> QED BY <1>5, <2>1, <2>2, <2>3, <2>4, <2>5, <2>6, <2>7, <2>8 DEF Section
  <1>6. ASSUME NEW o \in Ops, Revoke(o) PROVE Goal
    BY <1>6 DEF Revoke
  <1>7. ASSUME NEW o \in Ops, Gemini(o) PROVE Goal
    BY <1>7 DEF Gemini, GeminiAnswer, ChildExit, GeminiStopped, GeminiStopFails, Nothing
  <1>8. ASSUME NEW s \in {"none", "chatgpt", "gemini"}, SelectConnection(s) PROVE Goal
    BY <1>8 DEF SelectConnection
  <1>9. ASSUME NEW k \in BOOLEAN, SaveKey(k) PROVE Goal
    BY <1>9 DEF SaveKey
  <1>10. ASSUME NEW p \in Procs, Crash(p) \/ Restart(p) PROVE Goal
    BY <1>10 DEF Stores, Crash, Restart, Typed
  <1>11. ASSUME NEW h \in orphans, OrphanExit(h) PROVE Goal
    BY <1>11 DEF OrphanExit, Nothing
  <1> HIDE DEF Goal
  <1>12. Goal
    BY <1>2, <1>3, <1>4, <1>5, <1>6, <1>7, <1>8, <1>9, <1>10, <1>11 DEF Next
  <1> QED BY <1>12 DEF Goal

LEMMA OvertakenStep ==
    ASSUME Inv, Next, NEW o \in Ops, op[o].kind = "signin", op[o].overtaken,
           store'.rt # store.rt, store'.rt # 0
    PROVE  store'.rt # op[o].rt
  <1>1. PICK q \in Ops : /\ Holds(q) /\ store'.rt = op[q].rt
                         /\ op[q].pc = "save" => op[q].waiting
    BY TokenChanges
  <1>2. ~op[o].waiting /\ (op[o].rt # 0 => op[o].pc = "save")
    BY DEF Placed
  <1>3. op[o].pc \notin {"persist", "revoke"}
    BY DEF Placed
  <1>4. q # o
    BY <1>1, <1>2, <1>3
  <1> QED BY <1>1, <1>2, <1>4 DEF Tokens, Holds

\* A sign-in that was overtaken never stores its tokens.
THEOREM OvertakenStoresNothing == Spec => OvertakenSignInStoresNothing
  <1>1. Inv /\ [Next]_vars =>
          [\A o \in Ops :
             /\ op[o].kind = "signin" /\ op[o].overtaken
             /\ store'.rt # store.rt /\ store'.rt # 0
             => store'.rt # op[o].rt]_vars
    <2> SUFFICES ASSUME Inv, Next PROVE
          \A o \in Ops :
             /\ op[o].kind = "signin" /\ op[o].overtaken
             /\ store'.rt # store.rt /\ store'.rt # 0
             => store'.rt # op[o].rt
      OBVIOUS
    <2> QED BY OvertakenStep
  <1> QED BY <1>1, Invariant, PTL DEF Spec, OvertakenSignInStoresNothing
=============================================================================
