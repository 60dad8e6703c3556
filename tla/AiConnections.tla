---------------------------- MODULE AiConnections ----------------------------
(***************************************************************************)
(* The AI connections of src/src/ai: one store of a ChatGPT account, a     *)
(* Gemini CLI profile, provider keys and the selection, shared by every    *)
(* Metis server of the user under one lock (mutex.ts, store.ts), and the   *)
(* operations of the servers on it (chatgpt.ts, gemini.ts, connections.ts).*)
(*                                                                         *)
(* Most operations hold the lock for one synchronous function, which is    *)
(* one action here, with the continuation that runs before the event loop  *)
(* turns.  An operation that comes to a free lock takes it in the step in  *)
(* which it comes, and its server does nothing else until it has let go;   *)
(* one that finds it taken polls, and other operations may be first.  Only *)
(* chatGptAccess awaits under the lock, while it exchanges its refresh     *)
(* token.  An operation that throws under the lock releases it and writes  *)
(* nothing, its claim of the runtime included; reading or writing the      *)
(* store may throw at any time.  Whether an access token has run out is    *)
(* left open.                                                              *)
(***************************************************************************)
EXTENDS Integers, FiniteSets

CONSTANTS
    Procs,           \* servers of this user
    Ops,             \* operations in flight at once, over all servers
    None,            \* no process, no operation
    MaxTokens,       \* bound on the refresh tokens ever issued
    MaxHomes,        \* bound on the Gemini profiles ever created
    MaxCrashes       \* bound on the crashes

ASSUME ConnectionsAssumption ==
    /\ None \notin Procs \union Ops
    /\ MaxTokens \in Nat /\ MaxHomes \in Nat /\ MaxCrashes \in Nat

Token == 0..MaxTokens       \* 0: signed out
Home == 0..MaxHomes         \* 0: no Gemini profile

\* connections.v1.json.  rt is the refresh token of the profile's tokens, plan
\* says that their scopes grant plan usage, key is the saved provider key.
Stores == [owner : Procs \union {None}, known : BOOLEAN, rt : Token, plan : BOOLEAN,
           gemini : Home, connected : BOOLEAN,
           selection : {"none", "chatgpt", "gemini"}, key : BOOLEAN]

VARIABLES
    store,          \* the stored envelope
    lock,           \* the operation that awaits under connections.lock, or None
    op,             \* the operations in flight
    alive,          \* running servers
    disconnecting,  \* runtime().disconnecting of each server's Gemini runtime
    valid,          \* the refresh tokens the identity provider would accept
    issued,         \* how many it has issued
    homes,          \* how many Gemini profiles were created
    crashes,        \* how many servers have crashed
    dirs,           \* the Gemini profiles whose directory exists
    orphans,        \* profiles in use by CLI processes that outlived their server
    lost,           \* history: a fault has lost a rotated token
    saved           \* history: the last provider key saved

vars == <<store, lock, op, alive, disconnecting, valid, issued, homes, crashes,
          dirs, orphans, lost, saved>>

Idle == [kind |-> "none", proc |-> None, pc |-> "idle", waiting |-> FALSE,
         aborted |-> FALSE, overtaken |-> FALSE, rt |-> 0, plan |-> FALSE,
         home |-> 0, child |-> FALSE, kids |-> {}, copy |-> None]

\* waiting: pending.status is "waiting"; aborted: the tracked request's signal;
\* overtaken: a disconnect has begun in the server since, which for a Gemini
\* run is what comparing the generation tells; child: its CLI process runs.
Begin(o, p, kind, pc) ==
    [Idle EXCEPT !.kind = kind, !.proc = p, !.pc = pc]

Of(p, kind) == {o \in Ops : op[o].proc = p /\ op[o].kind = kind}

Init ==
    /\ store = [owner |-> None, known |-> FALSE, rt |-> 0, plan |-> FALSE, gemini |-> 0,
                connected |-> FALSE, selection |-> "none", key |-> FALSE]
    /\ lock = None
    /\ op = [o \in Ops |-> Idle]
    /\ alive = Procs
    /\ disconnecting = [p \in Procs |-> FALSE]
    /\ valid = {} /\ issued = 0 /\ homes = 0 /\ crashes = 0
    /\ dirs = {} /\ orphans = {}
    /\ lost = FALSE /\ saved = FALSE

-----------------------------------------------------------------------------
(* The lock, the claim, and what the operations change *)

\* Bug: a claim is taken over while its server runs.
ClaimableAlways(p) == TRUE

\* claimAiRuntime: another live server's claim refuses this one.
Claimable(p) == store.owner = None \/ store.owner = p \/ store.owner \notin alive

Claimed(p) == [store EXCEPT !.owner = p]

To(o, pc) == op' = [op EXCEPT ![o].pc = pc]
End(o) == op' = [op EXCEPT ![o] = Idle]

Local == UNCHANGED <<alive, homes, crashes, saved, dirs, orphans>>
Provider == UNCHANGED <<valid, issued, lost>>
Nothing == UNCHANGED <<store, lock, disconnecting>> /\ Provider

\* The places of an operation that has come to the lock, and those of a
\* renewal, the only one that lets the event loop turn while it holds it.
Sections == {"register", "save", "enter", "clear", "gregister", "gsave", "genter", "gclear"}
Renewing == {"refresh", "persist"}

\* withAiMutex: BEGIN IMMEDIATE takes a free lock at once, or the poll begins.
Take(o) == lock' = IF lock = None THEN o ELSE lock

\* o has the lock, or takes it now; whoever runs a section lets go of it.
Mine(o) == lock = None \/ lock = o
Release(o) == lock' = IF lock = o THEN None ELSE lock

\* No operation of the server is in a synchronous stretch under the lock.
Turns(p) == lock # None /\ op[lock].pc \in Sections => op[lock].proc # p

-----------------------------------------------------------------------------
(* beginChatGpt *)

\* pending.cancel() of the sign-in the server has pending.
Canceled(p) ==
    [o \in Ops |-> IF o \in Of(p, "signin")
                   THEN [op[o] EXCEPT !.waiting = FALSE, !.overtaken = TRUE] ELSE op[o]]

BeginSignIn(o, p) ==
    /\ op[o] = Idle /\ p \in alive /\ Turns(p)
    /\ op' = [Canceled(p) EXCEPT ![o] =
                [Begin(o, p, "signin", "register") EXCEPT !.waiting = TRUE]]
    /\ Take(o)
    /\ UNCHANGED <<store, disconnecting>> /\ Provider /\ Local

\* Reads the registration under the lock and opens the callback listener.
Register(o) ==
    /\ op[o].pc = "register" /\ Mine(o)
    /\ op[o].waiting /\ Claimable(op[o].proc)
    /\ store' = Claimed(op[o].proc)
    /\ To(o, "browser")
    /\ lock' = None
    /\ UNCHANGED disconnecting /\ Provider /\ Local

\* The five-minute timer, or a declined authorization.
SignInTimesOut(o) ==
    /\ op[o].kind = "signin" /\ op[o].waiting /\ Turns(op[o].proc)
    /\ op' = [op EXCEPT ![o].waiting = FALSE]
    /\ Nothing /\ Local

\* A canceled sign-in has closed its listener, or drops its callback.
SignInClosed(o) ==
    /\ op[o].pc = "browser" /\ ~op[o].waiting /\ Turns(op[o].proc)
    /\ End(o)
    /\ Nothing /\ Local

\* The callback arrives; the issued registration is kept even if the exchange
\* fails.
Retain(o) ==
    /\ op[o].pc = "browser" /\ op[o].waiting /\ lock = None
    /\ store' = [store EXCEPT !.known = TRUE]
    /\ To(o, "exchange")
    /\ UNCHANGED <<lock, disconnecting>> /\ Provider /\ Local

\* The code is exchanged and the identity verified, or the sign-in fails.
Exchange(o) ==
    /\ op[o].pc = "exchange" /\ Turns(op[o].proc)
    /\ \/ /\ issued < MaxTokens
          /\ issued' = issued + 1
          /\ valid' = valid \union {issued + 1}
          /\ \E plan \in BOOLEAN :
               op' = [op EXCEPT ![o].pc = "save", ![o].rt = issued + 1, ![o].plan = plan]
       \/ End(o) /\ UNCHANGED <<valid, issued>>
    /\ UNCHANGED <<store, lock, disconnecting, lost>> /\ Local

\* Bug: the sign-in is only checked before the exchange.
SaveTokensUnchecked(o) ==
    /\ op[o].pc = "save" /\ lock = None
    /\ store' = IF store.known
                THEN [store EXCEPT !.rt = op[o].rt, !.plan = op[o].plan] ELSE store
    /\ End(o)
    /\ UNCHANGED <<lock, disconnecting>> /\ Provider /\ Local

SaveTokens(o) ==
    /\ op[o].pc = "save" /\ lock = None
    /\ store' = IF op[o].waiting /\ store.known
                THEN [store EXCEPT !.rt = op[o].rt, !.plan = op[o].plan] ELSE store
    /\ End(o)
    /\ UNCHANGED <<lock, disconnecting>> /\ Provider /\ Local

SignIn(o) ==
    SignInTimesOut(o) \/ SignInClosed(o) \/ Retain(o) \/ Exchange(o)

-----------------------------------------------------------------------------
(* A ChatGPT request: trackChatGptRequest, chatGptAccess, and the stream *)

BeginRequest(o, p) ==
    /\ op[o] = Idle /\ p \in alive /\ Turns(p)
    /\ op' = [op EXCEPT ![o] = Begin(o, p, "request", "enter")]
    /\ Take(o)
    /\ UNCHANGED <<store, disconnecting>> /\ Provider /\ Local

\* throwIfAborted, then the fetch that carries the access token.
Streaming(o) == Begin(o, op[o].proc, "request", "streaming")
Send(o) == op' = [op EXCEPT ![o] = IF op[o].aborted THEN Idle ELSE Streaming(o)]

\* The access token is good, and its scopes grant plan usage.
Admitted(o) ==
    /\ store.plan
    /\ store' = Claimed(op[o].proc)
    /\ lock' = None
    /\ Send(o)

\* Bug: the lock is released before the exchange.
EnterUnlocked(o) ==
    /\ op[o].pc = "enter" /\ Mine(o)
    /\ Claimable(op[o].proc) /\ store.rt # 0
    /\ \/ Admitted(o)
       \/ /\ lock' = None
          /\ op' = [op EXCEPT ![o].pc = "refresh", ![o].copy = Claimed(op[o].proc)]
          /\ UNCHANGED store
    /\ UNCHANGED disconnecting /\ Provider /\ Local

\* The tokens are read under the lock; an access token that has run out is
\* renewed with the lock held.
Enter(o) ==
    /\ op[o].pc = "enter" /\ Mine(o)
    /\ Claimable(op[o].proc) /\ store.rt # 0
    /\ \/ Admitted(o)
       \/ /\ lock' = o
          /\ op' = [op EXCEPT ![o].pc = "refresh", ![o].copy = Claimed(op[o].proc)]
          /\ UNCHANGED store
    /\ UNCHANGED disconnecting /\ Provider /\ Local

\* The provider accepts the token it was sent, and may rotate it.
Renewed(o) ==
    LET rt == op[o].copy.rt IN
    /\ op[o].pc = "refresh" /\ rt \in valid
    /\ \E next \in {rt} \union ({issued + 1} \cap Token), plan \in BOOLEAN :
         /\ issued' = IF next = rt THEN issued ELSE next
         /\ valid' = (valid \ {rt}) \union {next}
         /\ op' = [op EXCEPT ![o].pc = "persist", ![o].rt = next, ![o].plan = plan]
    /\ UNCHANGED <<store, lock, disconnecting, lost>> /\ Local

\* Bug: an exchange that fails keeps the lock.
NotRenewedLocked(o) ==
    LET rt == op[o].copy.rt IN
    /\ op[o].pc = "refresh"
    /\ \/ UNCHANGED valid /\ UNCHANGED lost
       \/ rt \in valid /\ valid' = valid \ {rt} /\ lost' = TRUE
    /\ End(o)
    /\ UNCHANGED <<store, lock, disconnecting, issued>> /\ Local

\* It refuses the token, it cannot be reached, or its answer is lost.
NotRenewed(o) ==
    LET rt == op[o].copy.rt IN
    /\ op[o].pc = "refresh"
    /\ \/ UNCHANGED valid /\ UNCHANGED lost
       \/ rt \in valid /\ valid' = valid \ {rt} /\ lost' = TRUE
    /\ lock' = None
    /\ End(o)
    /\ UNCHANGED <<store, disconnecting, issued>> /\ Local

\* Bug: the previous refresh token is preferred to the one in the response.
PersistPrevious(o) ==
    /\ op[o].pc = "persist"
    /\ lock' = None
    /\ \/ /\ op[o].plan
          /\ store' = [op[o].copy EXCEPT !.plan = TRUE]
          /\ Send(o)
          /\ UNCHANGED lost
       \/ /\ End(o)
          /\ lost' = (lost \/ op[o].rt # op[o].copy.rt)
          /\ UNCHANGED store
    /\ UNCHANGED <<disconnecting, valid, issued>> /\ Local

\* The scopes are checked before the callback returns, and the store is written
\* after it: a response without the plan scope, or a write that throws, leaves
\* the store as it was, the token that was replaced too.
Persist(o) ==
    /\ op[o].pc = "persist"
    /\ lock' = None
    /\ \/ /\ op[o].plan
          /\ store' = [op[o].copy EXCEPT !.rt = op[o].rt, !.plan = TRUE]
          /\ Send(o)
          /\ UNCHANGED lost
       \/ /\ End(o)
          /\ lost' = (lost \/ op[o].rt # op[o].copy.rt)
          /\ UNCHANGED store
    /\ UNCHANGED <<disconnecting, valid, issued>> /\ Local

\* The response ends, or an aborted signal ends it.
Streamed(o) ==
    /\ op[o].pc = "streaming" /\ Turns(op[o].proc)
    /\ End(o)
    /\ Nothing /\ Local

Request(o) == Renewed(o) \/ NotRenewed(o) \/ Persist(o) \/ Streamed(o)

-----------------------------------------------------------------------------
(* disconnectChatGpt *)

\* Cancels the pending sign-in and aborts the requests tracked now.  A free lock
\* is taken in the same stretch: no request comes between.
Disconnected(p) ==
    [o \in Ops |->
       IF o \in Of(p, "request")
       THEN [op[o] EXCEPT !.aborted = TRUE] ELSE Canceled(p)[o]]

BeginDisconnect(o, p) ==
    /\ op[o] = Idle /\ p \in alive /\ Turns(p)
    /\ op' = [Disconnected(p) EXCEPT ![o] = Begin(o, p, "disconnect", "clear")]
    /\ Take(o)
    /\ UNCHANGED <<store, disconnecting>> /\ Provider /\ Local

Cleared ==
    [store EXCEPT !.rt = 0, !.plan = FALSE,
                  !.selection = IF @ = "chatgpt" THEN "none" ELSE @]

Clear(o) ==
    /\ op[o].pc = "clear" /\ Mine(o)
    /\ Claimable(op[o].proc) /\ store.known
    /\ store' = [Cleared EXCEPT !.owner = op[o].proc]
    /\ op' = [op EXCEPT ![o] = IF store.rt = 0 THEN Idle
                               ELSE [@ EXCEPT !.pc = "revoke", !.rt = store.rt]]
    /\ lock' = None
    /\ UNCHANGED disconnecting /\ Provider /\ Local

\* The revocation is attempted once; its failure is reported.
Revoke(o) ==
    /\ op[o].pc = "revoke" /\ Turns(op[o].proc)
    /\ valid' \in {valid, valid \ {op[o].rt}}
    /\ End(o)
    /\ UNCHANGED <<store, lock, disconnecting, issued, lost>> /\ Local

-----------------------------------------------------------------------------
(* selectConnection, and the keys of api/settings/credentials *)

Selectable(s) ==
    CASE s = "chatgpt" -> store.rt # 0 /\ store.plan
      [] s = "gemini" -> store.gemini # 0 /\ store.connected
      [] OTHER -> TRUE

SelectConnection(s) ==
    /\ lock = None /\ alive # {}
    /\ Selectable(s)
    /\ store' = [store EXCEPT !.selection = s]
    /\ UNCHANGED <<lock, op, disconnecting>> /\ Provider /\ Local

SaveKey(k) ==
    /\ lock = None /\ alive # {}
    /\ store' = [store EXCEPT !.key = k]
    /\ saved' = k
    /\ UNCHANGED <<lock, op, disconnecting, alive, homes, crashes, dirs, orphans>>
    /\ Provider

-----------------------------------------------------------------------------
(* gemini.ts: sign-in, a run and disconnect, each with its CLI process *)

Child(o) == op[o].child

BeginGemini(o, p) ==
    /\ op[o] = Idle /\ p \in alive /\ Turns(p)
    /\ ~disconnecting[p]
    /\ \A q \in Of(p, "gsignin") : ~op[q].waiting
    /\ op' = [op EXCEPT ![o] = [Begin(o, p, "gsignin", "gregister") EXCEPT !.waiting = TRUE]]
    /\ Take(o)
    /\ UNCHANGED <<store, disconnecting>> /\ Provider /\ Local

\* launch: the directory is prepared and the CLI started, or that fails.
Launch(o, home, pc) ==
    \/ /\ dirs' = dirs \union {home}
       /\ op' = [op EXCEPT ![o].pc = pc, ![o].home = home, ![o].child = TRUE]
    \/ End(o) /\ UNCHANGED dirs

\* Creates or reuses the profile under the lock, then launches the CLI.
GeminiRegister(o) ==
    LET home == IF store.gemini = 0 THEN homes + 1 ELSE store.gemini IN
    /\ op[o].pc = "gregister" /\ Mine(o)
    /\ op[o].waiting /\ Claimable(op[o].proc)
    /\ home \in Home
    /\ homes' = IF store.gemini = 0 THEN home ELSE homes
    /\ store' = [Claimed(op[o].proc) EXCEPT !.gemini = home]
    /\ Launch(o, home, "gchild")
    /\ lock' = None
    /\ UNCHANGED <<disconnecting, alive, crashes, saved, orphans>> /\ Provider

\* The CLI reports that Google has authenticated the user.
GeminiAnswer(o) ==
    /\ op[o].pc = "gchild" /\ Child(o) /\ Turns(op[o].proc)
    /\ To(o, "gsave")
    /\ Take(o)
    /\ UNCHANGED <<store, disconnecting>> /\ Provider /\ Local

\* .catch(fail).finally(stop)
GeminiSaved(o) ==
    op' = [op EXCEPT ![o] = IF Child(o) THEN [@ EXCEPT !.pc = "gstop", !.waiting = FALSE]
                            ELSE Idle]

GeminiSave(o) ==
    /\ op[o].pc = "gsave" /\ Mine(o)
    /\ store' = IF op[o].waiting /\ store.gemini = op[o].home
                THEN [store EXCEPT !.connected = TRUE] ELSE store
    /\ GeminiSaved(o)
    /\ lock' = None
    /\ UNCHANGED disconnecting /\ Provider /\ Local

BeginRun(o, p) ==
    /\ op[o] = Idle /\ p \in alive /\ Turns(p)
    /\ ~disconnecting[p]
    /\ store.gemini # 0
    /\ op' = [op EXCEPT ![o] = [Begin(o, p, "grun", "genter") EXCEPT !.home = store.gemini]]
    /\ Take(o)
    /\ UNCHANGED <<store, disconnecting>> /\ Provider /\ Local

\* Bug: nothing is checked after the lock.
RunNeverRefused(o) == FALSE

\* The connection is checked under the lock; the flag and the generation are
\* checked again after it.
RunRefused(o) == disconnecting[op[o].proc] \/ op[o].overtaken

GeminiEnter(o) ==
    /\ op[o].pc = "genter" /\ Mine(o)
    /\ Claimable(op[o].proc) /\ store.gemini = op[o].home /\ store.connected
    /\ store' = Claimed(op[o].proc)
    /\ IF RunRefused(o) THEN End(o) /\ UNCHANGED dirs
                        ELSE Launch(o, op[o].home, "grunning")
    /\ lock' = None
    /\ UNCHANGED <<disconnecting, alive, homes, crashes, saved, orphans>> /\ Provider

\* A CLI process ends by itself, at its deadline, or because it is killed.
ChildExit(o) ==
    /\ Child(o) /\ Turns(op[o].proc)
    /\ op' = [op EXCEPT ![o] = IF op[o].pc = "gsave"
                               THEN [@ EXCEPT !.child = FALSE, !.waiting = FALSE] ELSE Idle]
    /\ Nothing /\ Local

\* Every sign-in and run of the server belongs to an older generation now.
Overtaken(p) ==
    [q \in Ops |-> IF q \in Of(p, "gsignin") \union Of(p, "grun")
                   THEN [op[q] EXCEPT !.waiting = FALSE, !.overtaken = TRUE] ELSE op[q]]

BeginGeminiDisconnect(o, p) ==
    /\ op[o] = Idle /\ p \in alive /\ Turns(p)
    /\ ~disconnecting[p]
    /\ disconnecting' = [disconnecting EXCEPT ![p] = TRUE]
    /\ op' = [Overtaken(p) EXCEPT ![o] =
                [Begin(o, p, "gdisconnect", "gkill") EXCEPT
                   !.kids = {k \in Ops : op[k].proc = p /\ Child(k)}]]
    /\ UNCHANGED <<store, lock>> /\ Provider /\ Local

GeminiStopped(o) ==
    /\ op[o].pc = "gkill" /\ Turns(op[o].proc)
    /\ \A k \in op[o].kids : ~Child(k)
    /\ To(o, "gclear")
    /\ Take(o)
    /\ UNCHANGED <<store, disconnecting>> /\ Provider /\ Local

\* finally { disconnecting = false }
GeminiDisconnectEnds(o) ==
    /\ disconnecting' = [disconnecting EXCEPT ![op[o].proc] = FALSE]
    /\ End(o)

\* A process that does not exit in ten seconds keeps its files.
GeminiStopFails(o) ==
    /\ op[o].pc = "gkill" /\ Turns(op[o].proc)
    /\ \E k \in op[o].kids : Child(k)
    /\ GeminiDisconnectEnds(o)
    /\ UNCHANGED <<store, lock>> /\ Provider /\ Local

\* Removes the profile's directory and forgets it; a write that throws leaves a
\* profile without one.
GeminiClear(o) ==
    /\ op[o].pc = "gclear" /\ Mine(o)
    /\ Claimable(op[o].proc)
    /\ dirs' = dirs \ {store.gemini}
    /\ \/ store' = [Claimed(op[o].proc) EXCEPT !.gemini = 0, !.connected = FALSE,
                      !.selection = IF @ = "gemini" THEN "none" ELSE @]
       \/ UNCHANGED store
    /\ GeminiDisconnectEnds(o)
    /\ lock' = None
    /\ UNCHANGED <<alive, homes, crashes, saved, orphans>> /\ Provider

Gemini(o) ==
    \/ GeminiAnswer(o) \/ ChildExit(o) \/ GeminiStopped(o) \/ GeminiStopFails(o)

-----------------------------------------------------------------------------
(* A section that throws: the operation was canceled or finds no tokens,      *)
(* another server has the claim, the lock stayed busy for forty seconds, or   *)
(* the store could not be read or written.                                    *)

SectionThrows(o) ==
    /\ op[o].pc \in Sections
    /\ lock = o \/ Turns(op[o].proc)
    /\ \/ /\ op[o].pc \notin {"gsave", "gclear"}
          /\ End(o) /\ UNCHANGED disconnecting
       \/ op[o].pc = "gsave" /\ GeminiSaved(o) /\ UNCHANGED disconnecting
       \/ op[o].pc = "gclear" /\ GeminiDisconnectEnds(o)
    /\ Release(o)
    /\ UNCHANGED store /\ Provider /\ Local

Section(o) ==
    \/ Register(o) \/ SaveTokens(o) \/ Enter(o) \/ Clear(o)
    \/ GeminiRegister(o) \/ GeminiSave(o) \/ GeminiEnter(o) \/ GeminiClear(o)
    \/ SectionThrows(o)

-----------------------------------------------------------------------------
(* A server dies with its operations, and the operating system releases its   *)
(* lock.  Its CLI processes are plain children: they go on until they end by  *)
(* themselves, and no server knows of them.  A server started later has       *)
(* another pid.                                                               *)

Crash(p) ==
    /\ p \in alive /\ crashes < MaxCrashes
    /\ crashes' = crashes + 1
    /\ alive' = alive \ {p}
    /\ op' = [o \in Ops |-> IF op[o].proc = p THEN Idle ELSE op[o]]
    /\ lock' = IF lock # None /\ op[lock].proc = p THEN None ELSE lock
    /\ disconnecting' = [disconnecting EXCEPT ![p] = FALSE]
    /\ lost' = (lost \/ (lock # None /\ op[lock].proc = p /\ op[lock].pc = "persist"))
    /\ orphans' = orphans \union {op[o].home : o \in {k \in Ops : op[k].proc = p /\ Child(k)}}
    /\ UNCHANGED <<store, valid, issued, homes, saved, dirs>>

OrphanExit(h) ==
    /\ orphans' = orphans \ {h}
    /\ UNCHANGED <<op, alive, homes, crashes, saved, dirs>> /\ Nothing

Restart(p) ==
    /\ p \notin alive
    /\ alive' = alive \union {p}
    /\ store' = [store EXCEPT !.owner = IF @ = p THEN None ELSE @]
    /\ UNCHANGED <<lock, op, disconnecting, homes, crashes, saved, dirs, orphans>> /\ Provider

Next ==
    \/ \E o \in Ops, p \in Procs :
         \/ BeginSignIn(o, p) \/ BeginRequest(o, p) \/ BeginDisconnect(o, p)
         \/ BeginGemini(o, p) \/ BeginRun(o, p) \/ BeginGeminiDisconnect(o, p)
    \/ \E o \in Ops : SignIn(o) \/ Request(o) \/ Revoke(o) \/ Gemini(o) \/ Section(o)
    \/ \E s \in {"none", "chatgpt", "gemini"} : SelectConnection(s)
    \/ \E k \in BOOLEAN : SaveKey(k)
    \/ \E p \in Procs : Crash(p) \/ Restart(p)
    \/ \E h \in orphans : OrphanExit(h)

Spec == Init /\ [][Next]_vars

-----------------------------------------------------------------------------
TypeOK ==
    /\ store \in Stores
    /\ lock \in Ops \union {None}
    /\ \A o \in Ops :
         /\ op[o].proc \in alive \union {None}
         /\ op[o].rt \in Token /\ op[o].home \in Home
         /\ op[o].kids \subseteq Ops
         /\ op[o].copy \in Stores \union {None}
         /\ op[o].waiting => op[o].kind \in {"signin", "gsignin"}
         /\ lock = o => op[o].pc \in Sections \union Renewing
         /\ op[o].pc \in Renewing => lock = o
    /\ alive \subseteq Procs
    /\ disconnecting \in [Procs -> BOOLEAN]
    /\ valid \subseteq 1..issued /\ issued \in Token
    /\ homes \in Home /\ crashes \in 0..MaxCrashes
    /\ dirs \subseteq Home /\ orphans \subseteq Home
    /\ lost \in BOOLEAN /\ saved \in BOOLEAN

\* The refresh token on disk is one the provider would accept whenever nobody is
\* renewing it: two renewals never present the same token, and a rotated one
\* never replaces a newer sign-in.  Excepted are the four ways in which the code
\* can lose the token a renewal has just received: the answer is lost on its
\* way, the server dies before it has stored it, the write of the store throws
\* (a full disk, a protection that times out), and an answer without the plan
\* scope, whose token the code throws away.
TokenIsCurrent ==
    lock = None /\ store.rt # 0 /\ ~lost => store.rt \in valid

\* No change of the store is lost: a key saved by any server survives the
\* renewal that was under way in another one.
KeyKept == store.key = saved

\* The claim excludes: whatever a running server does with a provider or a CLI
\* process, it does while it owns the runtime, so two servers never do.  Excepted
\* are orphans: claimAiRuntime asks whether the owner's pid lives, and the CLI
\* processes of a server that was killed go on beside those of the next owner.
OneRuntime ==
    \A o \in Ops :
      op[o].pc \in {"browser", "exchange", "save", "streaming", "revoke"} \/ Child(o) =>
        store.owner = op[o].proc

\* The tokens of a sign-in are stored only while nothing has overtaken it: a
\* sign-in begun earlier never signs the account in again after a disconnect
\* or over a later sign-in.
OvertakenSignInStoresNothing ==
    [][\A o \in Ops :
         /\ op[o].kind = "signin" /\ op[o].overtaken
         /\ store'.rt # store.rt /\ store'.rt # 0
         => store'.rt # op[o].rt]_vars

\* A CLI process of a running server works on the profile the store names, in a
\* directory that exists: no disconnect removes it from under the process.
\* Orphans are excepted: no server knows of them, so a disconnect neither stops
\* them nor spares their profile.
ChildHasProfile ==
    \A o \in Ops : Child(o) => store.gemini = op[o].home /\ op[o].home \in dirs

\* What docs/PRIVACY.md says: disconnect stops local requests.  Once the tokens
\* are cleared, every request still streaming with them has been aborted.
DisconnectStopsRequests ==
    store.rt = 0 => \A o \in Ops : op[o].pc = "streaming" => op[o].aborted
=============================================================================
