---------------------------- MODULE OpenidToken ----------------------------
(***************************************************************************)
(* The cached admin token.  EnsureAccess of lib/auth (kind "wrapper") is   *)
(* called by concurrent requests without a lock; the token providers of    *)
(* lib/client (kind "client") have a mutex, but reset the token after a    *)
(* failure when they have released it.  So the fields of the token are     *)
(* written one by one, in any order, and callers read what is there.       *)
(*                                                                         *)
(* Time passes while a caller waits for the issuer of tokens or does       *)
(* nothing.  All times are in the same unit.                               *)
(***************************************************************************)
EXTENDS Integers

CONSTANTS
  Callers,      \* goroutines that need a token
  Life,         \* expires_in of access tokens
  RefreshLife,  \* refresh_expires_in
  Buffer,       \* 10 s
  Timeout,      \* 5 s, of requests to the issuer
  MaxTime,      \* bound of the clock
  None

ASSUME TimesAssumption ==
  /\ Life \in Nat /\ RefreshLife \in Nat /\ Buffer \in Nat /\ Timeout \in Nat /\ MaxTime \in Nat
  /\ Timeout < Buffer /\ Timeout < Life

ASSUME NoneAssumption == None \notin Callers

VARIABLES
  kind,    \* whose token it is
  now,
  openid,  \* the shared token
  lock,    \* the caller that holds the mutex
  caller

vars == <<kind, now, openid, lock, caller>>

\* A token: when it really ends (0 if there is none), what the caller knows of
\* that, and what of the refresh token (0 if there is none).
Never == -(Life + RefreshLife + Buffer)
Empty == [access |-> 0, expires |-> 0, refresh |-> 0, time |-> Never]
Fields == DOMAIN Empty

Token == [access : Int, expires : {0, Life}, refresh : {0, RefreshLife}, time : Int]

Issued(at, requested, refresh) ==
  [access |-> at + Life, expires |-> Life, refresh |-> refresh, time |-> requested]

Resting ==
  [pc |-> "idle",
   duration |-> 0,        \* age of the token when the call began
   begun |-> 0,           \* requesttime
   got |-> Empty,         \* what is written to the token
   left |-> {},           \* fields not yet written
   then |-> "idle",       \* what comes after the write
   disturbed |-> FALSE]   \* another caller wrote meanwhile

\* Reading the cached token, field by field.
Reading == {"time", "access", "expires", "use", "renew"}

Control == Reading \cup {"idle", "lock", "refresh", "get", "write", "read", "error"}

\* Between Lock and Unlock.
Locked(c) ==
  /\ kind = "client"
  /\ \/ caller[c].pc \in Reading \cup {"refresh", "get", "read", "error"}
     \/ caller[c].pc = "write" /\ caller[c].then # "idle"

Caller ==
  [pc : Control, duration : Nat, begun : Nat, got : Token, left : SUBSET Fields,
   then : {"idle", "get", "read", "error"}, disturbed : BOOLEAN]

TypeOK ==
  /\ kind \in {"wrapper", "client"}
  /\ now \in 0..MaxTime
  /\ openid \in Token
  /\ lock \in Callers \cup {None}
  /\ caller \in [Callers -> Caller]
  /\ \A c \in Callers :
       /\ caller[c].left # {} <=> caller[c].pc = "write"
       /\ lock = c <=> Locked(c)
       /\ caller[c].pc = "lock" => kind = "client"

Init ==
  /\ kind \in {"wrapper", "client"}
  /\ now = 0
  /\ openid = Empty
  /\ lock = None
  /\ caller = [c \in Callers |-> Resting]

At(c, pc) == caller[c].pc = pc
Goto(c, pc) == caller' = [caller EXCEPT ![c].pc = pc]
Client == kind = "client"

Writing(c) == caller[c].left # {}

\* Starts to write token to the shared one.
Write(c, token, then) ==
  caller' = [caller EXCEPT
               ![c] = [Resting EXCEPT
                         !.pc = "write", !.got = token, !.left = Fields, !.then = then,
                         !.disturbed = caller[c].disturbed]]

Ask(c, pc) ==
  caller' = [caller EXCEPT ![c].pc = pc, ![c].begun = now, ![c].duration = 0]

Return(c) == caller' = [caller EXCEPT ![c] = Resting]
Unlock == lock' = None

----------------------------------------------------------------------------
Call(c) ==
  /\ At(c, "idle")
  /\ Goto(c, IF Client THEN "lock" ELSE "time")
  /\ UNCHANGED <<kind, now, openid, lock>>

Lock(c) ==
  /\ At(c, "lock")
  /\ lock = None
  /\ lock' = c
  /\ Goto(c, "time")
  /\ UNCHANGED <<kind, now, openid>>

\* What is older than every token may be as old as that.
Age(time) == IF now - time > Life + RefreshLife THEN Life + RefreshLife ELSE now - time

ReadRequestTime(c) ==
  /\ At(c, "time")
  /\ caller' = [caller EXCEPT
                  ![c].pc = "access",
                  ![c].duration = Age(openid.time),
                  ![c].disturbed = \E d \in Callers \ {c} : Writing(d)]
  /\ UNCHANGED <<kind, now, openid, lock>>

Fits(c, expires) == expires > caller[c].duration + Buffer

\* The test of the cached token and its use are reads of their own, and a
\* caller may write in between.
TestAccessToken(c) ==
  /\ At(c, "access")
  /\ Goto(c, IF openid.access # 0 THEN "expires" ELSE "renew")
  /\ UNCHANGED <<kind, now, openid, lock>>

TestExpiresIn(c) ==
  /\ At(c, "expires")
  /\ Goto(c, IF Fits(c, openid.expires) THEN "use" ELSE "renew")
  /\ UNCHANGED <<kind, now, openid, lock>>

\* The cached token is returned, whatever it is by now.
UseCached(c) ==
  /\ At(c, "use")
  /\ Return(c)
  /\ Unlock
  /\ UNCHANGED <<kind, now, openid>>

Renew(c) ==
  /\ At(c, "renew")
  /\ Ask(c, IF Fits(c, openid.refresh) THEN "refresh" ELSE "get")
  /\ UNCHANGED <<kind, now, openid, lock>>

\* A faulty variant of RequestTime: the time of the answer is kept.
AnswerTime(c) == now

RequestTime(c) == caller[c].begun

\* The issuer's answer: issued at some time since the request, with or without
\* a refresh token.
Answer(c) ==
  /\ At(c, "refresh") \/ At(c, "get")
  /\ \E at \in caller[c].begun..now, refresh \in {0, RefreshLife} :
       Write(c, Issued(at, RequestTime(c), refresh), "read")
  /\ UNCHANGED <<kind, now, openid, lock>>

\* A faulty variant of RefreshFails: the error is not looked at.
RefreshFailsUnseen(c) ==
  /\ At(c, "refresh")
  /\ Write(c, Empty, "read")
  /\ UNCHANGED <<kind, now, openid, lock>>

\* The provider of the client stores what comes with the error.
RefreshFails(c) ==
  /\ At(c, "refresh")
  /\ IF Client THEN Write(c, Empty, "get") ELSE Ask(c, "get")
  /\ UNCHANGED <<kind, now, openid, lock>>

GetFails(c) ==
  /\ At(c, "get")
  /\ Write(c, Empty, "error")
  /\ UNCHANGED <<kind, now, openid, lock>>

\* One field of the shared token; whoever is at it is disturbed.
WriteField(c) ==
  /\ At(c, "write")
  /\ \E f \in caller[c].left :
       /\ openid' = [openid EXCEPT ![f] = caller[c].got[f]]
       /\ caller' = [d \in Callers |->
            IF d # c THEN [caller[d] EXCEPT !.disturbed = ~(At(d, "idle") \/ At(d, "lock"))]
            ELSE IF caller[c].left # {f} THEN [caller[c] EXCEPT !.left = @ \ {f}]
            ELSE IF caller[c].then = "idle" THEN Resting
            ELSE [Resting EXCEPT
                    !.pc = caller[c].then,
                    !.begun = IF caller[c].then = "get" THEN now ELSE 0,
                    !.disturbed = caller[c].disturbed]]
  /\ UNCHANGED <<kind, now, lock>>

\* The token that was written is read from the shared one.
Read(c) ==
  /\ At(c, "read")
  /\ Return(c)
  /\ Unlock
  /\ UNCHANGED <<kind, now, openid>>

\* A faulty variant of Error: the mutex is not released.
ErrorKeepsLock(c) ==
  /\ At(c, "error")
  /\ Return(c)
  /\ UNCHANGED <<kind, now, openid, lock>>

\* The call returns its error; the client's provider releases the mutex first
\* and then resets the token.
Error(c) ==
  /\ At(c, "error")
  /\ IF Client THEN Write(c, Empty, "idle") ELSE Return(c)
  /\ Unlock
  /\ UNCHANGED <<kind, now, openid>>

\* Local steps take no time; a request to the issuer takes Timeout at most.
Tick ==
  /\ now < MaxTime
  /\ \A c \in Callers :
       \/ At(c, "idle") \/ At(c, "lock")
       \/ (At(c, "refresh") \/ At(c, "get")) /\ now < caller[c].begun + Timeout
  /\ now' = now + 1
  /\ UNCHANGED <<kind, openid, lock, caller>>

Step(c) ==
  \/ ReadRequestTime(c)
  \/ TestAccessToken(c) \/ TestExpiresIn(c) \/ UseCached(c) \/ Renew(c)
  \/ Answer(c) \/ RefreshFails(c) \/ GetFails(c)
  \/ WriteField(c) \/ Read(c) \/ Error(c)

Next == Tick \/ \E c \in Callers : Call(c) \/ Lock(c) \/ Step(c)

Spec == Init /\ [][Next]_vars

----------------------------------------------------------------------------
\* How much longer a cached token lasts, at least.  Two callers of
\* EnsureAccess that write at the same time may leave the access token of the
\* one with the request time of the other.
Margin == IF Client THEN Buffer ELSE Buffer - Timeout

\* A token taken from the cache is good for a while, although it may be a mix
\* of tokens.  Not so for a caller that was disturbed: in the client the token
\* can be gone when it is used, reset by a call that has failed; in the wrapper
\* it can be anything.
CachedTokenLasts ==
  [][\A c \in Callers : UseCached(c) =>
       \/ openid.access > now + Margin
       \/ caller[c].disturbed /\ (Client => openid.access = 0)]_vars

\* A call returns an empty token without an error, a cached or a new one, only
\* when another caller, whose request failed, has taken it away.
EmptyOnlyWhenDisturbed ==
  \A c \in Callers :
    (At(c, "use") \/ At(c, "read")) /\ openid.access = 0 => caller[c].disturbed

----------------------------------------------------------------------------
(***************************************************************************)
(* The inductive invariant.  No time passes while somebody writes, so all  *)
(* tokens that are written at the same time were issued at about the same  *)
(* time.                                                                   *)
(***************************************************************************)

\* Requests to the issuer have not timed out, and nothing is from the future.
Times ==
  /\ openid.time <= now
  /\ \A c \in Callers :
       /\ caller[c].begun <= now /\ caller[c].got.time <= now
       /\ At(c, "refresh") \/ At(c, "get") => now <= caller[c].begun + Timeout

\* Such an access token is not among the ones that were there before.
JustIssued(access) == access >= now + Life - Timeout

Valid(token) == JustIssued(token.access) /\ token.access >= token.time + Life

\* What a caller has written is there, unless it was disturbed.  The providers
\* of the client are disturbed by resets only.
WriterInv(c) ==
  Writing(c) =>
    /\ caller[c].got = Empty \/ Valid(caller[c].got)
    /\ caller[c].then = "read" => Valid(caller[c].got)
    /\ caller[c].then = "idle" => Client /\ caller[c].got = Empty
    /\ "access" \notin caller[c].left =>
         /\ openid.access = 0 \/ JustIssued(openid.access)
         /\ ~caller[c].disturbed => openid.access = caller[c].got.access
         /\ Locked(c) => openid.access \in {0, caller[c].got.access}
    /\ "time" \notin caller[c].left /\ Locked(c) =>
         openid.time \in {Never, caller[c].got.time}

ReaderInv(c) == At(c, "read") /\ ~caller[c].disturbed => openid.access # 0

\* How long the shared token lasts, as its request time tells.
Lasts(least) == openid.access = 0 \/ openid.access >= openid.time + least

CacheInv ==
  /\ (\A c \in Callers : "access" \notin caller[c].left) => Lasts(Life - Timeout)
  /\ Client /\ (\A c \in Callers : Locked(c) => ~Writing(c)) =>
       Lasts(Life) \/ openid.time = Never

\* What the fields read so far tell of the token.  The client's can only have
\* been reset since.
CacheReadInv(c) ==
  /\ caller[c].pc \in {"access", "expires", "use"} =>
       /\ ~caller[c].disturbed => caller[c].duration = Age(openid.time) /\ Lasts(Life - Timeout)
       /\ Client =>
            \/ caller[c].duration >= Life + RefreshLife
            \/ openid.access = 0
            \/ openid.access >= now - caller[c].duration + Life
  /\ caller[c].pc \in {"expires", "use"} => caller[c].disturbed \/ openid.access # 0
  /\ At(c, "use") => caller[c].duration + Buffer < Life

IndInv ==
  /\ TypeOK /\ Times /\ CacheInv
  /\ \A c \in Callers : WriterInv(c) /\ ReaderInv(c) /\ CacheReadInv(c)
=============================================================================
