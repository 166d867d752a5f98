-------------------------- MODULE OpenidTokenProofs --------------------------
(***************************************************************************)
(* Proofs about OpenidToken: for any number of callers and any life times  *)
(* of the tokens, as long as a request to the issuer times out before a    *)
(* token does, and before the buffer is used up.                           *)
(***************************************************************************)
EXTENDS OpenidToken, TLAPS

(***************************************************************************)
(* Steps that do not touch the shared token: what has to be shown of the   *)
(* caller that takes it.                                                   *)
(***************************************************************************)
OwnTimes(c) ==
  /\ caller[c].begun <= now /\ caller[c].got.time <= now
  /\ At(c, "refresh") \/ At(c, "get") => now <= caller[c].begun + Timeout

OwnInv(c) ==
  /\ caller[c].left # {} <=> caller[c].pc = "write"
  /\ lock = c <=> Locked(c)
  /\ caller[c].pc = "lock" => kind = "client"
  /\ OwnTimes(c) /\ WriterInv(c) /\ ReaderInv(c) /\ CacheReadInv(c)

\* Who does not hold the mutex neither takes nor releases it.
LockStep(c) ==
  /\ lock' \in Callers \cup {None}
  /\ \A d \in Callers \ {c} : lock' = d <=> lock = d

LEMMA LockSteps ==
  ASSUME TypeOK, NEW c \in Callers,
         \/ lock' = lock
         \/ lock = None /\ lock' = c
         \/ (Client => Locked(c)) /\ Unlock
  PROVE  LockStep(c)
BY NoneAssumption DEF TypeOK, LockStep, Unlock, Locked, Client

LEMMA OthersKeep ==
  ASSUME IndInv, NEW c \in Callers, LockStep(c), UNCHANGED <<kind, now, openid>>,
         NEW d \in Callers \ {c}, caller'[d] = caller[d]
  PROVE  OwnInv(d)'
<1>1. OwnInv(d)
  BY DEF IndInv, TypeOK, Times, OwnInv, OwnTimes
<1>2. Locked(d)' <=> Locked(d)
  BY DEF Locked
<1>3. lock' = d <=> lock = d
  BY DEF LockStep
<1>4. OwnTimes(d)' /\ ReaderInv(d)' /\ CacheReadInv(d)'
  BY <1>1 DEF OwnInv, OwnTimes, ReaderInv, CacheReadInv, At, Lasts, Age, Client
<1>5. WriterInv(d)'
  BY <1>1, <1>2 DEF OwnInv, WriterInv, Writing, Client, JustIssued, Valid
<1>6. QED
  BY <1>1, <1>2, <1>3, <1>4, <1>5 DEF OwnInv

LEMMA QuietStep ==
  ASSUME IndInv, NEW c \in Callers, ~At(c, "write"), NEW s \in Caller,
         caller' = [caller EXCEPT ![c] = s], UNCHANGED <<kind, now, openid>>,
         LockStep(c), OwnInv(c)'
  PROVE  IndInv'
<1>1. /\ caller' \in [Callers -> Caller] /\ caller'[c] = s
      /\ \A d \in Callers \ {c} : caller'[d] = caller[d]
  BY DEF IndInv, TypeOK
<1>2. \A d \in Callers : OwnInv(d)'
  BY <1>1, OthersKeep
<1>3. TypeOK'
  BY <1>1, <1>2 DEF IndInv, TypeOK, LockStep, OwnInv
<1>4. Times'
  BY <1>2 DEF IndInv, Times, OwnInv, OwnTimes
<1>5. CacheInv'
  <2>1. caller[c].left = {}
    BY DEF IndInv, TypeOK, At
  <2>2. (\A d \in Callers : "access" \notin caller'[d].left) =>
          \A d \in Callers : "access" \notin caller[d].left
    BY <1>1, <2>1
  <2>3. (\A d \in Callers : Locked(d)' => ~Writing(d)') =>
          \A d \in Callers : Locked(d) => ~Writing(d)
    BY <1>1, <2>1 DEF Locked, Writing
  <2>4. QED
    BY <2>2, <2>3 DEF IndInv, CacheInv, Lasts, Client
<1>6. QED
  BY <1>2, <1>3, <1>4, <1>5 DEF IndInv, OwnInv

LEMMA RestingIsCaller ==
  /\ Resting \in Caller /\ Empty \in Token
  /\ Never \in Int /\ Never < 0
BY TimesAssumption DEF Resting, Empty, Never, Caller, Token, Control, Reading, Fields

(***************************************************************************)
(* The quiet steps, one by one.                                            *)
(***************************************************************************)
LEMMA CallStep ==
  ASSUME IndInv, NEW c \in Callers, Call(c)
  PROVE  IndInv'
<1> DEFINE s == [caller[c] EXCEPT !.pc = IF Client THEN "lock" ELSE "time"]
<1>1. /\ caller[c] \in Caller /\ caller[c].pc = "idle" /\ caller[c].left = {} /\ lock # c
      /\ OwnInv(c)
  BY DEF IndInv, TypeOK, Times, OwnInv, OwnTimes, Call, At, Locked, Reading
<1>2. s \in Caller
  BY <1>1 DEF Caller, Control, Reading
<1>3. caller' = [caller EXCEPT ![c] = s] /\ UNCHANGED <<kind, now, openid, lock>>
  BY DEF Call, Goto
<1>4. /\ caller'[c].pc = (IF Client THEN "lock" ELSE "time") /\ caller'[c].left = {}
      /\ caller'[c].begun = caller[c].begun /\ caller'[c].got = caller[c].got
  BY <1>1, <1>3 DEF IndInv, TypeOK, Caller
<1>5. OwnInv(c)'
  BY <1>1, <1>3, <1>4 DEF OwnInv, OwnTimes, Locked, Reading, Client, At,
     WriterInv, Writing, ReaderInv, CacheReadInv
<1>6. LockStep(c)
  BY <1>3, LockSteps DEF IndInv
<1>7. QED
  BY <1>1, <1>2, <1>3, <1>5, <1>6, QuietStep DEF At

LEMMA LockIsTaken ==
  ASSUME IndInv, NEW c \in Callers, Lock(c)
  PROVE  IndInv'
<1> DEFINE s == [caller[c] EXCEPT !.pc = "time"]
<1>1. /\ caller[c] \in Caller /\ caller[c].pc = "lock" /\ caller[c].left = {}
      /\ kind = "client" /\ OwnInv(c)
  BY DEF IndInv, TypeOK, Times, OwnInv, OwnTimes, Lock, At
<1>2. s \in Caller
  BY <1>1 DEF Caller, Control, Reading
<1>3. caller' = [caller EXCEPT ![c] = s] /\ UNCHANGED <<kind, now, openid>> /\ lock' = c
  BY DEF Lock, Goto
<1>4. /\ caller'[c].pc = "time" /\ caller'[c].left = {}
      /\ caller'[c].begun = caller[c].begun /\ caller'[c].got = caller[c].got
  BY <1>1, <1>3 DEF IndInv, TypeOK, Caller
<1>5. OwnInv(c)'
  BY <1>1, <1>3, <1>4 DEF OwnInv, OwnTimes, Locked, Reading, At,
     WriterInv, Writing, ReaderInv, CacheReadInv
<1>6. LockStep(c)
  BY <1>3, LockSteps DEF IndInv, Lock
<1>7. QED
  BY <1>1, <1>2, <1>3, <1>5, <1>6, QuietStep DEF At

\* What was read of the shared token when nobody was writing.
LEMMA TimeIsRead ==
  ASSUME IndInv, NEW c \in Callers, ReadRequestTime(c)
  PROVE  IndInv'
<1> DEFINE dist == \E d \in Callers \ {c} : Writing(d)
           s == [caller[c] EXCEPT !.pc = "access", !.duration = Age(openid.time),
                                  !.disturbed = dist]
<1>1. /\ caller[c] \in Caller /\ caller[c].pc = "time" /\ caller[c].left = {}
      /\ OwnInv(c) /\ now \in Nat /\ openid.time \in Int /\ openid.access \in Int
      /\ openid.time <= now
  BY DEF IndInv, TypeOK, Times, OwnInv, OwnTimes, ReadRequestTime, At, Token
<1>2. Age(openid.time) \in Nat
  BY <1>1, TimesAssumption DEF Age
<1>3. s \in Caller
  BY <1>1, <1>2 DEF Caller, Control, Reading
<1>4. caller' = [caller EXCEPT ![c] = s] /\ UNCHANGED <<kind, now, openid, lock>>
  BY DEF ReadRequestTime
<1>5. /\ caller'[c].pc = "access" /\ caller'[c].left = {}
      /\ caller'[c].begun = caller[c].begun /\ caller'[c].got = caller[c].got
      /\ caller'[c].duration = Age(openid.time)
      /\ caller'[c].disturbed = dist
  BY <1>1, <1>4 DEF IndInv, TypeOK, Caller
<1>6. ASSUME ~dist PROVE Lasts(Life - Timeout)
  <2>1. \A d \in Callers : "access" \notin caller[d].left
    BY <1>1, <1>6 DEF Writing
  <2>2. QED
    BY <2>1 DEF IndInv, CacheInv
<1>7. ASSUME Client
      PROVE  \/ Age(openid.time) >= Life + RefreshLife
             \/ openid.access = 0
             \/ openid.access >= now - Age(openid.time) + Life
  <2>1. Locked(c)
    BY <1>1, <1>7 DEF Locked, Reading, Client
  <2>2. \A d \in Callers : Locked(d) => ~Writing(d)
    BY <1>1, <2>1 DEF IndInv, TypeOK, Writing
  <2>3. Lasts(Life) \/ openid.time = Never
    BY <1>7, <2>2 DEF IndInv, CacheInv
  <2>4. now >= 0
    BY DEF IndInv, TypeOK
  <2>5. QED
    BY <1>1, <2>3, <2>4, TimesAssumption DEF Lasts, Age, Never
<1>8. Age(openid.time)' = Age(openid.time)
  BY <1>4 DEF Age
<1>9. CacheReadInv(c)'
  BY <1>4, <1>5, <1>6, <1>7, <1>8 DEF CacheReadInv, Lasts, Client, At
<1>10. OwnInv(c)'
  BY <1>1, <1>4, <1>5, <1>9 DEF OwnInv, OwnTimes, Locked, Reading, At, WriterInv, Writing, ReaderInv
<1>11. LockStep(c)
  BY <1>4, LockSteps DEF IndInv
<1>12. QED
  BY <1>1, <1>3, <1>4, <1>10, <1>11, QuietStep DEF At

\* The call is over, nothing is left of it.
LEMMA Returns ==
  ASSUME IndInv, NEW c \in Callers, ~At(c, "write"), Return(c), Unlock,
         UNCHANGED <<kind, now, openid>>, Client => Locked(c)
  PROVE  IndInv'
<1>1. Resting \in Caller /\ caller'[c] = Resting /\ caller' = [caller EXCEPT ![c] = Resting]
  BY RestingIsCaller DEF IndInv, TypeOK, Return
<1>2. now \in Nat /\ lock' = None /\ c # None
  BY NoneAssumption DEF IndInv, TypeOK, Unlock
<1>3. /\ caller'[c].pc = "idle" /\ caller'[c].left = {} /\ caller'[c].begun = 0
      /\ caller'[c].got.time = Never
  BY <1>1 DEF Resting, Empty
<1>4. OwnInv(c)'
  BY <1>2, <1>3, RestingIsCaller DEF OwnInv, OwnTimes, Locked, Reading, At,
     WriterInv, Writing, ReaderInv, CacheReadInv
<1>5. LockStep(c)
  BY LockSteps DEF IndInv
<1>6. QED
  BY <1>1, <1>4, <1>5, QuietStep

\* A request to the issuer begins.
LEMMA Asks ==
  ASSUME IndInv, NEW c \in Callers, ~At(c, "write"), NEW pc \in {"refresh", "get"}, Ask(c, pc),
         UNCHANGED <<kind, now, openid, lock>>, Client => Locked(c)
  PROVE  IndInv'
<1> DEFINE s == [caller[c] EXCEPT !.pc = pc, !.begun = now, !.duration = 0]
<1>1. /\ caller[c] \in Caller /\ caller[c].left = {} /\ caller[c].pc # "write"
      /\ OwnInv(c) /\ now \in Nat /\ pc \in Control
  BY DEF IndInv, TypeOK, Times, OwnInv, OwnTimes, At, Control, Reading
<1>2. s \in Caller
  <2>1. [caller[c] EXCEPT !.pc = pc] \in Caller
    BY <1>1 DEF Caller
  <2>2. [[caller[c] EXCEPT !.pc = pc] EXCEPT !.begun = now] \in Caller
    BY <1>1, <2>1 DEF Caller
  <2>3. 0 \in Nat
    OBVIOUS
  <2>4. [[[caller[c] EXCEPT !.pc = pc] EXCEPT !.begun = now] EXCEPT !.duration = 0] \in Caller
    BY <2>2, <2>3 DEF Caller
  <2>5. s = [[[caller[c] EXCEPT !.pc = pc] EXCEPT !.begun = now] EXCEPT !.duration = 0]
    BY <1>1 DEF Caller
  <2>6. QED
    BY <2>4, <2>5
<1>3. caller' = [caller EXCEPT ![c] = s]
  BY DEF Ask
<1>4. /\ caller'[c].pc = pc /\ caller'[c].left = {} /\ caller'[c].begun = now
      /\ caller'[c].got = caller[c].got
  BY <1>1, <1>3 DEF IndInv, TypeOK, Caller
<1>5. OwnInv(c)'
  BY <1>1, <1>4, TimesAssumption DEF OwnInv, OwnTimes, Locked, Client, At, WriterInv, Writing,
     ReaderInv, CacheReadInv
<1>6. LockStep(c)
  BY LockSteps DEF IndInv
<1>7. QED
  BY <1>2, <1>3, <1>5, <1>6, QuietStep

\* Only the control point of c changes, from one test of the token to the next.
LEMMA Goes ==
  ASSUME IndInv, NEW c \in Callers, caller[c].pc \in {"access", "expires"},
         NEW pc \in {"expires", "use", "renew"}, Goto(c, pc), UNCHANGED <<kind, now, openid, lock>>,
         pc = "expires" => openid.access # 0,
         pc = "use" => caller[c].pc = "expires" /\ caller[c].duration + Buffer < Life
  PROVE  IndInv'
<1> DEFINE s == [caller[c] EXCEPT !.pc = pc]
<1>1. /\ caller[c] \in Caller /\ caller[c].left = {} /\ OwnInv(c)
  BY DEF IndInv, TypeOK, Times, OwnInv, OwnTimes
<1>2. s \in Caller /\ caller' = [caller EXCEPT ![c] = s]
  BY <1>1 DEF Caller, Control, Reading, Goto
<1>3. /\ caller'[c].pc = pc /\ caller'[c].left = {}
      /\ caller'[c].begun = caller[c].begun /\ caller'[c].got = caller[c].got
      /\ caller'[c].duration = caller[c].duration
      /\ caller'[c].disturbed = caller[c].disturbed
  BY <1>1, <1>2 DEF IndInv, TypeOK, Caller
<1>4. CacheReadInv(c)'
  BY <1>1, <1>3 DEF OwnInv, CacheReadInv, Lasts, Age, Client, At
<1>5. OwnInv(c)'
  BY <1>1, <1>3, <1>4 DEF OwnInv, OwnTimes, Locked, Reading, At, WriterInv, Writing, ReaderInv
<1>6. LockStep(c)
  BY LockSteps DEF IndInv
<1>7. QED
  BY <1>2, <1>5, <1>6, QuietStep DEF At

LEMMA TestAccessTokenStep ==
  ASSUME IndInv, NEW c \in Callers, TestAccessToken(c)
  PROVE  IndInv'
<1>1. CASE openid.access # 0
  BY <1>1, Goes DEF TestAccessToken, At
<1>2. CASE openid.access = 0
  BY <1>2, Goes DEF TestAccessToken, At
<1>3. QED
  BY <1>1, <1>2

LEMMA TestExpiresInStep ==
  ASSUME IndInv, NEW c \in Callers, TestExpiresIn(c)
  PROVE  IndInv'
<1>1. openid.expires \in {0, Life} /\ caller[c].duration \in Nat
  BY DEF IndInv, TypeOK, Token, Caller
<1>2. CASE Fits(c, openid.expires)
  <2>1. caller[c].duration + Buffer < Life
    BY <1>1, <1>2, TimesAssumption DEF Fits
  <2>2. QED
    BY <1>2, <2>1, Goes DEF TestExpiresIn, At
<1>3. CASE ~Fits(c, openid.expires)
  BY <1>3, Goes DEF TestExpiresIn, At
<1>4. QED
  BY <1>2, <1>3

LEMMA UseCachedStep ==
  ASSUME IndInv, NEW c \in Callers, UseCached(c)
  PROVE  IndInv'
<1>1. ~At(c, "write") /\ (Client => Locked(c))
  BY DEF UseCached, At, Client, Locked, Reading
<1>2. QED
  BY <1>1, Returns DEF UseCached

LEMMA RenewStep ==
  ASSUME IndInv, NEW c \in Callers, Renew(c)
  PROVE  IndInv'
<1>1. ~At(c, "write") /\ (Client => Locked(c)) /\ UNCHANGED <<kind, now, openid, lock>>
  BY DEF Renew, At, Client, Locked, Reading
<1>2. Ask(c, "refresh") \/ Ask(c, "get")
  BY DEF Renew
<1>3. QED
  BY <1>1, <1>2, Asks

LEMMA ReadStep ==
  ASSUME IndInv, NEW c \in Callers, Read(c)
  PROVE  IndInv'
<1>1. ~At(c, "write") /\ (Client => Locked(c))
  BY DEF Read, At, Client, Locked
<1>2. QED
  BY <1>1, Returns DEF Read

\* A write begins: nothing of it is in the shared token yet.
LEMMA Writes ==
  ASSUME IndInv, NEW c \in Callers, ~At(c, "write"), Client => Locked(c),
         NEW token \in Token, NEW then \in {"idle", "get", "read", "error"},
         Write(c, token, then), UNCHANGED <<kind, now, openid>>,
         token.time <= now, token = Empty \/ Valid(token),
         then = "read" => Valid(token),
         then = "idle" => Client /\ token = Empty /\ Unlock,
         then # "idle" => lock' = lock
  PROVE  IndInv'
<1> DEFINE s == [Resting EXCEPT !.pc = "write", !.got = token, !.left = Fields, !.then = then,
                                !.disturbed = caller[c].disturbed]
<1>1. /\ caller[c] \in Caller
      /\ lock = c <=> Locked(c)
      /\ now \in Nat /\ c # None
  BY NoneAssumption DEF IndInv, TypeOK
<1>2. s \in Caller
  <2>1. caller[c].disturbed \in BOOLEAN
    BY <1>1 DEF Caller
  <2>2. [Resting EXCEPT !.pc = "write", !.got = token] \in Caller
    BY RestingIsCaller DEF Caller, Control, Reading
  <2>3. [[Resting EXCEPT !.pc = "write", !.got = token]
            EXCEPT !.left = Fields, !.then = then] \in Caller
    BY <2>2 DEF Caller
  <2>4. QED
    BY <2>1, <2>3 DEF Caller
<1>3. caller' = [caller EXCEPT ![c] = s]
  BY DEF Write
<1>4. /\ caller'[c].pc = "write" /\ caller'[c].left = Fields /\ caller'[c].begun = 0
      /\ caller'[c].got = token /\ caller'[c].then = then
  BY <1>3 DEF IndInv, TypeOK, Resting
<1>5. "access" \in Fields /\ "time" \in Fields
  BY DEF Fields, Empty
<1>6. lock' = c <=> Locked(c)'
  <2>1. Locked(c)' <=> Client /\ then # "idle"
    BY <1>4 DEF Locked, Reading, Client
  <2>2. Locked(c) <=> Client
    BY DEF Locked, Client
  <2>3. QED
    BY <1>1, <2>1, <2>2 DEF Unlock
<1>7. WriterInv(c)'
  BY <1>4, <1>5 DEF WriterInv, Client, Valid, JustIssued
<1>8. OwnInv(c)'
  BY <1>1, <1>4, <1>5, <1>6, <1>7 DEF OwnInv, OwnTimes, At, ReaderInv, CacheReadInv
<1>9. LockStep(c)
  BY LockSteps DEF IndInv
<1>10. QED
  BY <1>2, <1>3, <1>8, <1>9, QuietStep

\* The token of an answer was issued while the request was under way.
LEMMA AnswerStep ==
  ASSUME IndInv, NEW c \in Callers, Answer(c)
  PROVE  IndInv'
<1>1. ~At(c, "write") /\ (Client => Locked(c))
  BY DEF Answer, At, Client, Locked
<1>2. /\ caller[c].begun \in Nat /\ now \in Nat
      /\ caller[c].begun <= now /\ now <= caller[c].begun + Timeout
  BY DEF IndInv, TypeOK, Times, Caller, Answer
<1>3. PICK at \in caller[c].begun..now, refresh \in {0, RefreshLife} :
        Write(c, Issued(at, caller[c].begun, refresh), "read")
  BY DEF Answer, RequestTime
<1> DEFINE token == Issued(at, caller[c].begun, refresh)
<1>4. /\ token.access = at + Life /\ token.time = caller[c].begun
      /\ token \in Token
  BY <1>2, TimesAssumption DEF Issued, Token
<1>5. Valid(token)
  BY <1>2, <1>4, TimesAssumption DEF Valid, JustIssued
<1>6. UNCHANGED <<kind, now, openid, lock>>
  BY DEF Answer
<1> HIDE DEF token
<1>7. Write(c, token, "read")
  BY <1>3 DEF token
<1>8. QED
  BY <1>1, <1>2, <1>4, <1>5, <1>6, <1>7, Writes

LEMMA EmptyIsOld ==
  ASSUME IndInv
  PROVE  Empty \in Token /\ Empty.time <= now
BY RestingIsCaller DEF Empty, IndInv, TypeOK

LEMMA RefreshFailsStep ==
  ASSUME IndInv, NEW c \in Callers, RefreshFails(c)
  PROVE  IndInv'
<1>1. /\ ~At(c, "write") /\ (Client => Locked(c))
      /\ UNCHANGED <<kind, now, openid, lock>>
  BY DEF RefreshFails, At, Client, Locked
<1>2. CASE Client
  BY <1>1, <1>2, EmptyIsOld, Writes DEF RefreshFails
<1>3. CASE ~Client
  BY <1>1, <1>3, Asks DEF RefreshFails
<1>4. QED
  BY <1>2, <1>3

LEMMA GetFailsStep ==
  ASSUME IndInv, NEW c \in Callers, GetFails(c)
  PROVE  IndInv'
<1>1. /\ ~At(c, "write") /\ (Client => Locked(c))
      /\ UNCHANGED <<kind, now, openid, lock>>
  BY DEF GetFails, At, Client, Locked
<1>2. QED
  BY <1>1, EmptyIsOld, Writes DEF GetFails

\* The mutex is released before the token is reset.
LEMMA ErrorStep ==
  ASSUME IndInv, NEW c \in Callers, Error(c)
  PROVE  IndInv'
<1>1. /\ ~At(c, "write") /\ (Client => Locked(c))
      /\ UNCHANGED <<kind, now, openid>> /\ Unlock
  BY DEF Error, At, Client, Locked
<1>2. CASE Client
  BY <1>1, <1>2, EmptyIsOld, Writes DEF Error
<1>3. CASE ~Client
  BY <1>1, <1>3, Returns DEF Error
<1>4. QED
  BY <1>2, <1>3

(***************************************************************************)
(* The step that writes one field of the shared token.                     *)
(***************************************************************************)
LEMMA FieldIsWritten ==
  ASSUME IndInv, NEW c \in Callers, WriteField(c)
  PROVE  IndInv'
<1>1. /\ caller[c] \in Caller /\ caller[c].pc = "write" /\ OwnInv(c)
      /\ caller[c].got \in Token /\ caller[c].then \in {"idle", "get", "read", "error"}
      /\ caller[c].left \subseteq Fields
      /\ now \in Nat /\ openid \in Token
  BY DEF IndInv, TypeOK, Times, OwnInv, OwnTimes, WriteField, At, Caller
<1>2. PICK f \in caller[c].left :
        /\ openid' = [openid EXCEPT ![f] = caller[c].got[f]]
        /\ caller' = [d \in Callers |->
             IF d # c THEN [caller[d] EXCEPT !.disturbed = ~(At(d, "idle") \/ At(d, "lock"))]
             ELSE IF caller[c].left # {f} THEN [caller[c] EXCEPT !.left = @ \ {f}]
             ELSE IF caller[c].then = "idle" THEN Resting
             ELSE [Resting EXCEPT
                     !.pc = caller[c].then,
                     !.begun = IF caller[c].then = "get" THEN now ELSE 0,
                     !.disturbed = caller[c].disturbed]]
  BY DEF WriteField
<1>3. UNCHANGED <<kind, now, lock>>
  BY DEF WriteField
<1> DEFINE t == caller[c].got
\* The shared token.
<1>4. Fields = {"access", "expires", "refresh", "time"}
  BY DEF Fields, Empty
<1>5. /\ openid'.access = IF f = "access" THEN t.access ELSE openid.access
      /\ openid'.time = IF f = "time" THEN t.time ELSE openid.time
  BY <1>1, <1>2 DEF Token
<1>6. openid' \in Token
  BY <1>1, <1>2, <1>4 DEF Token
\* The writer.
<1>7. ASSUME caller[c].left # {f}
      PROVE  /\ caller'[c] \in Caller
             /\ caller'[c].pc = "write" /\ caller'[c].left = caller[c].left \ {f}
             /\ caller'[c].left # {} /\ caller'[c].then = caller[c].then
             /\ caller'[c].got = t /\ caller'[c].begun = caller[c].begun
             /\ caller'[c].disturbed = caller[c].disturbed
  <2>1. caller'[c] = [caller[c] EXCEPT !.left = @ \ {f}]
    BY <1>2, <1>7
  <2>2. QED
    BY <1>1, <1>2, <1>7, <2>1 DEF Caller
<1>8. ASSUME caller[c].left = {f}
      PROVE  /\ caller'[c] \in Caller
             /\ caller'[c].pc = caller[c].then /\ caller'[c].left = {}
             /\ caller'[c].got = Empty /\ caller'[c].begun \in {0, now}
             /\ caller[c].then = "get" => caller'[c].begun = now
             /\ caller[c].then # "idle" => caller'[c].disturbed = caller[c].disturbed
  <2>1. CASE caller[c].then = "idle"
    <3>1. caller'[c] = Resting
      BY <1>2, <1>8, <2>1
    <3>2. QED
      BY <2>1, <3>1, RestingIsCaller DEF Resting
  <2>2. CASE caller[c].then # "idle"
    <3>1. caller'[c] = [Resting EXCEPT
                          !.pc = caller[c].then,
                          !.begun = IF caller[c].then = "get" THEN now ELSE 0,
                          !.disturbed = caller[c].disturbed]
      BY <1>2, <1>8, <2>2
    <3>2. caller[c].disturbed \in BOOLEAN /\ caller[c].then \in Control
      BY <1>1 DEF Caller, Control, Reading
    <3>3. caller'[c] \in Caller
      <4>1. [Resting EXCEPT
               !.pc = caller[c].then,
               !.begun = IF caller[c].then = "get" THEN now ELSE 0] \in Caller
        BY <1>1, <3>2, RestingIsCaller DEF Caller
      <4>2. QED
        BY <3>1, <3>2, <4>1 DEF Caller
    <3>4. QED
      BY <2>2, <3>1, <3>3 DEF Resting
  <2>3. QED
    BY <2>1, <2>2
<1>9. /\ Locked(c) <=> Client /\ caller[c].then # "idle"
      /\ Locked(c)' <=> Locked(c)
  BY <1>1, <1>3, <1>7, <1>8 DEF Locked, Reading, Client
\* The others.
<1>10. ASSUME NEW d \in Callers \ {c}
       PROVE  /\ caller'[d] \in Caller
              /\ caller'[d].pc = caller[d].pc /\ caller'[d].left = caller[d].left
              /\ caller'[d].then = caller[d].then /\ caller'[d].got = caller[d].got
              /\ caller'[d].begun = caller[d].begun
              /\ caller'[d].duration = caller[d].duration
              /\ caller[d].pc \notin {"idle", "lock"} => caller'[d].disturbed
              /\ Locked(d)' <=> Locked(d)
  <2>1. caller[d] \in Caller
    BY DEF IndInv, TypeOK
  <2>2. caller'[d] = [caller[d] EXCEPT !.disturbed = ~(At(d, "idle") \/ At(d, "lock"))]
    BY <1>2
  <2>3. /\ caller'[d].pc = caller[d].pc /\ caller'[d].left = caller[d].left
        /\ caller'[d].then = caller[d].then /\ caller'[d].got = caller[d].got
        /\ caller'[d].begun = caller[d].begun
        /\ caller'[d].duration = caller[d].duration
    BY <2>1, <2>2 DEF Caller
  <2>4. QED
    BY <1>3, <2>1, <2>2, <2>3 DEF Caller, At, Locked
<1>11. TypeOK'
  <2>1. caller' \in [Callers -> Caller]
    BY <1>2, <1>7, <1>8, <1>10
  <2>2. ASSUME NEW d \in Callers
        PROVE  /\ caller'[d].left # {} <=> caller'[d].pc = "write"
               /\ lock' = d <=> Locked(d)'
               /\ caller'[d].pc = "lock" => kind' = "client"
    BY <1>1, <1>3, <1>7, <1>8, <1>9, <1>10 DEF OwnInv, IndInv, TypeOK
  <2>3. QED
    BY <1>3, <1>6, <2>1, <2>2 DEF IndInv, TypeOK
\* What is written, and what is there.
<1>12. /\ t.access \in Int /\ t.time \in Int /\ t.time <= now
       /\ openid.access \in Int /\ openid.time \in Int /\ openid.time <= now
       /\ Empty.access = 0 /\ Empty.time = Never /\ Never < 0 /\ Never \in Int
  BY <1>1, RestingIsCaller DEF Token, Empty, IndInv, Times
<1>13. t = Empty \/ Valid(t)
  BY <1>1 DEF OwnInv, WriterInv, Writing
<1>14. ~Locked(c) /\ Client => t = Empty
  BY <1>1, <1>9 DEF OwnInv, WriterInv, Writing
<1>15. Times'
  <2>1. openid'.time <= now
    BY <1>5, <1>12
  <2>2. ASSUME NEW d \in Callers
        PROVE  /\ caller'[d].begun <= now /\ caller'[d].got.time <= now
               /\ caller'[d].pc \in {"refresh", "get"} => now <= caller'[d].begun + Timeout
    <3>1. CASE d = c
      BY <1>1, <1>7, <1>8, <1>12, <3>1, TimesAssumption DEF OwnInv, OwnTimes
    <3>2. CASE d # c
      BY <1>10, <3>2 DEF IndInv, Times, At
    <3>3. QED
      BY <3>1, <3>2
  <2>3. QED
    BY <1>3, <2>1, <2>2 DEF Times, At
<1>16. CacheInv'
  <2>1. ASSUME \A d \in Callers : "access" \notin caller'[d].left
        PROVE  Lasts(Life - Timeout)'
    <3>1. CASE f = "access"
      BY <1>1, <1>5, <1>12, <1>13, <3>1, TimesAssumption DEF Lasts, Valid, JustIssued
    <3>2. CASE f # "access"
      <4>1. "access" \notin caller[c].left
        BY <1>7, <1>8, <2>1, <3>2
      <4>2. openid.access = 0 \/ JustIssued(openid.access)
        BY <1>1, <4>1 DEF OwnInv, WriterInv, Writing
      <4>3. QED
        BY <1>1, <1>5, <1>12, <3>2, <4>2, TimesAssumption DEF Lasts, JustIssued
    <3>3. QED
      BY <3>1, <3>2
  <2>2. ASSUME Client, \A d \in Callers : Locked(d)' => caller'[d].left = {}
        PROVE  Lasts(Life)' \/ openid'.time = Never
    <3>1. CASE Locked(c)
      <4>1. caller[c].left = {f}
        BY <1>7, <1>9, <2>2, <3>1
      <4>2. /\ f # "access" => openid.access \in {0, t.access}
            /\ f # "time" => openid.time \in {Never, t.time}
        BY <1>1, <3>1, <4>1 DEF OwnInv, WriterInv, Writing
      <4>3. openid'.access \in {0, t.access} /\ openid'.time \in {Never, t.time}
        BY <1>5, <4>2
      <4>4. t.access = 0 \/ t.access >= t.time + Life
        BY <1>12, <1>13 DEF Valid
      <4>5. QED
        BY <4>3, <4>4 DEF Lasts
    <3>2. CASE ~Locked(c)
      <4>1. \A d \in Callers : Locked(d) => ~Writing(d)
        BY <1>10, <2>2, <3>2 DEF Writing
      <4>2. Lasts(Life) \/ openid.time = Never
        BY <2>2, <4>1 DEF IndInv, CacheInv
      <4>3. t.access = 0 /\ t.time = Never
        BY <1>12, <1>14, <2>2, <3>2
      <4>4. QED
        BY <1>5, <4>2, <4>3 DEF Lasts
    <3>3. QED
      BY <3>1, <3>2
  <2>3. QED
    BY <1>3, <2>1, <2>2 DEF CacheInv, Client, Writing
<1>17. WriterInv(c)'
  <2>1. CASE caller[c].left = {f}
    BY <1>8, <2>1 DEF WriterInv, Writing
  <2>2. CASE caller[c].left # {f}
    <3>1. Valid(t)' <=> Valid(t)
      BY <1>3, <1>7, <2>2 DEF Valid, JustIssued
    <3>2. ASSUME "access" \notin caller'[c].left
          PROVE  /\ openid'.access = 0 \/ JustIssued(openid'.access)
                 /\ ~caller[c].disturbed => openid'.access = t.access
                 /\ Locked(c) => openid'.access \in {0, t.access}
      <4>1. CASE f = "access"
        BY <1>5, <1>12, <1>13, <4>1 DEF Valid
      <4>2. CASE f # "access"
        BY <1>1, <1>5, <1>7, <2>2, <3>2, <4>2 DEF OwnInv, WriterInv, Writing
      <4>3. QED
        BY <4>1, <4>2
    <3>3. ASSUME "time" \notin caller'[c].left, Locked(c)
          PROVE  openid'.time \in {Never, t.time}
      <4>1. CASE f = "time"
        BY <1>5, <4>1
      <4>2. CASE f # "time"
        BY <1>1, <1>5, <1>7, <2>2, <3>3, <4>2 DEF OwnInv, WriterInv, Writing
      <4>3. QED
        BY <4>1, <4>2
    <3>4. JustIssued(openid'.access) <=> JustIssued(openid.access)'
      BY <1>3 DEF JustIssued
    <3>5. QED
      BY <1>1, <1>3, <1>7, <1>9, <2>2, <3>1, <3>2, <3>3, <3>4
         DEF OwnInv, WriterInv, Writing, Client
  <2>3. QED
    BY <2>1, <2>2
<1>18. ReaderInv(c)' /\ CacheReadInv(c)'
  <2>1. CASE caller[c].left # {f}
    BY <1>7, <2>1 DEF ReaderInv, CacheReadInv, At
  <2>2. CASE caller[c].left = {f}
    <3>1. caller'[c].pc \notin {"access", "expires", "use"}
      BY <1>1, <1>8, <2>2
    <3>2. ASSUME caller[c].then = "read", ~caller[c].disturbed
          PROVE  openid'.access # 0
      <4>1. Valid(t)
        BY <1>1, <3>2 DEF OwnInv, WriterInv, Writing
      <4>2. openid'.access = t.access
        BY <1>1, <1>5, <2>2, <3>2 DEF OwnInv, WriterInv, Writing
      <4>3. QED
        BY <1>1, <1>12, <4>1, <4>2, TimesAssumption DEF Valid, JustIssued
    <3>3. QED
      BY <1>8, <2>2, <3>1, <3>2 DEF ReaderInv, CacheReadInv, At
  <2>3. QED
    BY <2>1, <2>2
<1>19. ASSUME NEW d \in Callers \ {c}
       PROVE  WriterInv(d)' /\ ReaderInv(d)' /\ CacheReadInv(d)'
  <2>1. WriterInv(d) /\ CacheReadInv(d)
    BY DEF IndInv
  <2>2. Locked(d) => t = Empty /\ openid'.access \in {0, openid.access}
    <3>1. Locked(d) => ~Locked(c) /\ Client
      BY DEF IndInv, TypeOK, Locked, Client
    <3>2. QED
      BY <1>5, <1>12, <1>14, <3>1
  <2>3. WriterInv(d)'
    <3>1. ASSUME caller[d].left # {} PROVE caller'[d].disturbed /\ caller[d].pc = "write"
      BY <1>10, <3>1 DEF IndInv, TypeOK
    <3>2. Valid(caller[d].got)' <=> Valid(caller'[d].got)
      BY <1>3, <1>10 DEF Valid, JustIssued
    <3>3. openid'.access = openid.access \/ openid'.access = 0 \/ JustIssued(openid'.access)
      BY <1>5, <1>12, <1>13 DEF Valid
    <3>4. JustIssued(openid'.access) <=> JustIssued(openid.access)'
      BY <1>3 DEF JustIssued
    <3>5. Locked(d) => openid'.time \in {Never, openid.time}
      BY <1>5, <1>12, <2>2
    <3>6. QED
      BY <1>3, <1>10, <2>1, <2>2, <3>1, <3>2, <3>3, <3>4, <3>5 DEF WriterInv, Writing, Client
  <2>4. ReaderInv(d)'
    BY <1>10 DEF ReaderInv, At
  <2>5. CacheReadInv(d)'
    <3>1. caller[d].pc \in {"access", "expires", "use"} =>
            caller'[d].disturbed /\ (Client => Locked(d))
      BY <1>10 DEF Client, Locked, Reading
    <3>2. QED
      BY <1>3, <1>10, <2>1, <2>2, <3>1 DEF CacheReadInv, At, Client
  <2>6. QED
    BY <2>3, <2>4, <2>5
<1>20. QED
  BY <1>11, <1>15, <1>16, <1>17, <1>18, <1>19 DEF IndInv

\* Time passes only when nobody is writing or looking at the token.
LEMMA TimePasses ==
  ASSUME IndInv, Tick
  PROVE  IndInv'
<1>1. /\ now' = now + 1 /\ now' \in 0..MaxTime /\ now \in Nat
      /\ UNCHANGED <<kind, openid, lock, caller>>
  BY TimesAssumption DEF IndInv, TypeOK, Tick
<1>2. \A d \in Callers : caller[d].pc \in {"idle", "lock", "refresh", "get"}
  BY DEF Tick, At
<1>3. TypeOK'
  <2>1. \A d \in Callers : Locked(d)' <=> Locked(d)
    BY <1>1 DEF Locked
  <2>2. QED
    BY <1>1, <2>1 DEF IndInv, TypeOK
<1>4. Times'
  <2>1. openid'.time <= now'
    BY <1>1 DEF IndInv, TypeOK, Times, Token
  <2>2. ASSUME NEW d \in Callers
        PROVE  /\ caller[d].begun <= now' /\ caller[d].got.time <= now'
               /\ caller[d].pc \in {"refresh", "get"} => now' <= caller[d].begun + Timeout
    <3>1. /\ caller[d].begun \in Nat /\ caller[d].got.time \in Int
          /\ caller[d].begun <= now /\ caller[d].got.time <= now
      BY DEF IndInv, TypeOK, Times, Caller, Token
    <3>2. caller[d].pc \in {"refresh", "get"} => now < caller[d].begun + Timeout
      BY DEF Tick, At
    <3>3. QED
      BY <1>1, <3>1, <3>2, TimesAssumption
  <2>3. QED
    BY <1>1, <2>1, <2>2 DEF Times, At
<1>5. CacheInv'
  BY <1>1 DEF IndInv, CacheInv, Lasts, Client, Locked, Writing
<1>6. ASSUME NEW d \in Callers
      PROVE  WriterInv(d)' /\ ReaderInv(d)' /\ CacheReadInv(d)'
  <2>1. caller'[d].left = {} /\ caller'[d].pc \notin {"read", "access", "expires", "use"}
    BY <1>1, <1>2 DEF IndInv, TypeOK
  <2>2. QED
    BY <2>1 DEF WriterInv, ReaderInv, CacheReadInv, Writing, At
<1>7. QED
  BY <1>3, <1>4, <1>5, <1>6 DEF IndInv

LEMMA Starts ==
  Init => IndInv
<1>1. SUFFICES ASSUME Init PROVE IndInv
  OBVIOUS
<1>2. /\ kind \in {"wrapper", "client"} /\ now = 0 /\ openid = Empty /\ lock = None
      /\ caller \in [Callers -> Caller]
      /\ \A c \in Callers :
           /\ caller[c].pc = "idle" /\ caller[c].left = {} /\ caller[c].begun = 0
           /\ caller[c].got = Empty
  <2>1. Resting.pc = "idle" /\ Resting.left = {} /\ Resting.begun = 0 /\ Resting.got = Empty
    BY DEF Resting
  <2>2. QED
    BY <1>1, <2>1, RestingIsCaller DEF Init
<1>3. Empty.access = 0 /\ Empty.time = Never
  BY DEF Empty
<1>4. TypeOK
  BY <1>2, RestingIsCaller, TimesAssumption, NoneAssumption DEF TypeOK, Locked, Reading
<1>5. Times /\ CacheInv
  BY <1>2, <1>3, RestingIsCaller DEF Times, CacheInv, Lasts, At
<1>6. \A c \in Callers : WriterInv(c) /\ ReaderInv(c) /\ CacheReadInv(c)
  BY <1>2 DEF WriterInv, ReaderInv, CacheReadInv, Writing, At
<1>7. QED
  BY <1>4, <1>5, <1>6 DEF IndInv

LEMMA EveryStep ==
  IndInv /\ [Next]_vars => IndInv'
<1>1. SUFFICES ASSUME IndInv, [Next]_vars PROVE IndInv'
  OBVIOUS
<1>2. CASE Tick
  BY <1>1, <1>2, TimePasses
<1>3. ASSUME NEW c \in Callers, Call(c) \/ Lock(c) \/ Step(c) PROVE IndInv'
  BY <1>1, <1>3, CallStep, LockIsTaken, TimeIsRead, TestAccessTokenStep, TestExpiresInStep,
     UseCachedStep, RenewStep, AnswerStep, RefreshFailsStep,
     GetFailsStep, FieldIsWritten, ReadStep, ErrorStep DEF Step
<1>4. CASE UNCHANGED vars
  <2>1. UNCHANGED <<kind, now, openid, lock, caller>>
    BY <1>4 DEF vars
  <2>2. \A d \in Callers : /\ Locked(d)' <=> Locked(d)
                           /\ WriterInv(d)' <=> WriterInv(d)
                           /\ ReaderInv(d)' <=> ReaderInv(d)
                           /\ CacheReadInv(d)' <=> CacheReadInv(d)
    BY <2>1 DEF Locked, WriterInv, ReaderInv, CacheReadInv, Writing, At, Client, Lasts, Age, Valid,
       JustIssued
  <2>3. TypeOK' /\ Times' /\ CacheInv'
    BY <1>1, <2>1, <2>2 DEF IndInv, TypeOK, Times, CacheInv, Lasts, Client, Writing, At
  <2>4. QED
    BY <1>1, <2>2, <2>3 DEF IndInv
<1>5. QED
  BY <1>1, <1>2, <1>3, <1>4 DEF Next

(***************************************************************************)
(* What the runs check, for all callers and times.                         *)
(***************************************************************************)

\* The fields of the shared token, written in any order by any number of
\* callers, never drift further apart than a request to the issuer takes, and
\* the mutex of the client is held by whoever is between Lock and Unlock.
THEOREM TokenInvariance ==
  Spec => []IndInv
<1>1. Init => IndInv
  BY Starts
<1>2. IndInv /\ [Next]_vars => IndInv'
  BY EveryStep
<1>3. QED
  BY <1>1, <1>2, PTL DEF Spec

\* An empty token is returned without an error only to a caller that was
\* disturbed: the cached one is tested, and getOpenidToken and
\* RefreshOpenidToken set the token they return.
THEOREM EmptyTokensAreTakenAway ==
  Spec => []EmptyOnlyWhenDisturbed
<1>1. IndInv => EmptyOnlyWhenDisturbed
  BY DEF IndInv, ReaderInv, CacheReadInv, EmptyOnlyWhenDisturbed, At
<1>2. QED
  BY <1>1, TokenInvariance, PTL

LEMMA CachedTokens ==
  ASSUME IndInv, NEW c \in Callers, UseCached(c)
  PROVE  \/ openid.access > now + Margin
         \/ caller[c].disturbed /\ (Client => openid.access = 0)
<1>1. /\ now \in Nat /\ openid.access \in Int /\ openid.time \in Int /\ openid.time <= now
      /\ caller[c].duration \in Nat /\ CacheReadInv(c) /\ caller[c].pc = "use"
  BY DEF IndInv, TypeOK, Times, Token, Caller, UseCached, At
<1>2. /\ caller[c].duration + Buffer < Life
      /\ caller[c].disturbed \/ openid.access # 0
  BY <1>1 DEF CacheReadInv, At
<1>3. CASE Client
  <2>1. openid.access = 0 \/ openid.access >= now - caller[c].duration + Life
    BY <1>1, <1>2, <1>3, TimesAssumption DEF CacheReadInv
  <2>2. QED
    BY <1>1, <1>2, <1>3, <2>1, TimesAssumption DEF Margin
<1>4. CASE ~Client /\ ~caller[c].disturbed
  <2>1. caller[c].duration = Age(openid.time) /\ Lasts(Life - Timeout)
    BY <1>1, <1>4 DEF CacheReadInv
  <2>2. caller[c].duration = now - openid.time
    BY <1>1, <1>2, <2>1, TimesAssumption DEF Age
  <2>3. openid.access >= openid.time + Life - Timeout
    BY <1>1, <1>2, <1>4, <2>1, TimesAssumption DEF Lasts
  <2>4. QED
    BY <1>1, <1>2, <1>4, <2>2, <2>3, TimesAssumption DEF Margin
<1>5. QED
  BY <1>3, <1>4

\* What EnsureAccess of the wrapper and of the client take from the cache
\* lasts for the buffer (in the wrapper, less one request to the issuer), but
\* for a caller that was disturbed: the client's gets no other token then than
\* the empty one of a reset.
THEOREM CachedTokensLast ==
  Spec => CachedTokenLasts
<1> DEFINE A == \A c \in Callers : UseCached(c) =>
                  \/ openid.access > now + Margin
                  \/ caller[c].disturbed /\ (Client => openid.access = 0)
<1>1. IndInv /\ [Next]_vars => [A]_vars
  BY CachedTokens
<1>2. QED
  BY <1>1, TokenInvariance, PTL DEF Spec, CachedTokenLasts
=============================================================================
