------------------------------ MODULE CMPRequests ------------------------------
(* The requests f5client makes to CMP (pkg/f5/client.go): one client shared  *)
(* by the workers of a process.  A call takes the request slot, waits for    *)
(* the rate limiter, sends its request with the stored Ce-Auth token, and on *)
(* 401 makes a new token and sends once more; the slot is released when the  *)
(* call returns.  A worker reconciles its object again after an error, and   *)
(* after the time CMP asked for when that was "429 Too Many Requests".       *)
(*                                                                           *)
(* Abstractions: a reconciliation is one call; time goes in ticks, and       *)
(* everything that expires is a number of ticks left; a token is the time it *)
(* is still valid.  The wait of a call may end with its context (GiveUpSlot, *)
(* GiveUpLimiter); a call that is past it ends with its answer or timeout.   *)
EXTENDS Integers, FiniteSets

CONSTANTS Callers,
          CanRefresh,    \* the API key is configured
          Interval,      \* rate.Every: ticks between two tokens of the limiter
          Validity,      \* life of a Ce-Auth token made here
          Timeout,       \* http.Client.Timeout, for each try
          DefaultWait,   \* after 429 without a usable Retry-After
          RetryAfters,   \* what Retry-After may say
          MaxTroubles    \* bound on what goes wrong

(* Retry-After is missing, a number of seconds, or a date: from now, in      *)
(* ticks, and perhaps in the past.                                           *)
HeaderKinds == {"absent", "seconds", "date"}

ASSUME RequestAssumption ==
    /\ CanRefresh \in BOOLEAN
    /\ Interval \in Nat \ {0} /\ Validity \in Nat /\ Timeout \in Nat \ {0}
    /\ Timeout < Validity
    /\ DefaultWait \in Nat \ {0}
    /\ RetryAfters \subseteq [kind : HeaderKinds, n : Int]
    /\ MaxTroubles \in Nat

VARIABLES pc,        \* where each worker is
          slots,     \* requestSlots: how many the channel holds
          limiter,   \* ticks until the limiter has a token again
          ceAuth,    \* the stored token
          req,       \* the try in flight of each call
          delay,     \* ticks until a worker that waits comes back
          executed,  \* how often CMP carried out the call in hand
          result,    \* what the last call of each worker returned
          troubles
vars == <<pc, slots, limiter, ceAuth, req, delay, executed, result, troubles>>

(* at: still on its way, the answer CMP gave, or an answer that got lost. *)
Answers == {"ok", "failed", "unauthorized", "limited"}
Request == [token : 0 .. Validity, left : 0 .. Timeout,
            at : Answers \cup {"net", "lost", "none"}]
NoRequest == [token |-> 0, left |-> 0, at |-> "none"]

Places == {"queued", "slot", "limiter", "sent", "retry", "requeued", "forgotten", "done"}
Inside == {c \in Callers : pc[c] \in {"limiter", "sent", "retry"}}
InFlight == {c \in Callers : pc[c] \in {"sent", "retry"}}

TypeOK ==
    /\ pc \in [Callers -> Places]
    /\ slots \in 0 .. 1
    /\ limiter \in Nat /\ ceAuth \in 0 .. Validity
    /\ req \in [Callers -> Request]
    /\ delay \in [Callers -> Int]
    /\ executed \in [Callers -> Nat]
    /\ result \in [Callers -> Answers \cup {"none", "lost"}]
    /\ troubles \in 0 .. MaxTroubles

(* The token the process starts with was made by somebody else, some time ago. *)
Init ==
    /\ pc = [c \in Callers |-> "queued"]
    /\ slots = 0 /\ limiter = 0
    /\ ceAuth \in 0 .. Validity
    /\ req = [c \in Callers |-> NoRequest]
    /\ delay = [c \in Callers |-> 0]
    /\ executed = [c \in Callers |-> 0]
    /\ result = [c \in Callers |-> "none"]
    /\ troubles = 0

Trouble == troubles < MaxTroubles /\ troubles' = troubles + 1

(* ------------------------------- the call ------------------------------- *)

(* A worker reconciles and calls CMP; it stands before the slot. *)
Call(c) ==
    /\ pc[c] = "queued"
    /\ pc' = [pc EXCEPT ![c] = "slot"]
    /\ executed' = [executed EXCEPT ![c] = 0]
    /\ UNCHANGED <<slots, limiter, ceAuth, req, delay, result, troubles>>

(* Mutant of Capacity: the channel holds two. *)
CapacityTwo == 2
Capacity == 1
(* acquireRequestSlot, then rateLimiter.Wait takes the next token there is.  *)
AcquireSlot(c) ==
    /\ pc[c] = "slot" /\ slots < Capacity
    /\ slots' = slots + 1
    /\ pc' = [pc EXCEPT ![c] = "limiter"]
    /\ delay' = [delay EXCEPT ![c] = limiter]
    /\ limiter' = limiter + Interval
    /\ UNCHANGED <<ceAuth, req, executed, result, troubles>>

NewTry(token) == [token |-> token, left |-> Timeout, at |-> "net"]

Send(c) ==
    /\ pc[c] = "limiter" /\ delay[c] <= 0
    /\ pc' = [pc EXCEPT ![c] = "sent"]
    /\ req' = [req EXCEPT ![c] = NewTry(ceAuth)]
    /\ UNCHANGED <<slots, limiter, ceAuth, delay, executed, result, troubles>>

(* 401: a new token is stored, and the same request goes out with it.        *)
(* Mutant of Retries: a server error is tried again, too. *)
RetriesFailures(c) == pc[c] = "sent" /\ req[c].at \in {"unauthorized", "failed"} /\ CanRefresh
Retries(c) == pc[c] = "sent" /\ req[c].at = "unauthorized" /\ CanRefresh
(* Mutant of RetryTry: the request keeps the header it had. *)
OldHeader(c) == NewTry(req[c].token)
RetryTry(c) == NewTry(Validity)
Retry(c) ==
    /\ Retries(c)
    /\ pc' = [pc EXCEPT ![c] = "retry"]
    /\ ceAuth' = Validity
    /\ req' = [req EXCEPT ![c] = RetryTry(c)]
    /\ UNCHANGED <<slots, limiter, delay, executed, result, troubles>>

(* The duration in RateLimitedError. *)
(* Mutant of RetryAfter: what CMP sent, usable or not. *)
RetryAfterAsSent(h) == IF h.kind = "absent" THEN DefaultWait ELSE h.n
RetryAfter(h) == IF h.kind # "absent" /\ h.n > 0 THEN h.n ELSE DefaultWait

(* releaseRequestSlot: blocks while the channel is empty. *)
Release == slots > 0 /\ slots' = slots - 1
(* Every return, the deferred release of the slot included.  What the worker *)
(* makes of it: success is the end; RequeueAfter comes back after that time, *)
(* and not at all if it is not positive (the Service reconciler alone would  *)
(* wait two minutes then); an error comes back by itself.                    *)
Return(c, outcome) ==
    /\ Release
    /\ result' = [result EXCEPT ![c] = outcome]
    /\ req' = [req EXCEPT ![c] = NoRequest]
    /\ CASE outcome = "ok" -> pc' = [pc EXCEPT ![c] = "done"] /\ UNCHANGED delay
         [] outcome = "limited" ->
              \E h \in RetryAfters :
                 /\ delay' = [delay EXCEPT ![c] = RetryAfter(h)]
                 /\ pc' = [pc EXCEPT ![c] = IF RetryAfter(h) > 0 THEN "requeued" ELSE "forgotten"]
         [] OTHER -> pc' = [pc EXCEPT ![c] = "queued"] /\ UNCHANGED delay

(* Mutant of Outcome: the status of an error answer is not looked at. *)
OutcomeUnread(c) == IF req[c].at = "failed" THEN "ok" ELSE req[c].at
Outcome(c) == req[c].at
ReturnAnswer(c) ==
    /\ pc[c] \in {"sent", "retry"} /\ req[c].at \in Answers /\ ~Retries(c)
    /\ Return(c, Outcome(c))
    /\ UNCHANGED <<limiter, ceAuth, executed, troubles>>

(* http.Client.Timeout: no answer in time. *)
ReturnTimeout(c) ==
    /\ pc[c] \in {"sent", "retry"} /\ req[c].at = "lost" /\ req[c].left = 0
    /\ Return(c, "lost")
    /\ UNCHANGED <<limiter, ceAuth, executed, troubles>>

(* The context ends before the slot is free, *)
(* Mutant of GiveUpSlot: the release is deferred before it is acquired. *)
GiveUpSlotAnyway(c) ==
    /\ pc[c] = "slot" /\ Trouble
    /\ Release
    /\ pc' = [pc EXCEPT ![c] = "queued"]
    /\ UNCHANGED <<limiter, ceAuth, req, delay, executed, result>>
GiveUpSlot(c) ==
    /\ pc[c] = "slot" /\ Trouble
    /\ pc' = [pc EXCEPT ![c] = "queued"]
    /\ UNCHANGED <<slots, limiter, ceAuth, req, delay, executed, result>>
(* or in the limiter, which gets its token back. *)
GiveUpLimiter(c) ==
    /\ pc[c] = "limiter" /\ delay[c] > 0 /\ Trouble
    /\ Return(c, "lost")
    /\ limiter' = limiter - Interval
    /\ UNCHANGED <<ceAuth, executed>>

(* RequeueAfter is over. *)
ComeBack(c) ==
    /\ pc[c] = "requeued" /\ delay[c] <= 0
    /\ pc' = [pc EXCEPT ![c] = "queued"]
    /\ UNCHANGED <<slots, limiter, ceAuth, req, delay, executed, result, troubles>>

(* ------------------------- CMP, the network, time ------------------------ *)

Executes(c) == executed' = [executed EXCEPT ![c] = @ + 1]
AnswersWith(c, answer) == req' = [req EXCEPT ![c].at = answer]

(* The request arrives in time or gets lost.  A token that has expired is    *)
(* refused before anything is done; an error answer, or none, may come after *)
(* it was done.                                                              *)
Arrive(c) ==
    /\ pc[c] \in {"sent", "retry"} /\ req[c].at = "net"
    /\ \/ /\ req[c].token = 0
          /\ AnswersWith(c, "unauthorized") /\ UNCHANGED <<executed, troubles>>
       \/ /\ req[c].token > 0
          /\ \/ AnswersWith(c, "ok") /\ Executes(c) /\ UNCHANGED troubles
             \/ Trouble /\ AnswersWith(c, "limited") /\ UNCHANGED executed
             \/ /\ Trouble /\ (Executes(c) \/ UNCHANGED executed)
                /\ \E answer \in {"failed", "lost"} : AnswersWith(c, answer)
    /\ UNCHANGED <<pc, slots, limiter, ceAuth, delay, result>>

Less(n) == IF n > 0 THEN n - 1 ELSE n
(* A try ends when its time is up. *)
Tick ==
    /\ \A c \in InFlight : req[c].left > 0
    /\ limiter' = Less(limiter) /\ ceAuth' = Less(ceAuth)
    /\ req' = [c \in Callers |->
                 [req[c] EXCEPT !.token = Less(@), !.left = Less(@)]]
    /\ delay' = [c \in Callers |-> Less(delay[c])]
    /\ UNCHANGED <<pc, slots, executed, result, troubles>>

(* The object changes: its worker has something to do again. *)
NewWork(c) ==
    /\ pc[c] \in {"done", "forgotten"}
    /\ pc' = [pc EXCEPT ![c] = "queued"]
    /\ UNCHANGED <<slots, limiter, ceAuth, req, delay, executed, result, troubles>>

Step(c) ==
    \/ Call(c) \/ AcquireSlot(c) \/ Send(c) \/ Retry(c)
    \/ ReturnAnswer(c) \/ ReturnTimeout(c) \/ ComeBack(c)
Next ==
    \/ \E c \in Callers : Step(c) \/ GiveUpSlot(c) \/ GiveUpLimiter(c) \/ Arrive(c) \/ NewWork(c)
    \/ Tick
Spec == Init /\ [][Next]_vars

(* Goroutines run; a sender blocked on the channel is woken in its turn, and *)
(* time passes.                                                              *)
Fairness ==
    /\ WF_vars(Tick)
    /\ \A c \in Callers : WF_vars(Step(c)) /\ SF_vars(AcquireSlot(c)) /\ WF_vars(Arrive(c))
FairSpec == Spec /\ Fairness

(* ------------------------------- Properties ------------------------------ *)

(* However callers give up, time out, retry or fail: never two requests of   *)
(* one client at CMP's door (newCMPRequestSlots, the deferred release).      *)
OneInFlight == \A c, d \in InFlight : c = d

(* The client never has CMP do the same call twice: what it sends again was  *)
(* refused before it was carried out (retry exactly once, only for 401).     *)
ExecutedOnce == \A c \in Callers : executed[c] <= 1

(* With an API key no call comes back "unauthorized", however old the token  *)
(* at hand: the retry carries a token that outlives it (refreshCeAuthToken). *)
NeverUnauthorized == CanRefresh => \A c \in Callers : result[c] # "unauthorized"

(* Every worker that has something to do gets it done: the slot comes back   *)
(* on every path, and a rate-limited call is made again, whatever            *)
(* Retry-After said.                                                         *)
WorkGetsDone == \A c \in Callers : pc[c] = "queued" ~> pc[c] = "done"

(* To its callers the client is CMPCalls: through slot, limiter, token       *)
(* refresh, retry and timeouts one call at a time is with CMP, it is carried *)
(* out at most once, and what it returns is true of it.                      *)
Phase(c) ==
    CASE pc[c] = "slot" -> "waiting"
      [] pc[c] \in {"limiter", "sent", "retry"} -> "inside"
      [] OTHER -> "away"
Calls == INSTANCE CMPCalls WITH phase <- [c \in Callers |-> Phase(c)]
ImplementsCalls == Calls!Spec
=============================================================================
