-------------------------- MODULE CMPRequestsProofs --------------------------
(* Theorems about CMPRequests, for any number of workers, any times and any  *)
(* number of troubles.                                                       *)
EXTENDS CMPRequests, TLAPS

(* The slot is out exactly while a call is inside, and with one call only.   *)
SlotInv ==
    /\ \A c \in Inside : slots = 1
    /\ \A c, d \in Inside : c = d
(* A call that sleeps in the limiter has its last token.                     *)
LimiterInv == \A c \in Callers : pc[c] = "limiter" /\ delay[c] > 0 => limiter = delay[c] + Interval
(* What a call on its way can have had CMP do.                               *)
ExecInv ==
    \A c \in Callers :
        /\ executed[c] <= 1
        /\ pc[c] \in {"slot", "limiter"} => executed[c] = 0
        /\ pc[c] \in {"sent", "retry"} /\ req[c].at \in {"net", "unauthorized", "limited"}
              => executed[c] = 0
        /\ pc[c] \in {"sent", "retry"} /\ req[c].at = "ok" => executed[c] = 1
(* A retry on its way has a token that outlives it, so it is not refused.    *)
FreshInv ==
    \A c \in Callers :
        /\ pc[c] = "retry" /\ req[c].at = "net" =>
              Validity - Timeout <= req[c].token - req[c].left
        /\ pc[c] = "retry" => req[c].at # "unauthorized"
RequestInv == TypeOK /\ SlotInv /\ LimiterInv /\ ExecInv /\ FreshInv /\ NeverUnauthorized

(* How a call that returns leaves the variables of its worker.               *)
LEMMA ReturnTyped ==
  ASSUME TypeOK, SlotInv, NEW c \in Inside, NEW y \in Answers \cup {"lost"}, Return(c, y)
  PROVE  /\ slots' = 0
         /\ \E place \in {"queued", "requeued", "forgotten", "done"} : pc' = [pc EXCEPT ![c] = place]
         /\ req' = [req EXCEPT ![c] = NoRequest]
         /\ result' = [result EXCEPT ![c] = y]
         /\ delay' \in [Callers -> Int]
         /\ \A d \in Callers : d # c => delay'[d] = delay[d]
<1>1. slots' = 0
  BY DEF SlotInv, Return, Release
<1>2. c \in Callers /\ delay \in [Callers -> Int]
  BY DEF Inside, TypeOK
<1>3. CASE y = "ok"
  BY <1>1, <1>2, <1>3 DEF Return
<1>4. CASE y = "limited"
  <2>1. PICK h \in RetryAfters :
          /\ delay' = [delay EXCEPT ![c] = RetryAfter(h)]
          /\ pc' = [pc EXCEPT ![c] = IF RetryAfter(h) > 0 THEN "requeued" ELSE "forgotten"]
    BY <1>4 DEF Return
  <2>2. RetryAfter(h) \in Int
    BY RequestAssumption DEF RequestAssumption, RetryAfter
  <2> QED
    BY <1>1, <1>2, <2>1, <2>2 DEF Return
<1>5. CASE y \notin {"ok", "limited"}
  BY <1>1, <1>2, <1>5 DEF Return
<1> QED
  BY <1>3, <1>4, <1>5

(* The initial states satisfy the invariant.                                 *)
LEMMA InitInv == ASSUME Init PROVE RequestInv
<1>1. TypeOK
  BY RequestAssumption DEF RequestAssumption, Init, TypeOK, Places, Request, NoRequest
<1>2. SlotInv /\ LimiterInv /\ ExecInv /\ FreshInv /\ NeverUnauthorized
  BY DEF Init, SlotInv, Inside, LimiterInv, ExecInv, FreshInv, NeverUnauthorized
<1> QED
  BY <1>1, <1>2 DEF RequestInv

(* A call that returns is counted out, whatever it returns.                  *)
LEMMA ReturnKeeps ==
  ASSUME RequestInv, NEW c \in Inside, NEW y \in Answers \cup {"lost"}, Return(c, y),
         CanRefresh => y # "unauthorized",
         UNCHANGED <<ceAuth, executed>>, troubles' \in 0 .. MaxTroubles,
         \/ UNCHANGED limiter
         \/ pc[c] = "limiter" /\ delay[c] > 0 /\ limiter' = limiter - Interval
  PROVE  RequestInv'
<1>1. c \in Callers /\ TypeOK /\ SlotInv
  BY DEF Inside, RequestInv
<1>2. PICK place \in {"queued", "requeued", "forgotten", "done"} : pc' = [pc EXCEPT ![c] = place]
  BY <1>1, ReturnTyped
<1>3. /\ slots' = 0 /\ req' = [req EXCEPT ![c] = NoRequest] /\ result' = [result EXCEPT ![c] = y]
      /\ delay' \in [Callers -> Int] /\ \A d \in Callers : d # c => delay'[d] = delay[d]
  BY <1>1, ReturnTyped
<1>4. limiter' \in Nat
  BY <1>1, RequestAssumption DEF RequestAssumption, RequestInv, TypeOK, LimiterInv
<1>5. TypeOK'
  <2>1. NoRequest \in Request
    BY RequestAssumption DEF RequestAssumption, NoRequest, Request
  <2>2. pc' \in [Callers -> Places]
    BY <1>1, <1>2 DEF TypeOK, Places
  <2>3. req' \in [Callers -> Request] /\ result' \in [Callers -> Answers \cup {"none", "lost"}]
    BY <1>1, <1>3, <2>1 DEF TypeOK
  <2> QED
    BY <1>1, <1>3, <1>4, <2>2, <2>3 DEF TypeOK
<1>6. Inside' = {}
  BY <1>1, <1>2 DEF SlotInv, Inside, TypeOK
<1>7. SlotInv' /\ LimiterInv'
  BY <1>6 DEF SlotInv, LimiterInv, Inside
<1>8. ExecInv' /\ FreshInv'
  BY <1>1, <1>2, <1>3 DEF RequestInv, ExecInv, FreshInv, TypeOK
<1>9. NeverUnauthorized'
  BY <1>1, <1>3 DEF RequestInv, NeverUnauthorized, TypeOK
<1> QED
  BY <1>5, <1>7, <1>8, <1>9 DEF RequestInv

(* Steps of a worker outside the client keep the invariant.                  *)
LEMMA OutsideKeeps ==
  ASSUME RequestInv, NEW c \in Callers, Call(c) \/ ComeBack(c) \/ NewWork(c) \/ GiveUpSlot(c)
  PROVE  RequestInv'
<1>1. PICK place \in {"queued", "slot"} : pc' = [pc EXCEPT ![c] = place]
                                         /\ (place = "slot" => executed'[c] = 0)
  BY DEF RequestInv, TypeOK, Call, ComeBack, NewWork, GiveUpSlot
<1>2. /\ UNCHANGED <<slots, limiter, ceAuth, req, delay, result>>
      /\ troubles' \in 0 .. MaxTroubles
      /\ executed' \in [Callers -> Nat] /\ \A d \in Callers : executed'[d] \in {executed[d], 0}
      /\ \A d \in Callers : d # c => executed'[d] = executed[d]
  BY RequestAssumption DEF RequestAssumption, RequestInv, TypeOK, Call, ComeBack, NewWork, GiveUpSlot, Trouble
<1>3. pc[c] \notin {"limiter", "sent", "retry"}
  BY DEF Call, ComeBack, NewWork, GiveUpSlot
<1>4. TypeOK'
  BY <1>1, <1>2 DEF RequestInv, TypeOK, Places
<1>5. Inside' = Inside
  BY <1>1, <1>3 DEF Inside, RequestInv, TypeOK
<1>6. SlotInv'
  BY <1>2, <1>5 DEF SlotInv, RequestInv
<1>7. LimiterInv' /\ FreshInv' /\ NeverUnauthorized'
  BY <1>1, <1>2 DEF RequestInv, TypeOK, LimiterInv, FreshInv, NeverUnauthorized
<1>8. ExecInv'
  BY <1>1, <1>2 DEF RequestInv, TypeOK, ExecInv
<1> QED
  BY <1>4, <1>6, <1>7, <1>8 DEF RequestInv

(* The way in: the slot, the limiter, the first try.                         *)
LEMMA EnterKeeps ==
  ASSUME RequestInv, NEW c \in Callers, AcquireSlot(c) \/ Send(c)
  PROVE  RequestInv'
<1>1. CASE AcquireSlot(c)
  <2>1. slots = 0 /\ slots' = 1 /\ Inside = {}
    BY <1>1 DEF AcquireSlot, Capacity, RequestInv, TypeOK, SlotInv
  <2>2. TypeOK'
    BY <1>1, <2>1, RequestAssumption DEF RequestAssumption, AcquireSlot, RequestInv, TypeOK, Places
  <2>3. Inside' = {c}
    BY <1>1, <2>1 DEF AcquireSlot, RequestInv, TypeOK, Inside
  <2>4. SlotInv'
    BY <2>1, <2>3 DEF SlotInv
  <2>5. LimiterInv'
    BY <1>1, <2>1 DEF AcquireSlot, RequestInv, TypeOK, LimiterInv, Inside
  <2>6. ExecInv' /\ FreshInv' /\ NeverUnauthorized'
    BY <1>1 DEF AcquireSlot, RequestInv, TypeOK, ExecInv, FreshInv, NeverUnauthorized
  <2> QED
    BY <2>2, <2>4, <2>5, <2>6 DEF RequestInv
<1>2. CASE Send(c)
  <2>1. NewTry(ceAuth) \in Request
    BY RequestAssumption DEF RequestAssumption, RequestInv, TypeOK, NewTry, Request
  <2>2. TypeOK'
    BY <1>2, <2>1 DEF Send, RequestInv, TypeOK, Places
  <2>3. Inside' = Inside
    BY <1>2 DEF Send, RequestInv, TypeOK, Inside
  <2>4. SlotInv' /\ LimiterInv' /\ NeverUnauthorized'
    BY <1>2, <2>3 DEF Send, RequestInv, TypeOK, SlotInv, LimiterInv, NeverUnauthorized
  <2>5. ExecInv' /\ FreshInv'
    BY <1>2 DEF Send, NewTry, RequestInv, TypeOK, ExecInv, FreshInv
  <2> QED
    BY <2>2, <2>4, <2>5 DEF RequestInv
<1> QED
  BY <1>1, <1>2

(* A retry is still inside, and CMP has not done what was refused.           *)
LEMMA RetryKeeps ==
  ASSUME RequestInv, NEW c \in Callers, Retry(c)
  PROVE  RequestInv'
<1>1. RetryTry(c) \in Request
  BY RequestAssumption DEF RequestAssumption, RetryTry, NewTry, Request
<1>2. TypeOK'
  BY <1>1, RequestAssumption DEF RequestAssumption, Retry, RequestInv, TypeOK, Places
<1>3. Inside' = Inside
  BY DEF Retry, Retries, RequestInv, TypeOK, Inside
<1>4. SlotInv' /\ LimiterInv' /\ NeverUnauthorized'
  BY <1>3 DEF Retry, RequestInv, TypeOK, SlotInv, LimiterInv, NeverUnauthorized
<1>5. ExecInv'
  BY DEF Retry, Retries, RetryTry, NewTry, RequestInv, TypeOK, ExecInv
<1>6. FreshInv'
  BY RequestAssumption DEF RequestAssumption, Retry, RequestInv, TypeOK, FreshInv, RetryTry, NewTry
<1> QED
  BY <1>2, <1>4, <1>5, <1>6 DEF RequestInv

(* CMP refuses only dead tokens, and before it does anything.                *)
LEMMA ArriveKeeps ==
  ASSUME RequestInv, NEW c \in Callers, Arrive(c)
  PROVE  RequestInv'
<1>1. PICK answer \in {"ok", "failed", "unauthorized", "limited", "lost"} :
        /\ req' = [req EXCEPT ![c].at = answer]
        /\ answer = "unauthorized" => req[c].token = 0
        /\ \/ UNCHANGED executed
           \/ /\ executed' = [executed EXCEPT ![c] = @ + 1]
              /\ answer \notin {"unauthorized", "limited"}
        /\ answer = "ok" => executed' = [executed EXCEPT ![c] = @ + 1]
  BY DEF Arrive, AnswersWith, Executes
<1>2. UNCHANGED <<pc, slots, limiter, ceAuth, delay, result>> /\ troubles' \in 0 .. MaxTroubles
      /\ pc[c] \in {"sent", "retry"} /\ req[c].at = "net"
  BY RequestAssumption DEF RequestAssumption, Arrive, Trouble, RequestInv, TypeOK
<1>3. TypeOK'
  <2>1. req' \in [Callers -> Request]
    BY <1>1 DEF RequestInv, TypeOK, Request, Answers
  <2>2. executed' \in [Callers -> Nat]
    BY <1>1 DEF RequestInv, TypeOK
  <2> QED
    BY <1>2, <2>1, <2>2 DEF RequestInv, TypeOK
<1>4. Inside' = Inside
  BY <1>2 DEF Inside
<1>5. SlotInv' /\ LimiterInv' /\ NeverUnauthorized'
  BY <1>2, <1>4 DEF RequestInv, SlotInv, LimiterInv, NeverUnauthorized
<1>6. executed[c] = 0
  BY <1>2 DEF RequestInv, ExecInv
<1>7. ExecInv'
  BY <1>1, <1>2, <1>6 DEF RequestInv, TypeOK, ExecInv
<1>8. pc[c] = "retry" => req[c].token > 0
  <2>1. req[c].token \in 0 .. Validity /\ req[c].left \in 0 .. Timeout
    BY DEF RequestInv, TypeOK, Request
  <2> QED
    BY <1>2, <2>1, RequestAssumption DEF RequestAssumption, RequestInv, FreshInv
<1>9. FreshInv'
  BY <1>1, <1>2, <1>8 DEF RequestInv, TypeOK, FreshInv
<1> QED
  BY <1>3, <1>5, <1>7, <1>9 DEF RequestInv

(* Time takes as much from a token as from the try that carries it.          *)
LEMMA TickKeeps ==
  ASSUME RequestInv, Tick
  PROVE  RequestInv'
<1>1. \A n \in Int : Less(n) \in Int /\ (n \in Nat => Less(n) \in Nat /\ Less(n) <= n)
  BY DEF Less
<1>2. req' \in [Callers -> Request]
      /\ \A c \in Callers : /\ req'[c].at = req[c].at
                            /\ req'[c].token = Less(req[c].token) /\ req'[c].left = Less(req[c].left)
  <2>1. ASSUME NEW c \in Callers
        PROVE  /\ req'[c] \in Request /\ req'[c].at = req[c].at
               /\ req'[c].token = Less(req[c].token) /\ req'[c].left = Less(req[c].left)
    <3>1. req[c] \in Request
      BY DEF RequestInv, TypeOK
    <3>2. req'[c] = [req[c] EXCEPT !.token = Less(req[c].token), !.left = Less(req[c].left)]
      BY DEF Tick
    <3>3. /\ req'[c] = [token |-> Less(req[c].token), left |-> Less(req[c].left), at |-> req[c].at]
      BY <3>1, <3>2 DEF Request
    <3>4. Less(req[c].token) \in 0 .. Validity /\ Less(req[c].left) \in 0 .. Timeout
      BY <3>1, RequestAssumption DEF RequestAssumption, Request, Less
    <3> QED
      BY <3>1, <3>3, <3>4 DEF Request
  <2>2. req' = [c \in Callers |-> req'[c]]
    BY DEF Tick
  <2> QED
    BY <2>1, <2>2
<1>3. TypeOK'
  <2>1. limiter' = Less(limiter) /\ ceAuth' = Less(ceAuth)
    BY DEF Tick
  <2>2. limiter' \in Nat /\ ceAuth' \in 0 .. Validity
    <3>1. limiter \in Nat /\ ceAuth \in 0 .. Validity
      BY DEF RequestInv, TypeOK
    <3> QED
      BY <2>1, <3>1, RequestAssumption DEF RequestAssumption, Less
  <2>3. delay' \in [Callers -> Int]
    BY <1>1 DEF Tick, RequestInv, TypeOK
  <2> QED
    BY <1>2, <2>2, <2>3 DEF Tick, RequestInv, TypeOK
<1>4. Inside' = Inside
  BY DEF Tick, Inside
<1>5. SlotInv' /\ NeverUnauthorized'
  BY <1>4 DEF Tick, RequestInv, SlotInv, NeverUnauthorized
<1>6. LimiterInv'
  <2>1. SUFFICES ASSUME NEW c \in Callers, pc'[c] = "limiter", delay'[c] > 0
                 PROVE  limiter' = delay'[c] + Interval
    BY DEF LimiterInv
  <2>2. pc[c] = "limiter" /\ delay'[c] = Less(delay[c]) /\ limiter' = Less(limiter)
    BY <2>1 DEF Tick
  <2>3. delay[c] \in Int /\ limiter \in Nat
    BY DEF RequestInv, TypeOK
  <2>4. delay[c] > 0
    BY <2>1, <2>2, <2>3 DEF Less
  <2>5. limiter = delay[c] + Interval
    BY <2>2, <2>4 DEF RequestInv, LimiterInv
  <2> QED
    BY <2>2, <2>3, <2>4, <2>5, RequestAssumption DEF RequestAssumption, Less
<1>7. ExecInv'
  BY <1>2 DEF Tick, RequestInv, ExecInv
<1>8. FreshInv'
  <2>1. ASSUME NEW c \in Callers, pc[c] = "retry", req[c].at = "net"
        PROVE  Validity - Timeout <= req'[c].token - req'[c].left
    <3>1. req[c].left > 0 /\ Validity - Timeout <= req[c].token - req[c].left
      BY <2>1 DEF Tick, InFlight, RequestInv, FreshInv
    <3>2. req[c].token \in 0 .. Validity /\ req[c].left \in 0 .. Timeout
      BY DEF RequestInv, TypeOK, Request
    <3> QED
      BY <1>2, <3>1, <3>2, RequestAssumption DEF RequestAssumption, Less
  <2> QED
    BY <1>2, <2>1 DEF Tick, RequestInv, FreshInv
<1> QED
  BY <1>3, <1>5, <1>6, <1>7, <1>8 DEF RequestInv

(* Every step keeps the invariant.                                           *)
LEMMA NextInv == ASSUME RequestInv, [Next]_vars PROVE RequestInv'
<1>1. ASSUME NEW c \in Callers, ReturnAnswer(c) PROVE RequestInv'
  <2>1. c \in Inside /\ req[c].at \in Answers /\ Return(c, req[c].at)
    BY <1>1 DEF ReturnAnswer, Outcome, Inside
  <2>2. CanRefresh => req[c].at # "unauthorized"
    BY <1>1 DEF ReturnAnswer, Retries, RequestInv, FreshInv
  <2> QED
    BY <1>1, <2>1, <2>2, ReturnKeeps DEF ReturnAnswer, RequestInv, TypeOK
<1>2. ASSUME NEW c \in Callers, ReturnTimeout(c) PROVE RequestInv'
  <2>1. c \in Inside
    BY <1>2 DEF ReturnTimeout, Inside
  <2> QED
    BY <1>2, <2>1, ReturnKeeps DEF ReturnTimeout, RequestInv, TypeOK
<1>3. ASSUME NEW c \in Callers, GiveUpLimiter(c) PROVE RequestInv'
  <2>1. c \in Inside /\ troubles' \in 0 .. MaxTroubles
    BY <1>3, RequestAssumption DEF RequestAssumption, GiveUpLimiter, Inside, Trouble, RequestInv, TypeOK
  <2> QED
    BY <1>3, <2>1, ReturnKeeps DEF GiveUpLimiter
<1>4. CASE UNCHANGED vars
  BY <1>4 DEF vars, RequestInv, TypeOK, SlotInv, Inside, LimiterInv, ExecInv, FreshInv, NeverUnauthorized
<1> QED
  BY <1>1, <1>2, <1>3, <1>4, OutsideKeeps, EnterKeeps, RetryKeeps, ArriveKeeps, TickKeeps
     DEF Next, Step

(* The inductive invariant holds in every reachable state.                   *)
THEOREM RequestInvariant == Spec => []RequestInv
  BY InitInv, NextInv, PTL DEF Spec

(* Every variable keeps its type; the release of the slot never blocks.      *)
THEOREM RequestsTyped == Spec => []TypeOK
<1>1. RequestInv => TypeOK
  BY DEF RequestInv
<1> QED
  BY <1>1, RequestInvariant, PTL

(* One client never has two requests under way.                              *)
THEOREM OneRequestAtATime == Spec => []OneInFlight
<1>1. RequestInv => OneInFlight
  BY DEF RequestInv, SlotInv, OneInFlight, Inside, InFlight
<1> QED
  BY <1>1, RequestInvariant, PTL

(* The client never has CMP carry out one call twice.                        *)
THEOREM RetriedOnlyUndone == Spec => []ExecutedOnce
<1>1. RequestInv => ExecutedOnce
  BY DEF RequestInv, ExecInv, ExecutedOnce
<1> QED
  BY <1>1, RequestInvariant, PTL

(* With an API key and a token that lives longer than a try may take, no     *)
(* call is refused for its token in the end.                                 *)
THEOREM TokenRefreshSuffices == Spec => []NeverUnauthorized
<1>1. RequestInv => NeverUnauthorized
  BY DEF RequestInv
<1> QED
  BY <1>1, RequestInvariant, PTL

(* The refinement: what each step of the client is to its callers.           *)
LEMMA CallsInit == ASSUME Init PROVE Calls!Init
  BY DEF Init, Calls!Init, Phase

(* A step that moves one worker between two phases, or within one.           *)
LEMMA PhaseStep ==
  ASSUME TypeOK, NEW c \in Callers, NEW place \in Places, pc' = [pc EXCEPT ![c] = place]
  PROVE  [d \in Callers |-> Phase(d)]' =
            [[d \in Callers |-> Phase(d)] EXCEPT
                ![c] = CASE place = "slot" -> "waiting"
                         [] place \in {"limiter", "sent", "retry"} -> "inside"
                         [] OTHER -> "away"]
  BY DEF TypeOK, Phase

(* Every return is one that tells its caller the truth.                      *)
LEMMA ReturnsTrue ==
  ASSUME RequestInv, NEW c \in Inside, NEW y \in Answers \cup {"lost"}, Return(c, y),
         UNCHANGED executed, Calls!True(c, y)
  PROVE  Calls!Return(c, y) /\ y \in Calls!Outcomes
<1>1. c \in Callers /\ TypeOK /\ SlotInv
  BY DEF Inside, RequestInv
<1>2. PICK place \in {"queued", "requeued", "forgotten", "done"} : pc' = [pc EXCEPT ![c] = place]
  BY <1>1, ReturnTyped
<1>3. result' = [result EXCEPT ![c] = y]
  BY <1>1, ReturnTyped
<1>4. place \in Places
  BY DEF Places
<1>5. [d \in Callers |-> Phase(d)]' = [[d \in Callers |-> Phase(d)] EXCEPT ![c] = "away"]
  BY <1>1, <1>2, <1>4, PhaseStep
<1>6. Phase(c) = "inside"
  BY DEF Inside, Phase
<1> QED
  BY <1>1, <1>3, <1>5, <1>6 DEF Calls!Return, Calls!Outcomes, Answers

(* Every step of the client is a step of a call, or none.                    *)
LEMMA CallsStep == ASSUME RequestInv, [Next]_vars PROVE [Calls!Next]_Calls!vars
<1> USE DEF Calls!Next
<1>t. TypeOK
  BY DEF RequestInv
<1>1. ASSUME NEW c \in Callers, Call(c) PROVE Calls!Next
  <2>1. [d \in Callers |-> Phase(d)]' = [[d \in Callers |-> Phase(d)] EXCEPT ![c] = "waiting"]
    BY <1>t, <1>1, PhaseStep DEF Call, Places
  <2> QED
    BY <1>1, <2>1 DEF Call, Calls!Call, Phase
<1>2. ASSUME NEW c \in Callers, AcquireSlot(c) PROVE Calls!Next
  <2>1. [d \in Callers |-> Phase(d)]' = [[d \in Callers |-> Phase(d)] EXCEPT ![c] = "inside"]
    BY <1>t, <1>2, PhaseStep DEF AcquireSlot, Places
  <2>2. \A d \in Callers : Phase(d) # "inside"
    BY <1>2 DEF AcquireSlot, Capacity, RequestInv, SlotInv, Inside, Phase
  <2> QED
    BY <1>2, <2>1, <2>2 DEF AcquireSlot, Calls!Enter, Phase
<1>3. ASSUME NEW c \in Callers, Send(c) \/ Retry(c) PROVE UNCHANGED Calls!vars
  <2>1. PICK place \in {"sent", "retry"} : pc' = [pc EXCEPT ![c] = place]
    BY <1>3 DEF Send, Retry
  <2>2. [d \in Callers |-> Phase(d)]' = [[d \in Callers |-> Phase(d)] EXCEPT ![c] = "inside"]
    BY <1>t, <2>1, PhaseStep DEF Places
  <2>3. Phase(c) = "inside" /\ UNCHANGED <<executed, result>>
    BY <1>3 DEF Send, Retry, Retries, Phase
  <2> QED
    BY <2>2, <2>3 DEF Calls!vars
<1>4. ASSUME NEW c \in Callers, ReturnAnswer(c) PROVE Calls!Next
  <2>1. c \in Inside /\ req[c].at \in Answers /\ Return(c, req[c].at) /\ UNCHANGED executed
    BY <1>4 DEF ReturnAnswer, Outcome, Inside
  <2>2. Calls!True(c, req[c].at)
    BY <1>4 DEF ReturnAnswer, Retries, RequestInv, ExecInv, FreshInv, Calls!True
  <2> QED
    BY <1>4, <2>1, <2>2, ReturnsTrue
<1>5. ASSUME NEW c \in Callers, ReturnTimeout(c) \/ GiveUpLimiter(c) PROVE Calls!Next
  <2>1. c \in Inside /\ Return(c, "lost") /\ UNCHANGED executed
    BY <1>5 DEF ReturnTimeout, GiveUpLimiter, Inside
  <2>2. Calls!True(c, "lost")
    BY DEF Calls!True
  <2> QED
    BY <1>5, <2>1, <2>2, ReturnsTrue
<1>6. ASSUME NEW c \in Callers, GiveUpSlot(c) PROVE Calls!Next
  <2>1. [d \in Callers |-> Phase(d)]' = [[d \in Callers |-> Phase(d)] EXCEPT ![c] = "away"]
    BY <1>t, <1>6, PhaseStep DEF GiveUpSlot, Places
  <2> QED
    BY <1>6, <2>1 DEF GiveUpSlot, Calls!Leave, Phase
<1>7. ASSUME NEW c \in Callers, ComeBack(c) \/ NewWork(c) PROVE UNCHANGED Calls!vars
  <2>1. [d \in Callers |-> Phase(d)]' = [[d \in Callers |-> Phase(d)] EXCEPT ![c] = "away"]
    BY <1>t, <1>7, PhaseStep DEF ComeBack, NewWork, Places
  <2>2. Phase(c) = "away" /\ UNCHANGED <<executed, result>>
    BY <1>7 DEF ComeBack, NewWork, Phase
  <2> QED
    BY <2>1, <2>2 DEF Calls!vars
<1>8. ASSUME NEW c \in Callers, Arrive(c) PROVE [Calls!Next]_Calls!vars
  <2>1. UNCHANGED <<pc, result>> /\ pc[c] \in {"sent", "retry"} /\ executed[c] = 0
    BY <1>8 DEF Arrive, RequestInv, ExecInv
  <2>2. UNCHANGED executed \/ executed' = [executed EXCEPT ![c] = 1]
    BY <1>8, <2>1 DEF Arrive, Executes
  <2>3. Phase(c) = "inside" /\ [d \in Callers |-> Phase(d)]' = [d \in Callers |-> Phase(d)]
    BY <2>1 DEF Phase
  <2> QED
    BY <1>8, <2>1, <2>2, <2>3 DEF Calls!Execute, Calls!vars
<1>9. CASE Tick
  BY <1>9 DEF Tick, Calls!vars, Phase
<1>10. CASE UNCHANGED vars
  BY <1>10 DEF vars, Calls!vars, Phase
<1> QED
  BY <1>1, <1>2, <1>3, <1>4, <1>5, <1>6, <1>7, <1>8, <1>9, <1>10 DEF Next, Step

(* To its callers the client is CMPCalls: one call at a time, carried out at *)
(* most once, with a true answer.                                            *)
THEOREM RequestsImplementCalls == Spec => ImplementsCalls
  BY CallsInit, CallsStep, RequestInvariant, PTL DEF Spec, ImplementsCalls, Calls!Spec
=============================================================================
