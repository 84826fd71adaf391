------------------------------- MODULE CMPCalls -------------------------------
(* What the CMP client of pkg/f5/client.go promises to its callers, with the *)
(* slot, the limiter, tokens, retries, timeouts and time left out: one call  *)
(* at a time is with CMP, CMP carries it out at most once, and what the call *)
(* returns is true.  CMPRequests implements it.                              *)
CONSTANTS Callers,
          CanRefresh   \* the API key is configured

VARIABLES phase,     \* "away": no call; "waiting": before its turn; "inside": it has its turn
          executed,  \* how often CMP carried out the call in hand: 0 or 1
          result     \* what the last call returned
vars == <<phase, executed, result>>

Outcomes == {"ok", "failed", "lost", "unauthorized", "limited"}

Init ==
    /\ phase = [c \in Callers |-> "away"]
    /\ executed = [c \in Callers |-> 0]
    /\ result = [c \in Callers |-> "none"]

Call(c) ==
    /\ phase[c] = "away"
    /\ phase' = [phase EXCEPT ![c] = "waiting"]
    /\ executed' = [executed EXCEPT ![c] = 0]
    /\ UNCHANGED result

Enter(c) ==
    /\ phase[c] = "waiting" /\ \A d \in Callers : phase[d] # "inside"
    /\ phase' = [phase EXCEPT ![c] = "inside"]
    /\ UNCHANGED <<executed, result>>

(* The caller's context ends before its turn: nothing has been done. *)
Leave(c) ==
    /\ phase[c] = "waiting"
    /\ phase' = [phase EXCEPT ![c] = "away"]
    /\ UNCHANGED <<executed, result>>

Execute(c) ==
    /\ phase[c] = "inside" /\ executed[c] = 0
    /\ executed' = [executed EXCEPT ![c] = 1]
    /\ UNCHANGED <<phase, result>>

(* "ok" was done; "limited" and "unauthorized" were not, so the caller may   *)
(* ask again; "failed" and "lost" say nothing, and the caller has to look.   *)
True(c, outcome) ==
    CASE outcome = "ok"           -> executed[c] = 1
      [] outcome = "limited"      -> executed[c] = 0
      [] outcome = "unauthorized" -> executed[c] = 0 /\ ~CanRefresh
      [] OTHER                    -> TRUE
Return(c, outcome) ==
    /\ phase[c] = "inside" /\ True(c, outcome)
    /\ phase' = [phase EXCEPT ![c] = "away"]
    /\ result' = [result EXCEPT ![c] = outcome]
    /\ UNCHANGED executed

Next ==
    \E c \in Callers :
        \/ Call(c) \/ Enter(c) \/ Leave(c) \/ Execute(c)
        \/ \E outcome \in Outcomes : Return(c, outcome)
Spec == Init /\ [][Next]_vars
=============================================================================
