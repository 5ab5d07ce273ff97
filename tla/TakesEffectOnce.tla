--------------------------- MODULE TakesEffectOnce ---------------------------
(***************************************************************************)
(* What an idempotency key promises its callers (docs/specs/HLP.md 4.1):   *)
(* a keyed call takes effect at most once, an answer is given only for a   *)
(* call that took effect, and an effect that was answered is never undone. *)
(* IdempotentOutbox is shown to implement this.                            *)
(***************************************************************************)
CONSTANT Calls   \* the logical calls: a key with the request it was used for

VARIABLES
  applied,    \* the calls that took effect
  answered    \* the calls some caller was given the result of

Init == applied = {} /\ answered = {}

\* One call takes effect; no second call of its key may do so.
Apply(call) ==
  /\ \A other \in applied : other[1] # call[1]
  /\ applied' = applied \cup {call}
  /\ UNCHANGED answered

Answer(call) ==
  /\ call \in applied
  /\ answered' = answered \cup {call}
  /\ UNCHANGED applied

Next == \E call \in Calls : Apply(call) \/ Answer(call)

Spec == Init /\ [][Next]_<<applied, answered>>
=============================================================================
