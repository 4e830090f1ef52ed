---------------------------- MODULE KeyRegistry ----------------------------
(***************************************************************************)
(* What an idempotency key promises (README.md: "idempotency keys"): a key *)
(* is bound to at most one command, for ever, and every caller that is     *)
(* told a command for the key is told that one.                            *)
(***************************************************************************)
CONSTANTS Keys, Ids, NoId

VARIABLES owner,     \* the command bound to each key, or NoId
          told       \* the <<key, command>> pairs callers have been given

vars == <<owner, told>>

Init == /\ owner = [k \in Keys |-> NoId]
        /\ told = {}

\* The first request for a key binds it to a command nobody else owns.
Bind(k, i) ==
    /\ owner[k] = NoId
    /\ \A other \in Keys : owner[other] # i
    /\ owner' = [owner EXCEPT ![k] = i]
    /\ UNCHANGED told

\* A request is answered with the command its key is bound to.
Tell(k) ==
    /\ owner[k] # NoId
    /\ told' = told \cup {<<k, owner[k]>>}
    /\ UNCHANGED owner

\* The first request binds the key and is answered in one step.
BindAndTell(k, i) ==
    /\ owner[k] = NoId
    /\ \A other \in Keys : owner[other] # i
    /\ owner' = [owner EXCEPT ![k] = i]
    /\ told' = told \cup {<<k, i>>}

Next == \E k \in Keys : \/ Tell(k)
                        \/ \E i \in Ids : Bind(k, i) \/ BindAndTell(k, i)

Spec == Init /\ [][Next]_vars
============================================================================
