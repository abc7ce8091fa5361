----------------------------- MODULE HttpExchange -----------------------------
(***************************************************************************)
(* What one keep-alive connection promises its client, whatever the        *)
(* servlet function does: one header block per request, body bytes only    *)
(* after it, and no further request taken until the response is complete   *)
(* by the Content-Length it announced and was announced as keep-alive.     *)
(* Of a client that a garbled block, or one with a negative length, has    *)
(* lost, nothing is promised any more.                                     *)
(* ServletConnection is shown to implement this module.                    *)
(***************************************************************************)
EXTENDS Naturals

VARIABLES
    stage,      \* "idle": awaiting a request, "request": one was taken,
                \* "head": its header block was sent, "closed"; "lost": the
                \* block told the client something else than the server goes by
    due,        \* the body bytes announced by the last header block
    got,        \* the body bytes sent since that block
    close       \* whether that block announced "Connection: close"

vars == <<stage, due, got, close>>

TypeOK ==
    /\ stage \in {"idle", "request", "head", "closed", "lost"}
    /\ due \in Nat
    /\ got \in Nat
    /\ close \in BOOLEAN

Init ==
    /\ stage = "idle"
    /\ due = 0
    /\ got = 0
    /\ close = TRUE

\* The server takes the next request; nothing of its response is out yet.
TakeRequest ==
    /\ stage = "idle"
    /\ stage' = "request"
    /\ due' = 0
    /\ got' = 0
    /\ close' = TRUE

\* The header block leaves, alone or with the first bytes of a body.
SendHead ==
    /\ stage = "request"
    /\ stage' = "head"
    /\ due' \in Nat
    /\ got' \in Nat
    /\ close' \in BOOLEAN

\* A response without a body: the header block completes the exchange.
SendEmpty ==
    /\ stage = "request"
    /\ stage' = "idle"
    /\ due' = 0
    /\ got' = 0
    /\ close' = FALSE

SendBody ==
    /\ stage = "head"
    /\ got' \in Nat
    /\ got' > got
    /\ UNCHANGED <<stage, due, close>>

\* The next request may follow only a complete, keep-alive response.
Complete ==
    /\ stage = "head"
    /\ got >= due
    /\ ~close
    /\ stage' = "idle"
    /\ UNCHANGED <<due, got, close>>

\* The connection may end at any point; the last bytes may still leave.
Close ==
    /\ stage \notin {"closed", "lost"}
    /\ stage' = "closed"
    /\ due' \in Nat
    /\ got' \in Nat
    /\ close' \in BOOLEAN

\* A header block leaves by which the client cannot go.
Lose ==
    /\ stage \in {"request", "lost"}
    /\ stage' = "lost"
    /\ due' \in Nat
    /\ got' \in Nat
    /\ close' \in BOOLEAN

Next ==
    \/ TakeRequest
    \/ SendHead
    \/ SendEmpty
    \/ SendBody
    \/ Complete
    \/ Close
    \/ Lose

Spec == Init /\ [][Next]_vars
===============================================================================
