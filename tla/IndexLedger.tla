----------------------------- MODULE IndexLedger -----------------------------
(***************************************************************************)
(* What the hosted indexer promises of its saved state, with no network in  *)
(* it: a single ledger that changes only by whole reservations and whole    *)
(* completions, each computed from the very ledger it replaces, and a       *)
(* completion only for an attempt that was reserved before.                 *)
(*                                                                         *)
(* HostedIndexing, where every update is a read, a computation and a        *)
(* conditional write that may be lost, repeated or late, implements this.   *)
(***************************************************************************)
EXTENDS IndexState

CONSTANTS Listings      \* what listCandidates can return

VARIABLES
    now,       \* the clock
    ledger,    \* the state as a reader parses it
    reserved   \* the <<commit, attempt>> pairs a reservation ever recorded

ledgerVars == <<now, ledger, reserved>>

LedgerInit ==
    /\ now = 0
    /\ ledger = emptyState(0)
    /\ reserved = {}

LedgerBecomes(state) ==
    /\ ledger' = parseState(state)
    /\ reserved' = reserved \cup QueuedAttempts(state)
    /\ UNCHANGED now

\* A scan reserves work, by a clock that was read at some time until now.
LedgerReserve ==
    \E listing \in Listings, reset \in Shas \cup {NoSha}, t \in 0..now :
        /\ reset # NoSha => reset \in Listed(listing)
        /\ LedgerBecomes(reserveCandidates(listing, reset, ledger, t))

\* A finalizer records the result of a reserved attempt.
LedgerComplete ==
    \E candidate \in Candidates, conclusion \in Conclusions, t \in 0..now :
        \E reservation \in reserved :
            /\ reservation[1] = candidate.sha
            /\ LedgerBecomes(completeCandidate(ledger, candidate, reservation[2],
                                               conclusion, t))

LedgerTick == now' = now + 1 /\ UNCHANGED <<ledger, reserved>>

LedgerNext == LedgerReserve \/ LedgerComplete \/ LedgerTick

LedgerSpec == LedgerInit /\ [][LedgerNext]_ledgerVars
=============================================================================
