--------------------------- MODULE DispatchLedger ---------------------------
(***************************************************************************)
(* What dispatching promises, whatever algorithm or endpoint does it: a    *)
(* ledger of assignments that only grows, where an order leaves the        *)
(* waiting set exactly once and a courier leaves the free set exactly      *)
(* once.  Nothing in the repository ever takes an order back to PENDING    *)
(* or a courier back to AVAILABLE, so neither does the ledger.             *)
(***************************************************************************)
EXTENDS Matching

CONSTANTS Orders, Couriers

VARIABLES waiting, free, ledger

ledgerVars == <<waiting, free, ledger>>

LedgerInit ==
    /\ waiting \in SUBSET Orders
    /\ free \in SUBSET Couriers
    /\ ledger = {}

\* One transaction books a non-empty matching of waiting orders and free
\* couriers.
Book(M) ==
    /\ M # {}
    /\ IsMatching(M)
    /\ OrdersOf(M) \subseteq waiting
    /\ CouriersOf(M) \subseteq free
    /\ ledger' = ledger \union M
    /\ waiting' = waiting \ OrdersOf(M)
    /\ free' = free \ CouriersOf(M)

LedgerNext == \E M \in SUBSET (Orders \X Couriers) : Book(M)

LedgerSpec == LedgerInit /\ [][LedgerNext]_ledgerVars
=============================================================================
