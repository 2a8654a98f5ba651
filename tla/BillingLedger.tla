---------------------------- MODULE BillingLedger ----------------------------
(***************************************************************************)
(* What usage billing promises, without queues, transactions or tables: a  *)
(* billing key is charged at most once, a charge takes its cost from the   *)
(* balance in the same step, and nothing else lowers the balance.          *)
(***************************************************************************)
EXTENDS Integers

CONSTANTS Keys,        \* (request_id, api_key_id) pairs
          Costs        \* what one request can cost

VARIABLES charged,     \* keys that were charged
          balance      \* users.balance

ledgerVars == <<charged, balance>>

LedgerInit == charged = {} /\ balance \in Int

(* A request is paid for. *)
Charge(k, c) ==
    /\ k \notin charged
    /\ charged' = charged \cup {k}
    /\ balance' = balance - c

(* Money comes in: a payment, a redeem code, an administrator. *)
Credit == balance' = balance + 1 /\ UNCHANGED charged

LedgerNext == (\E k \in Keys, c \in Costs : Charge(k, c)) \/ Credit

LedgerSpec == LedgerInit /\ [][LedgerNext]_ledgerVars
=============================================================================
