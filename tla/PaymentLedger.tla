--------------------------- MODULE PaymentLedger ---------------------------
(***************************************************************************)
(* What the bank promises about money, with no pipeline, cache or process  *)
(* in sight: a transfer is authorised at some point, and an authorised     *)
(* transfer is charged at most once, by its amount, to its account.        *)
(***************************************************************************)
EXTENDS Integers

CONSTANTS Txns, Accounts, AccountOf, Amount, OpeningBalance

VARIABLES funds, authorized, charged

ledgerVars == <<funds, authorized, charged>>

LedgerInit ==
    /\ funds = OpeningBalance
    /\ authorized = {}
    /\ charged = {}

Authorize(t) ==
    /\ authorized' = authorized \cup {t}
    /\ UNCHANGED <<funds, charged>>

Charge(t) ==
    /\ t \in authorized \ charged
    /\ charged' = charged \cup {t}
    /\ funds' = [funds EXCEPT ![AccountOf[t]] = @ - Amount[t]]
    /\ UNCHANGED authorized

LedgerNext == \E t \in Txns : Authorize(t) \/ Charge(t)

LedgerSpec == LedgerInit /\ [][LedgerNext]_ledgerVars
=============================================================================
