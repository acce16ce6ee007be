-------------------------- MODULE BudgetController --------------------------
(***************************************************************************)
(* InMemoryBudgetController: cumulative blast units per (operator,         *)
(* session, blast class), in unsigned integers of Word values.             *)
(***************************************************************************)
EXTENDS Integers

CONSTANTS
    BudgetOperators, BudgetSessions, BudgetClasses,
    ceiling_for,   \* blast class -> units
    Word           \* 2^w: number of values of std::uint64_t

ASSUME BudgetAssumption ==
    /\ Word \in Nat \ {0}
    /\ ceiling_for \in [BudgetClasses -> 0..(Word - 1)]

VARIABLE ledger_

Accounts == BudgetOperators \X BudgetSessions \X BudgetClasses

Uint == 0..(Word - 1)

BudgetInit == ledger_ = [a \in Accounts |-> 0]

(* Faulty variant: a sum that wraps.                                       *)
ExhaustedBySum(a, units) == (ledger_[a] + units) % Word > ceiling_for[a[3]]

(* units > ceiling || consumed > ceiling - units, in machine arithmetic.   *)
Exhausted(a, units) ==
    \/ units > ceiling_for[a[3]]
    \/ ledger_[a] > (ceiling_for[a[3]] - units) % Word

(* Faulty variant: refused requests are charged too.                       *)
consume_first(a, units) == ledger_' = [ledger_ EXCEPT ![a] = (@ + units) % Word]

consume(a, units) ==
    ledger_' = IF Exhausted(a, units)
               THEN ledger_
               ELSE [ledger_ EXCEPT ![a] = (@ + units) % Word]

reset_operator(operator) ==
    ledger_' = [a \in Accounts |-> IF a[1] = operator THEN 0 ELSE ledger_[a]]

-----------------------------------------------------------------------------
(* The ledger never exceeds the configured ceiling of the class.           *)
LedgerOK ==
    /\ ledger_ \in [Accounts -> Uint]
    /\ \A a \in Accounts : ledger_[a] <= ceiling_for[a[3]]

(* Exactly the requests that would overrun the ceiling are refused: the    *)
(* unsigned subtraction in the check neither lets an excess through nor    *)
(* turns away what still fits, at zero, at the ceiling and at the largest  *)
(* machine integer.                                                        *)
RefusesExactlyExcess ==
    \A a \in Accounts, units \in Uint :
        Exhausted(a, units) <=> ledger_[a] + units > ceiling_for[a[3]]
=============================================================================
