----------------------------- MODULE LedgerQueries -----------------------------
(***************************************************************************)
(* The ledger service's read side: GET /ledger/balances and                *)
(* GET /ledger/payments/{id}/entries.  Each answers from one SQL statement,*)
(* hence from one committed state of the tables the consumers write, at    *)
(* any moment between two of their steps.                                  *)
(***************************************************************************)
EXTENDS LedgerConsumer, Integers, Functions

normalBalance(account) == IF account[1] = "cash" THEN "debit" ELSE "credit"

\* The rows of ledger_entries: one per entry of every transaction.
EntryRows ==
    UNION {{[transaction |-> i, entry |-> x] : x \in journal[i].entries} : i \in DOMAIN journal}

\* Slip: debits count as positive for every account.
SignedDebit(account, entry) == IF entry.direction = "debit" THEN entry.amount ELSE -entry.amount

\* CASE WHEN e.direction = a.normal_balance THEN amount ELSE -amount
Signed(account, entry) ==
    IF entry.direction = normalBalance(account) THEN entry.amount ELSE -entry.amount

\* ledger_accounts LEFT JOIN ledger_entries, summed by account: an account
\* without entries has balance 0, an entry without account does not show.
ListBalances ==
    [account \in accounts |->
        SumFunction([row \in {r \in EntryRows : r.entry.account = account} |->
                        Signed(account, row.entry)])]

ListEntriesByReference(payment) ==
    {row \in EntryRows : journal[row.transaction].payment = payment}

-----------------------------------------------------------------------------
\* A payment has one event, and an event one message, however often it is
\* delivered: what PaymentApi and OutboxPublisher see to.
OneMessagePerPayment ==
    \A m, n \in Incoming :
        (Bookable(m) /\ Bookable(n) /\ (m.event = n.event \/ m.payment = n.payment)) => m = n

\* What the consumed events are worth.
BookedAmount(currency) ==
    SumFunction([m \in {n \in UNION {{topic[k][i] : i \in DOMAIN topic[k]} : k \in Partitions} :
                            n.event \in consumed /\ Bookable(n) /\ n.payload.currency = currency}
                 |-> m.payload.amount])

\* The rows are one debit and one credit of one transaction and of the same money.
OneMovement(rows) ==
    \E d, c \in rows :
        /\ rows = {d, c}
        /\ d.transaction = c.transaction
        /\ d.entry.direction = "debit" /\ c.entry.direction = "credit"
        /\ d.entry.amount = c.entry.amount
        /\ d.entry.account[2] = c.entry.account[2]

\* Whoever reads in the middle of retries, rebalances and repeated deliveries sees
\* whole movements (postgres_ledger_repository.go:105-186): cash and
\* merchant_payable agree in every currency, and both are the sum of the payments
\* that have been consumed, each counted once and in full; and the entries of a
\* payment are none, or one debit and one credit of the same money.
ReadsAreWhole ==
    /\ \A name \in {"cash", "merchant_payable"}, currency \in Currencies :
         LET account == <<name, currency>>
         IN  (IF account \in accounts THEN ListBalances[account] ELSE 0) = BookedAmount(currency)
    /\ \A p \in EventIds :
         ListEntriesByReference(p) = {} \/ OneMovement(ListEntriesByReference(p))
=============================================================================
