--------------------------- MODULE OperatorWallet ---------------------------
(* The two wallets this repository ships for an operator, given the same    *)
(* requests: WalletStore of the mock operator behind its HTTP router, and   *)
(* InternalWalletAdapter.  Requests come in any order and any number of     *)
(* times, as retries, late packets and a second attempt under a new request *)
(* uuid make them come.                                                     *)
EXTENDS Integers, FiniteSets, Functions

CONSTANTS Players, Txs, Uuids,
          Requests,     \* records with id, kind, tx, ref, player and amount
          Seed,         \* the balance of a new wallet
          None

VARIABLES
    balance, ledger,    \* WalletStore: wallets, ledger
    rollbackTxs,        \* rollback transactions it has seen
    processed,          \* request uuids it has answered with OK
    shortfall,          \* what it forgave when it reversed a win already spent
    internal,           \* InternalWalletAdapter: balances
    committed,          \* its committedTxs: what each transaction added
    reopened            \* transactions it booked again after their reversal

store == <<balance, ledger, rollbackTxs, processed, shortfall>>
adapter == <<internal, committed, reopened>>
vars == <<store, adapter>>

Entry == [kind : {"bet", "win"}, player : Players, amount : Nat, rolledBack : BOOLEAN]

Init ==
    /\ balance = [p \in Players |-> Seed] /\ internal = [p \in Players |-> Seed]
    /\ ledger = [t \in Txs |-> None] /\ committed = [t \in Txs |-> None]
    /\ rollbackTxs = {} /\ processed = {} /\ reopened = {}
    /\ shortfall = [p \in Players |-> 0]

-----------------------------------------------------------------------------
(* WalletStore.                                                             *)

Signed(kind, amount) == IF kind = "bet" THEN 0 - amount ELSE amount

Move(p, delta) == balance' = [balance EXCEPT ![p] = @ + delta]

\* Mutant: a transaction is booked under every request uuid that carries it.
BooksEveryRequest(r) ==
    /\ r.kind = "win" \/ balance[r.player] >= r.amount
    /\ Move(r.player, Signed(r.kind, r.amount))
    /\ ledger' = [ledger EXCEPT ![r.tx] = [kind |-> r.kind, player |-> r.player,
                                           amount |-> r.amount, rolledBack |-> FALSE]]
    /\ processed' = processed \cup {r.id}
    /\ UNCHANGED <<rollbackTxs, shortfall>>

\* Mutant: the answer is remembered under the transaction.
BooksByTransaction(r) ==
    /\ ledger[r.tx] = None /\ (r.kind = "win" \/ balance[r.player] >= r.amount)
    /\ Move(r.player, Signed(r.kind, r.amount))
    /\ processed' = processed \cup {r.tx}
    /\ UNCHANGED <<ledger, rollbackTxs, shortfall>>

\* bet() and win(): a new transaction moves money, if the balance allows it.
Books(r) ==
    /\ ledger[r.tx] = None
    /\ r.kind = "win" \/ (r.amount > 0 /\ balance[r.player] >= r.amount)
    /\ Move(r.player, Signed(r.kind, r.amount))
    /\ ledger' = [ledger EXCEPT ![r.tx] = [kind |-> r.kind, player |-> r.player,
                                           amount |-> r.amount, rolledBack |-> FALSE]]
    /\ processed' = processed \cup {r.id}
    /\ UNCHANGED <<rollbackTxs, shortfall>>

\* The same transaction again: OK if it is the same movement, else DUPLICATE.
Replays(r) ==
    /\ ledger[r.tx] # None
    /\ processed' = IF /\ ledger[r.tx].kind = r.kind /\ ledger[r.tx].player = r.player
                       /\ ledger[r.tx].amount = r.amount
                      THEN processed \cup {r.id} ELSE processed
    /\ UNCHANGED <<balance, ledger, rollbackTxs, shortfall>>

\* NOT_ENOUGH_MONEY or WRONG_SYNTAX: nothing is remembered.
Refuses(r) ==
    /\ ledger[r.tx] = None /\ r.kind = "bet"
    /\ r.amount = 0 \/ balance[r.player] < r.amount
    /\ UNCHANGED store

Referenced(r) == r.ref # None /\ ledger[r.ref] # None /\ ledger[r.ref].player = r.player

\* Mutant: a second rollback under another uuid reverses the movement again.
ReversesAgain(r) ==
    LET was == ledger[r.ref] IN
    /\ r.tx \notin rollbackTxs /\ Referenced(r)
    /\ Move(r.player, Signed(was.kind, 0 - was.amount))
    /\ ledger' = [ledger EXCEPT ![r.ref].rolledBack = TRUE]
    /\ rollbackTxs' = rollbackTxs \cup {r.tx} /\ processed' = processed \cup {r.id}
    /\ UNCHANGED shortfall

\* rollback(): the movement is reversed; a win that was spent is clamped to zero.
Reverses(r) ==
    LET was == ledger[r.ref]
        after == balance[r.player] + Signed(was.kind, 0 - was.amount)
        missing == IF after < 0 THEN 0 - after ELSE 0
    IN  /\ r.tx \notin rollbackTxs /\ Referenced(r) /\ ~was.rolledBack
        /\ balance' = [balance EXCEPT ![r.player] = after + missing]
        /\ shortfall' = [shortfall EXCEPT ![r.player] = @ + missing]
        /\ ledger' = [ledger EXCEPT ![r.ref].rolledBack = TRUE]
        /\ rollbackTxs' = rollbackTxs \cup {r.tx} /\ processed' = processed \cup {r.id}

\* A rollback seen before, or of a movement that another one has reversed: OK.
ReversedBefore(r) ==
    /\ r.tx \in rollbackTxs \/ (Referenced(r) /\ ledger[r.ref].rolledBack)
    /\ rollbackTxs' = rollbackTxs \cup {r.tx} /\ processed' = processed \cup {r.id}
    /\ UNCHANGED <<balance, ledger, shortfall>>

\* TRANSACTION_DOES_NOT_EXIST.
NotFound(r) == r.tx \notin rollbackTxs /\ ~Referenced(r) /\ UNCHANGED store

\* The router answers a request uuid it has answered with OK from memory.
Route(r) ==
    IF r.id \in processed THEN UNCHANGED store
    ELSE IF r.kind = "rollback"
         THEN Reverses(r) \/ ReversedBefore(r) \/ NotFound(r)
         ELSE Books(r) \/ Replays(r) \/ Refuses(r)

-----------------------------------------------------------------------------
(* InternalWalletAdapter.                                                   *)

Commit(t, p, delta) ==
    /\ internal' = [internal EXCEPT ![p] = @ + delta]
    /\ committed' = [committed EXCEPT ![t] = delta]

\* Mutant: a rollback forgets to note its own transaction.
AdapterForgetsRollback(r) ==
    /\ r.kind = "rollback" /\ committed[r.ref] # None
    /\ internal' = [internal EXCEPT ![r.player] = @ - committed[r.ref]]
    /\ UNCHANGED <<committed, reopened>>

\* A transaction committed before answers DUPLICATE; a bet needs the money.
AdapterBooks(r) ==
    /\ r.kind # "rollback"
    /\ IF committed[r.tx] = None /\ (r.kind = "bet" => internal[r.player] >= r.amount)
         THEN /\ Commit(r.tx, r.player, Signed(r.kind, r.amount))
              /\ reopened' = IF \E q \in Requests :
                                  q.kind = "rollback" /\ q.ref = r.tx /\ committed[q.tx] # None
                               THEN reopened \cup {r.tx} ELSE reopened
         ELSE UNCHANGED adapter

\* rollback(): the referenced transaction is looked for first, and deleted when it
\* has been reversed, which is why it can be booked again.
AdapterReverses(r) ==
    /\ r.kind = "rollback"
    /\ IF r.ref # None /\ committed[r.ref] # None /\ committed[r.tx] = None
         THEN /\ internal' = [internal EXCEPT ![r.player] = @ - committed[r.ref]]
              /\ committed' = [committed EXCEPT ![r.tx] = 0 - committed[r.ref], ![r.ref] = None]
              /\ UNCHANGED reopened
         ELSE UNCHANGED adapter

-----------------------------------------------------------------------------
Serve(r) == Route(r) /\ (AdapterBooks(r) \/ AdapterReverses(r))

Next == \E r \in Requests : Serve(r)

Spec == Init /\ [][Next]_vars

-----------------------------------------------------------------------------
\* Every field has its type.
TypeOK ==
    /\ balance \in [Players -> Int] /\ internal \in [Players -> Int]
    /\ ledger \in [Txs -> Entry \cup {None}] /\ committed \in [Txs -> Int \cup {None}]
    /\ rollbackTxs \subseteq Txs /\ processed \subseteq Uuids /\ reopened \subseteq Txs
    /\ shortfall \in [Players -> Nat]

Open(p) == {t \in Txs : ledger[t] # None /\ ledger[t].player = p /\ ~ledger[t].rolledBack}

\* However requests are repeated and reordered, a balance is the seed plus the
\* movements on the ledger that no rollback has reversed; nothing is counted twice.
BalanceIsLedger ==
    \A p \in Players :
        balance[p] = Seed + shortfall[p]
                     + SumFunction([t \in Open(p) |-> Signed(ledger[t].kind, ledger[t].amount)])

\* No order of bets, wins and reversals makes a player owe the operator money.
NeverNegative == \A p \in Players : balance[p] >= 0

\* The two wallets hold the same money, as long as no win was spent before its
\* reversal and no reversed transaction was sent again.
WalletsAgree ==
    \A p \in Players : reopened = {} /\ shortfall[p] = 0 => internal[p] = balance[p]

\* Not checked by a passing run: submitting a transaction again never moves money,
\* in the adapter too.
ResubmitIsHarmless == reopened = {}
=============================================================================
