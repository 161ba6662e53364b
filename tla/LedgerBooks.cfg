\* Two sessions, every kind of line list, one idempotency key or none, two references.
SPECIFICATION FairSpec
CONSTANTS
  s1 = s1
  s2 = s2
  Sessions = {s1, s2}
  Accounts <- MCAccounts
  Currency <- MCCurrency
  DebitNormal <- MCDebitNormal
  Frozen <- MCFrozen
  Names = {"a", "b"}
  k1 = k1
  NoKey = NoKey
  Keys = {k1}
  Postings <- MCPostings
  MaxId = 4
INVARIANTS BooksBalance ReversedOnce OncePerKey ChainRooted
PROPERTY TransactionsEnd
CHECK_DEADLOCK FALSE
