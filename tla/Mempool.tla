------------------------------- MODULE Mempool -------------------------------
(***************************************************************************)
(* The unconfirmed-transaction pool of pkg/core/mempool (the Pool type in  *)
(* src/unnamed/part_000).  Every mutating method holds mp.lock for its     *)
(* whole body, so each one is a single atomic action here.                 *)
(*                                                                         *)
(* Data abstraction:                                                       *)
(*   - a transaction is its hash, an integer; integer order is the order   *)
(*     of util.Uint256.CompareTo, which CompareTo uses as last tie-break;  *)
(*   - the sorted slice mp.inputs is a bag of input references: the code  *)
(*     only ever inserts one, removes one equal occurrence, or tests       *)
(*     membership, and a bag has exactly those operations;                 *)
(*   - the Feer collaborator is the chain: GetUtilityTokenBalance reads    *)
(*     the variable balance, which a new block (ChainUpdate) may change.   *)
(* Verify holds only the read lock, so several Verify goroutines may run  *)
(* at once; it is split at the one place where it writes.  Read-only      *)
(* accessors (Count, ContainsKey, TryGetValue, GetVerifiedTransactions)    *)
(* change nothing and are not actions.                                     *)
(***************************************************************************)
EXTENDS Integers, Sequences, FiniteSets, Bags, Functions, TLC

SX == INSTANCE SequencesExt

CONSTANTS
  Txs,                  \* transaction hashes (integers)
  Senders,              \* sender script hashes (model values)
  InputRefs,            \* transaction.Input values (integers)
  Sender,               \* [Txs -> Senders]             tx.Sender
  SystemFee,            \* [Txs -> Nat]                 tx.SystemFee
  NetworkFee,           \* [Txs -> Nat]                 tx.NetworkFee
  FeePerByte,           \* [Txs -> Nat]                 tx.FeePerByte()
  TxInputs,             \* [Txs -> SUBSET InputRefs]    tx.Inputs
  LowPriorityThreshold, \* Feer.IsLowPriority(fee) is fee < this
  Capacity,             \* NewMemPool(capacity)
  Balances,             \* balances GetUtilityTokenBalance may return
  FeeSumFloor,          \* model bound: lowest feeSum Remove may produce
  Verifiers             \* goroutines that may call Verify concurrently

ASSUME Capacity \in Nat \ {0}
ASSUME \A t \in Txs : TxInputs[t] \subseteq InputRefs

VARIABLES
  verifiedMap,   \* the set of hashes that are keys of mp.verifiedMap
  verifiedTxes,  \* mp.verifiedTxes, highest priority first
  inputs,        \* mp.inputs, as a bag of InputRefs
  fees,          \* mp.fees: partial function sender -> [balance, feeSum]
  balance,       \* the chain's utility-token balance of every sender
  stale,         \* a block changed balance and RemoveStale has not run yet
  verifying      \* Verify goroutines holding the read lock between their
                 \* lookup in mp.fees and their write of it: the sender and
                 \* the balance GetUtilityTokenBalance returned

vars == <<verifiedMap, verifiedTxes, inputs, fees, balance, stale, verifying>>

\* mp.lock.Lock() waits until no goroutine holds the read lock.
NoReaders == verifying = <<>>

-----------------------------------------------------------------------------
(* item.CompareTo and its helpers.                                         *)

Cmp(x, y) == IF x > y THEN 1 ELSE IF x < y THEN -1 ELSE 0

IsLowPrio(t) == NetworkFee[t] < LowPriorityThreshold

CompareTo(p, q) ==
  CASE ~IsLowPrio(p) /\ IsLowPrio(q)       -> 1
    [] IsLowPrio(p) /\ ~IsLowPrio(q)       -> -1
    [] FeePerByte[p] # FeePerByte[q]       -> Cmp(FeePerByte[p], FeePerByte[q])
    [] NetworkFee[p] # NetworkFee[q]       -> Cmp(NetworkFee[p], NetworkFee[q])
    [] OTHER                               -> Cmp(q, p)

TxFee(t) == SystemFee[t] + NetworkFee[t]

-----------------------------------------------------------------------------
(* Conflict and balance checks.                                            *)

\* Mutant: an off-by-one bound on the search result misses the greatest
\* input in the index.
AreInputsInPoolMissLast(t) ==
  \E i \in TxInputs[t] : BagIn(i, inputs) /\ i # SX!Max(BagToSet(inputs))

\* areInputsInPool: some input of t is already in mp.inputs.
AreInputsInPool(t) == \E i \in TxInputs[t] : BagIn(i, inputs)

\* The entry of t's sender in f after checkBalanceAndUpdate has looked it
\* up: a missing sender gets the current chain balance and feeSum 0.
SenderEntry(f, t) ==
  IF Sender[t] \in DOMAIN f THEN f[Sender[t]]
  ELSE [balance |-> balance[Sender[t]], feeSum |-> 0]

\* checkBalanceAndUpdate, state part: store the snapshot of a new sender.
WithSnapshot(f, t) == (Sender[t] :> SenderEntry(f, t)) @@ f

\* checkBalanceAndUpdate, result part.
BalanceOK(f, t) == SenderEntry(f, t).feeSum + TxFee(t) <= SenderEntry(f, t).balance

\* Mutant: the network fee alone is added.
AddSendersNetworkFee(f, t) == [f EXCEPT ![Sender[t]].feeSum = @ + NetworkFee[t]]

\* addSendersFee.
AddSendersFee(f, t) == [f EXCEPT ![Sender[t]].feeSum = @ + TxFee(t)]

\* pushInputToSortedSlice for every input of t.
PushInputs(b, t) == b (+) SetToBag(TxInputs[t])

\* Mutant: the equality test after the search never matches.
DropInputsNeverFound(b, t) == b

\* dropInputFromSortedSlice for every input of t: one equal occurrence of
\* each input is removed, an absent one is skipped.
DropInputs(b, t) == b (-) SetToBag(TxInputs[t])

-----------------------------------------------------------------------------
(* Add: the sort.Search for the insertion index and the capacity test.     *)

\* Mutant: the search predicate compares the wrong way round.
InsertIndexInverted(t) ==
  LET pos == {i \in 1..Len(verifiedTxes) : CompareTo(t, verifiedTxes[i]) < 0}
  IN IF pos = {} THEN Len(verifiedTxes) + 1 ELSE SX!Min(pos)

\* sort.Search over a list sorted highest first: the first position whose
\* item t strictly outranks, or Len + 1 when there is none.
InsertIndex(t) ==
  LET pos == {i \in 1..Len(verifiedTxes) : CompareTo(t, verifiedTxes[i]) > 0}
  IN IF pos = {} THEN Len(verifiedTxes) + 1 ELSE SX!Min(pos)

\* Mutant: off by one in the capacity test.
IsFullOffByOne == Len(verifiedTxes) = Capacity + 1

IsFull == Len(verifiedTxes) = Capacity

\* Add(t), every outcome after the conflict check on inputs passed.  An
\* input conflict returns ErrConflict before anything is written, which
\* is a stuttering step and left out.
Add(t) ==
  LET f1 == WithSnapshot(fees, t)
      n  == InsertIndex(t)
  IN
  /\ NoReaders
  /\ ~AreInputsInPool(t)
  /\ \/ \* ErrConflict on balance, or ErrDup: only the snapshot is kept.
        /\ ~BalanceOK(f1, t) \/ t \in verifiedMap
        /\ fees' = f1
        /\ UNCHANGED <<verifiedMap, verifiedTxes, inputs>>
     \/ /\ BalanceOK(f1, t)
        /\ t \notin verifiedMap
        /\ \/ \* ErrOOM: returned after mp.verifiedMap[t] was set.
              /\ IsFull
              /\ n = Len(verifiedTxes) + 1
              /\ verifiedMap' = verifiedMap \cup {t}
              /\ fees' = f1
              /\ UNCHANGED <<verifiedTxes, inputs>>
           \/ \* Full: the last item is dropped from the map and the list
              \* only; its inputs and fees stay where they are.
              /\ IsFull
              /\ n <= Len(verifiedTxes)
              /\ verifiedMap' = (verifiedMap \cup {t}) \ {SX!Last(verifiedTxes)}
              /\ verifiedTxes' = SX!InsertAt(SX!Front(verifiedTxes), n, t)
              /\ fees' = AddSendersFee(f1, t)
              /\ inputs' = PushInputs(inputs, t)
           \/ /\ ~IsFull
              /\ verifiedMap' = verifiedMap \cup {t}
              /\ verifiedTxes' = SX!InsertAt(verifiedTxes, n, t)
              /\ fees' = AddSendersFee(f1, t)
              /\ inputs' = PushInputs(inputs, t)
  /\ UNCHANGED <<balance, stale, verifying>>

-----------------------------------------------------------------------------
(* Remove(hash).  The position is found by a range loop that breaks on a   *)
(* match; without a match it ends on the last index, which is removed.     *)

RemoveIndex(h) ==
  IF \E i \in 1..Len(verifiedTxes) : verifiedTxes[i] = h
  THEN SX!SelectInSeq(verifiedTxes, LAMBDA x : x = h)
  ELSE Len(verifiedTxes)

Remove(h) ==
  LET s == Sender[h]
      e == IF s \in DOMAIN fees THEN fees[s] ELSE [balance |-> 0, feeSum |-> 0]
  IN
  /\ NoReaders
  /\ h \in verifiedMap
  /\ e.feeSum - TxFee(h) >= FeeSumFloor
  /\ verifiedMap' = verifiedMap \ {h}
  /\ verifiedTxes' = IF verifiedTxes = <<>> THEN verifiedTxes
                     ELSE SX!RemoveAt(verifiedTxes, RemoveIndex(h))
  /\ fees' = (s :> [e EXCEPT !.feeSum = @ - TxFee(h)]) @@ fees
  /\ inputs' = DropInputs(inputs, h)
  /\ UNCHANGED <<balance, stale, verifying>>

-----------------------------------------------------------------------------
(* RemoveStale(isOK, feer): fees is reset, then the list is walked in      *)
(* order, keeping t when isOK(t) and tryAddSendersFee(t) succeed.  isOK is *)
(* the set ok of hashes it accepts.                                        *)

\* Mutant: the map is reused with its balance snapshots, only the sums
\* are cleared.
ResetFeesKeepSnapshots == [s \in DOMAIN fees |-> [fees[s] EXCEPT !.feeSum = 0]]

\* mp.fees = make(map...): every snapshot is dropped.
ResetFees == <<>>

\* Mutant: dropped items are left in verifiedMap.
StaleDroppedNone(kept) == {}

\* The items the walk did not keep, deleted from verifiedMap.
StaleDropped(kept) == Range(verifiedTxes) \ Range(kept)

RemoveStale(ok) ==
  LET Step(acc, t) ==
        LET f1 == WithSnapshot(acc.fees, t) IN
        IF t \in ok /\ BalanceOK(f1, t)
        THEN [kept |-> Append(acc.kept, t), fees |-> AddSendersFee(f1, t)]
        ELSE [kept |-> acc.kept, fees |-> IF t \in ok THEN f1 ELSE acc.fees]
      r == SX!FoldLeft(Step, [kept |-> <<>>, fees |-> ResetFees], verifiedTxes)
  IN
  /\ NoReaders
  /\ verifiedTxes' = r.kept
  /\ verifiedMap' = verifiedMap \ StaleDropped(r.kept)
  /\ fees' = r.fees
  /\ inputs' = SX!FoldLeft(PushInputs, EmptyBag, r.kept)
  /\ stale' = FALSE
  /\ UNCHANGED <<balance, verifying>>

-----------------------------------------------------------------------------
(* Verify(tx, feer): checkTxConflicts under the read lock.  A conflict on *)
(* inputs, or a sender mp.fees already holds, returns without a write and *)
(* is no step.  Otherwise checkBalanceAndUpdate asks the chain for the     *)
(* balance and stores the snapshot, and RUnlock follows.                   *)

\* RLock, areInputsInPool, the missed lookup and GetUtilityTokenBalance.
VerifyLookup(v, t) ==
  /\ v \notin DOMAIN verifying
  /\ ~AreInputsInPool(t)
  /\ Sender[t] \notin DOMAIN fees
  /\ verifying' = (v :> [sender |-> Sender[t], balance |-> balance[Sender[t]]])
                  @@ verifying
  /\ UNCHANGED <<verifiedMap, verifiedTxes, inputs, fees, balance, stale>>

\* mp.fees[tx.Sender] = senderFee with feeSum 0; the fee test reads only,
\* and the deferred RUnlock releases the lock.
VerifyStore(v) ==
  /\ v \in DOMAIN verifying
  /\ fees' = (verifying[v].sender :> [balance |-> verifying[v].balance,
                                      feeSum |-> 0]) @@ fees
  /\ verifying' = Restrict(verifying, DOMAIN verifying \ {v})
  /\ UNCHANGED <<verifiedMap, verifiedTxes, inputs, balance, stale>>

\* The environment: a block is accepted and balances change.  The
\* blockchain calls RemoveStale afterwards; Add and Verify may run first.
ChainUpdate ==
  /\ \E b \in [Senders -> Balances] : balance' = b
  /\ stale' = TRUE
  /\ UNCHANGED <<verifiedMap, verifiedTxes, inputs, fees, verifying>>

-----------------------------------------------------------------------------

Init ==
  /\ verifiedMap = {}
  /\ verifiedTxes = <<>>
  /\ inputs = EmptyBag
  /\ fees = <<>>
  /\ balance \in [Senders -> Balances]
  /\ stale = FALSE
  /\ verifying = <<>>

Next ==
  \/ \E t \in Txs : Add(t) \/ Remove(t)
  \/ \E v \in Verifiers : VerifyStore(v) \/ \E t \in Txs : VerifyLookup(v, t)
  \/ \E ok \in SUBSET Range(verifiedTxes) : RemoveStale(ok)
  \/ ChainUpdate

Spec == Init /\ [][Next]_vars

-----------------------------------------------------------------------------
(* Properties.                                                             *)

\* The list of txs the pool hands to block proposers, as a fold.
PooledFee(s) ==
  SX!FoldLeft(LAMBDA acc, t : acc + IF Sender[t] = s THEN TxFee(t) ELSE 0,
           0, verifiedTxes)

PooledInputs ==
  SX!FoldLeft(LAMBDA b, t : b (+) SetToBag(TxInputs[t]), EmptyBag, verifiedTxes)

\* Type invariant; the list never grows past the capacity (the test
\* len(mp.verifiedTxes) == mp.capacity in Add).
TypeOK ==
  /\ verifiedMap \subseteq Txs
  /\ verifiedTxes \in SX!BoundedSeq(Txs, Capacity)
  /\ IsABag(inputs) /\ BagToSet(inputs) \subseteq InputRefs
  /\ DOMAIN fees \subseteq Senders
  /\ \A s \in DOMAIN fees : fees[s].balance \in Balances \cup {0}
                            /\ fees[s].feeSum \in Int
  /\ balance \in [Senders -> Balances]
  /\ stale \in BOOLEAN
  /\ DOMAIN verifying \subseteq Verifiers

\* verifiedMap and verifiedTxes hold the same transactions, each once:
\* Add, Remove and RemoveStale must update both in every outcome.
PoolConsistent ==
  /\ verifiedMap = Range(verifiedTxes)
  /\ IsInjective(verifiedTxes)

\* verifiedTxes stays sorted strictly by CompareTo, highest first, through
\* the binary-search insertion, the eviction shift and Remove's deletion.
SortedByPriority ==
  SX!IsSorted(verifiedTxes, LAMBDA a, b : CompareTo(a, b) > 0)

\* mp.inputs is exactly the multiset of inputs of the listed txs: Add,
\* eviction, Remove and RemoveStale keep the index in step with the list.
InputIndexExact == inputs = PooledInputs

\* No two listed transactions spend the same input: the pool never offers
\* a block proposer a conflicting pair (the areInputsInPool check).
NoDoubleSpend ==
  \A i, j \in 1..Len(verifiedTxes) :
    i # j => TxInputs[verifiedTxes[i]] \cap TxInputs[verifiedTxes[j]] = {}

\* Every sender's feeSum is the sum of the fees of its listed txs.
FeeSumExact ==
  \A s \in DOMAIN fees : fees[s].feeSum = PooledFee(s)

\* Once RemoveStale has run after the last balance change, every sender can
\* pay for all its listed transactions out of its current chain balance:
\* the snapshots cached in mp.fees never let stale balances through.
Solvent ==
  ~stale => \A s \in Senders : PooledFee(s) <= balance[s]

\* mp.fees is written only by a goroutine that has the pool to itself: no
\* Verify is between its lookup and its write of the map while another is
\* too.  (Spec: Verify "does not mutate"; section 5: mutating operations
\* hold the write lock.)  Go aborts the process on concurrent map writes.
FeesWrittenExclusively == Cardinality(DOMAIN verifying) <= 1

=============================================================================
