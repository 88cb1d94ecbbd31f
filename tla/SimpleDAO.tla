------------------------------- MODULE SimpleDAO -------------------------------
(***************************************************************************)
(* The Simple DAO of src/pkg/core/dao/cacheddao.go (lines 322-996): typed *)
(* puts and gets over a MemCachedStore, the transactional scope made by   *)
(* GetWrapped, and Persist.                                               *)
(*                                                                         *)
(* `layers` is the stack of MemCachedStores: layers[1] is the store of the *)
(* DAO made by NewSimple over the backend, layers[i+1] the store of the   *)
(* DAO returned by GetWrapped on the DAO of layers[i].  An overlay maps    *)
(* each key to a value, to Tomb (deleted in this layer) or to Absent (not *)
(* touched; read through to the layer below).  The DAO in use is the top  *)
(* one; `version[i]` is the Version field of the DAO of layer i.          *)
(*                                                                         *)
(* A key is <<prefix, id>>; a value is a record standing for the encoded  *)
(* bytes, except the version record, which holds its bytes.             *)
(***************************************************************************)
EXTENDS Integers, Sequences, FiniteSets, Bitwise, SequencesExt, Functions

CONSTANTS
    Blocks,            \* block hashes
    BlockTxs,          \* block hash -> sequence of its transaction hashes
    Index,             \* block hash -> block index (height)
    ConflictsOf,       \* tx hash -> sequence of the hashes of its Conflicts attributes
    StateRootInHeader, \* NewSimple arguments
    P2PSigExtensions,
    Versions,          \* versions PutVersion may store
    MaxDepth,          \* bound on the number of stacked DAOs
    MaxAers,           \* bound on the execution results appended per container
    NoVal, Absent, Tomb \* a missing key; an untouched and a deleted key of an overlay

Txs == UNION {ToSet(BlockTxs[b]) : b \in Blocks}
ConflictHashes == UNION {ToSet(ConflictsOf[t]) : t \in Txs}

ASSUME \A b1, b2 \in Blocks : b1 # b2 => ToSet(BlockTxs[b1]) \cap ToSet(BlockTxs[b2]) = {}

\* The tx of a block, as StoreAsTransaction's caller knows it.
BlockOf(t) == CHOOSE b \in Blocks : t \in ToSet(BlockTxs[b])

(* storage.KeyPrefix values the DAO uses, and the byte of STStorage. *)
STStorage == 112
Keys ==
    ({"DataBlock"} \X Blocks)
    \cup ({"DataTransaction"} \X (Txs \cup ConflictHashes))
    \cup ({"STNotification"} \X (Blocks \cup Txs))
    \cup {<<"SYSCurrentBlock", "sys">>, <<"SYSVersion", "sys">>}

-----------------------------------------------------------------------------
(* Version, Bytes and FromBytes (lines 641-695).                           *)

stateRootInHeaderBit == 1
p2pSigExtensionsBit == 2
keepOnlyLatestStateBit == 4

\* The zero Version that FromBytes decodes into (GetVersion's `var version`).
ZeroVersion == [Value |-> <<>>, StoragePrefix |-> 0, StateRootInHeader |-> FALSE,
                P2PSigExtensions |-> FALSE, KeepOnlyLatestState |-> FALSE]

\* NewSimple's Version (lines 332-336).
NewVersion == [ZeroVersion EXCEPT !.StoragePrefix = STStorage,
                                  !.StateRootInHeader = StateRootInHeader,
                                  !.P2PSigExtensions = P2PSigExtensions]

BitIf(b, bit) == IF b THEN bit ELSE 0

MaskBitsSwapped(v) ==
    BitIf(v.StateRootInHeader, p2pSigExtensionsBit)
    | BitIf(v.P2PSigExtensions, stateRootInHeaderBit)
    | BitIf(v.KeepOnlyLatestState, keepOnlyLatestStateBit)

Mask(v) ==
    BitIf(v.StateRootInHeader, stateRootInHeaderBit)
    | BitIf(v.P2PSigExtensions, p2pSigExtensionsBit)
    | BitIf(v.KeepOnlyLatestState, keepOnlyLatestStateBit)

Bytes(v) == v.Value \o <<0, v.StoragePrefix, Mask(v)>>

\* 1-based position of the first NUL byte, Len(data)+1 when there is none.
FirstNul(data) ==
    IF \E j \in 1..Len(data) : data[j] = 0
    THEN CHOOSE j \in 1..Len(data) : data[j] = 0 /\ \A l \in 1..(j-1) : data[l] # 0
    ELSE Len(data) + 1

FromBytes(data) ==
    LET i == FirstNul(data)
        m == data[i+2]
    IN  IF Len(data) = 0 THEN [err |-> "missing version", v |-> ZeroVersion]
        ELSE IF i = Len(data) + 1 THEN [err |-> "none", v |-> [ZeroVersion EXCEPT !.Value = data]]
        ELSE IF Len(data) # i + 2 THEN [err |-> "version is invalid", v |-> ZeroVersion]
        ELSE [err |-> "none",
              v |-> [Value |-> SubSeq(data, 1, i - 1),
                     StoragePrefix |-> data[i+1],
                     StateRootInHeader |-> (m & stateRootInHeaderBit) # 0,
                     P2PSigExtensions |-> (m & p2pSigExtensionsBit) # 0,
                     KeepOnlyLatestState |-> (m & keepOnlyLatestStateBit) # 0]]

-----------------------------------------------------------------------------
(* Encoded values.                                                         *)

BlockRec(b) == [t |-> "block", txs |-> BlockTxs[b]]   \* trimmed block
HeaderRec   == [t |-> "block", txs |-> <<>>]          \* header, zero txs
TxRec(i)    == [t |-> "tx", h |-> i]                  \* u32 index || tx
DummyRec(i) == [t |-> "dummy", h |-> i]               \* u32 index || DummyVersion
AerRec(n)   == [t |-> "aer", n |-> n]                 \* n concatenated results
CurRec(b)   == [t |-> "cur", b |-> b]                 \* hash || u32 index
VersionRec(v) == [t |-> "version", bytes |-> Bytes(v)]

Vals ==
    {BlockRec(b) : b \in Blocks} \cup {HeaderRec}
    \cup {TxRec(Index[b]) : b \in Blocks} \cup {DummyRec(Index[b]) : b \in Blocks}
    \cup {AerRec(n) : n \in 1..MaxAers} \cup {CurRec(b) : b \in Blocks}
    \cup {VersionRec(v) : v \in Versions \cup {NewVersion}}

-----------------------------------------------------------------------------
VARIABLES backend, layers, version

vars == <<backend, layers, version>>

Empty == [k \in Keys |-> Absent]

(* MemCachedStore (not under src/): a read falls through the layers. *)
RECURSIVE ViewAt(_, _)
ViewAt(i, k) ==
    IF i = 0 THEN backend[k]
    ELSE IF layers[i][k] = Absent THEN ViewAt(i - 1, k)
    ELSE IF layers[i][k] = Tomb THEN NoVal
    ELSE layers[i][k]

Top == Len(layers)
Get(k) == ViewAt(Top, k)

(* MemCachedStore.Put, Delete and PutBatch on the top store. *)
PutAll(f) == layers' = [layers EXCEPT ![Top] = [k \in Keys |-> IF k \in DOMAIN f THEN f[k] ELSE @[k]]]

FlushNoDeletes(i) ==
    LET ov == layers[i]
        touched == {k \in Keys : ov[k] \notin {Absent, Tomb}}
    IN  IF i = 1
        THEN /\ backend' = [k \in Keys |-> IF k \in touched THEN ov[k] ELSE backend[k]]
             /\ layers' = [layers EXCEPT ![1] = Empty]
        ELSE /\ layers' = [layers EXCEPT ![i - 1] = [k \in Keys |-> IF k \in touched
                                                                   THEN ov[k] ELSE @[k]],
                                         ![i] = Empty]
             /\ UNCHANGED backend

(* MemCachedStore.Persist: the overlay of layer i is written into the    *)
(* store below, a Tomb as a delete, and emptied.                          *)
Flush(i) ==
    LET ov == layers[i]
        touched == {k \in Keys : ov[k] # Absent}
    IN  IF i = 1
        THEN /\ backend' = [k \in Keys |-> IF k \in touched
                                            THEN IF ov[k] = Tomb THEN NoVal ELSE ov[k]
                                            ELSE backend[k]]
             /\ layers' = [layers EXCEPT ![1] = Empty]
        ELSE /\ layers' = [layers EXCEPT ![i - 1] = [k \in Keys |-> IF k \in touched
                                                                   THEN ov[k] ELSE @[k]],
                                         ![i] = Empty]
             /\ UNCHANGED backend

-----------------------------------------------------------------------------
(* HasTransaction and GetTransaction (lines 783-806, 849-863), on the top *)
(* DAO.                                                                    *)

HasTransaction(h) ==
    LET r == Get(<<"DataTransaction", h>>)
    IN  IF r = NoVal THEN "nil"
        ELSE IF r.t = "dummy" THEN "ErrHasConflicts"
        ELSE "ErrAlreadyExists"

GetTransaction(h) ==
    LET r == Get(<<"DataTransaction", h>>)
    IN  IF r = NoVal \/ r.t = "dummy" THEN "ErrKeyNotFound" ELSE r.h

-----------------------------------------------------------------------------
(* Operations of the DAO in use (the top one).                            *)

\* NewSimple over an empty backend (lines 329-339).
Init == /\ backend = [k \in Keys |-> NoVal]
        /\ layers = <<Empty>>
        /\ version = <<NewVersion>>

\* StoreAsBlock (lines 867-883).  The caller stores each block once.
StoreAsBlock(b) ==
    /\ Get(<<"DataBlock", b>>) = NoVal
    /\ PutAll(<<"DataBlock", b>> :> BlockRec(b))
    /\ UNCHANGED <<backend, version>>

\* StoreAsTransaction (lines 949-981): the tx record, then with
\* P2PSigExtensions a dummy record under every conflicting hash.  The
\* caller stores the txs of a stored block, and chain verification has
\* rejected a tx that is on chain or conflicts with one on chain.
StoreAsTransaction(t) ==
    LET b == BlockOf(t)
        cs == IF version[Top].P2PSigExtensions THEN ToSet(ConflictsOf[t]) ELSE {}
    IN  /\ Get(<<"DataBlock", b>>) = BlockRec(b)
        /\ HasTransaction(t) = "nil"
        /\ \A c \in ToSet(ConflictsOf[t]) : HasTransaction(c) # "ErrAlreadyExists"
        /\ PutAll([k \in {<<"DataTransaction", c>> : c \in cs} |-> DummyRec(Index[b])]
                  @@ (<<"DataTransaction", t>> :> TxRec(Index[b])))
        /\ UNCHANGED <<backend, version>>

\* StoreAsCurrentBlock (lines 936-944).
StoreAsCurrentBlock(b) ==
    /\ Get(<<"DataBlock", b>>) = BlockRec(b)
    /\ PutAll(<<"SYSCurrentBlock", "sys">> :> CurRec(b))
    /\ UNCHANGED <<backend, version>>

\* AppendAppExecResult (lines 511-539): PutAppExecResult when nothing is
\* stored yet, else the result is appended to the stored ones.  Results
\* are stored for a block being stored and for its transactions.
AppendAppExecResult(h) ==
    LET k == <<"STNotification", h>>
        aers == Get(k)
        b == IF h \in Blocks THEN h ELSE BlockOf(h)
    IN  /\ Get(<<"DataBlock", b>>) = BlockRec(b)
        /\ IF aers = NoVal THEN TRUE ELSE aers.n < MaxAers
        /\ PutAll(k :> IF aers = NoVal THEN AerRec(1) ELSE AerRec(aers.n + 1))
        /\ UNCHANGED <<backend, version>>

\* One iteration of DeleteBlock's transaction loop (lines 912-924).  `acc`
\* carries key[0] and the batch's deletions; key[1:] ends an iteration
\* holding the last conflict hash copied into it.
DeleteTxStep(acc, t) ==
    LET cs == IF version[Top].P2PSigExtensions THEN ConflictsOf[t] ELSE <<>>
        last == IF cs = <<>> THEN t ELSE Last(cs)
    IN  [pfx |-> "STNotification",
         dels |-> acc.dels \cup {<<acc.pfx, t>>} \cup {<<acc.pfx, c>> : c \in ToSet(cs)}
                  \cup {<<"STNotification", last>>}]

\* DeleteBlock (lines 886-931): the block is replaced by its header, its
\* txs and notifications are deleted in one batch.  A missing block is
\* an error return that changes nothing.  The caller deletes blocks whose
\* transactions were all stored.
DeleteBlock(b) ==
    LET bs == Get(<<"DataBlock", b>>)
        loop == FoldLeft(DeleteTxStep, [pfx |-> "DataTransaction", dels |-> {}], bs.txs)
        dels == (loop.dels \cup {<<"STNotification", b>>}) \cap Keys
    IN  /\ bs # NoVal
        /\ \A t \in ToSet(bs.txs) : HasTransaction(t) = "ErrAlreadyExists"
        /\ PutAll([k \in dels |-> Tomb] @@ (<<"DataBlock", b>> :> HeaderRec))
        /\ UNCHANGED <<backend, version>>

\* PutVersion (lines 809-812).
PutVersion(v) ==
    /\ version' = [version EXCEPT ![Top] = v]
    /\ PutAll(<<"SYSVersion", "sys">> :> VersionRec(v))
    /\ UNCHANGED backend

\* GetWrapped (lines 348-352): a new DAO over the current store that
\* copies the Version.  The depth bound MaxDepth is the model's, not the code's.
GetWrapped ==
    /\ Top < MaxDepth
    /\ layers' = Append(layers, Empty)
    /\ version' = Append(version, version[Top])
    /\ UNCHANGED backend

\* Persist (lines 985-987) of the DAO at level i.  The DAO in use
\* commits with i = Top; the base DAO may be persisted while a wrapped
\* one is open.
Persist(i) ==
    /\ Flush(i)
    /\ UNCHANGED version

\* The caller drops a wrapped DAO without persisting it.
Discard ==
    /\ Top > 1
    /\ layers' = SubSeq(layers, 1, Top - 1)
    /\ version' = SubSeq(version, 1, Top - 1)
    /\ UNCHANGED backend

Next ==
    \/ \E b \in Blocks : StoreAsBlock(b) \/ StoreAsCurrentBlock(b) \/ DeleteBlock(b)
    \/ \E t \in Txs : StoreAsTransaction(t)
    \/ \E h \in Blocks \cup Txs : AppendAppExecResult(h)
    \/ \E v \in Versions : PutVersion(v)
    \/ GetWrapped
    \/ \E i \in 1..Top : Persist(i)
    \/ Discard

Spec == Init /\ [][Next]_vars

-----------------------------------------------------------------------------
(* Properties.                                                             *)

(* Version.Bytes and Version.FromBytes round-trip: what PutVersion       *)
(* stores, GetVersion reads back as the same Version, for the Version of *)
(* the DAO in use and every version it may store (labels without NUL).  *)
VersionRoundTrip ==
    \A v \in Versions \cup {version[Top]} : FromBytes(Bytes(v)) = [err |-> "none", v |-> v]

(* The layered stores implement a transactional scope: a wrapped DAO   *)
(* starts from its parent's view, its writes reach the parent only when *)
(* it is persisted (spec property 9), persisting makes the parent's view *)
(* the wrapped one, tombstones included, and persisting the base into   *)
(* the backend changes no view.                                           *)
Abs == INSTANCE TxnKV WITH
    db <- [k \in Keys |-> ViewAt(1, k)],
    scope <- IF Len(layers) > 1 THEN [k \in Keys |-> ViewAt(Len(layers), k)] ELSE NoVal,
    NoScope <- NoVal

ScopeRefinement == Abs!Spec

(* DeleteBlock removes a block's transactions: once a block's record is *)
(* its header, HasTransaction reports none of its txs, and neither the  *)
(* block's nor its txs' execution results are stored.                    *)
DeletedBlockForgotten ==
    \A b \in Blocks :
        Get(<<"DataBlock", b>>) = HeaderRec =>
            \A t \in ToSet(BlockTxs[b]) :
                /\ HasTransaction(t) = "nil"
                /\ Get(<<"STNotification", t>>) = NoVal

(* Conflict records outlive nothing they guard: while a transaction is  *)
(* on chain under P2PSigExtensions, HasTransaction reports every hash   *)
(* named by its Conflicts attributes, whatever blocks StoreAsTransaction *)
(* and DeleteBlock have written or removed since.                       *)
ConflictRecordKept ==
    \A t \in Txs :
        (version[Top].P2PSigExtensions /\ HasTransaction(t) = "ErrAlreadyExists") =>
            \A c \in ToSet(ConflictsOf[t]) : HasTransaction(c) # "nil"
=============================================================================
