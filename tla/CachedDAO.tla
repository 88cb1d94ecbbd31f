------------------------------- MODULE CachedDAO -------------------------------
(***************************************************************************)
(* The Cached DAO of src/pkg/core/dao/cacheddao.go (lines 13-247) over    *)
(* Simple DAOs.  The caller builds a stack of DAOs with NewSimple,         *)
(* NewCached and GetWrapped (the constant `Build`), then calls the DAO     *)
(* methods on what it holds.                                               *)
(*                                                                         *)
(* `daos` is the heap of DAO objects.  A Simple's `lower` is the DAO whose *)
(* store its MemCachedStore wraps (0 for the backend).  A Cached's         *)
(* `lower` is its embedded DAO.  Its four object caches are map           *)
(* references into the map heaps accH, balH, ctrH and trfH, so two Cached  *)
(* objects may share a map, as GetWrapped makes them do.  Map ids are the *)
(* id of the Cached that made the map, or minus it for the map that        *)
(* Persist makes when it drops a balance cache.                           *)
(***************************************************************************)
EXTENDS Integers, Sequences, FiniteSets, SequencesExt

CONSTANTS
    Build,       \* the construction calls: <<"NewSimple">>, <<"NewCached", i>>, <<"GetWrapped", i>>,
                 \* where i is the position in Build of the call that made the argument
    Writers,     \* positions in Build of the DAOs the caller writes objects through
    Accts,       \* account script hashes
    AcctVals,    \* account states
    Contracts,   \* contract script hashes
    ContractVals,\* contract states
    Tokens,      \* NEP5 contracts a balance may hold a tracker for
    MaxLog,      \* bound on the transfers in a log
    NoVal, Absent, Tomb, Nil

BalVals == SUBSET Tokens    \* a NEP5Balances value: the tokens it has trackers for

Keys == ({"acc"} \X Accts) \cup ({"bal"} \X Accts) \cup ({"trf"} \X Accts)
        \cup ({"ctr"} \X Contracts)
ValsOf(k) == CASE k[1] = "acc" -> AcctVals
               [] k[1] = "bal" -> BalVals
               [] k[1] = "trf" -> 1..MaxLog
               [] k[1] = "ctr" -> ContractVals

-----------------------------------------------------------------------------
(* Construction: NewSimple (329-339), NewCached (27-33), GetWrapped of     *)
(* Simple (348-352) and of Cached (239-247).                               *)

SimpleRec(st) == [kind |-> "Simple", lower |-> st, acc |-> 0, bal |-> 0, ctr |-> 0,
                  trf |-> 0, drop |-> FALSE]

\* A new DAO on top of heap[d], wrapped as GetWrapped does: a Cached shares
\* all four maps of d and wraps what GetWrapped of d's embedded DAO returns.
RECURSIVE Wrap(_, _)
Wrap(heap, d) ==
    IF heap[d].kind = "Simple"
    THEN Append(heap, SimpleRec(d))
    ELSE LET w == Wrap(heap, heap[d].lower)
         IN  Append(w, [heap[d] EXCEPT !.lower = Len(w), !.drop = FALSE])

NewCachedOf(heap, d) ==
    LET w == Wrap(heap, d)
        id == Len(w) + 1
    IN  Append(w, [kind |-> "Cached", lower |-> Len(w), acc |-> id, bal |-> id,
                   ctr |-> id, trf |-> id, drop |-> FALSE])

BuildStep(r, call) ==
    LET heap == CASE call[1] = "NewSimple"  -> Append(r.heap, SimpleRec(0))
                  [] call[1] = "NewCached"  -> NewCachedOf(r.heap, r.handles[call[2]])
                  [] call[1] = "GetWrapped" -> Wrap(r.heap, r.handles[call[2]])
    IN  [heap |-> heap, handles |-> Append(r.handles, Len(heap))]

Built == FoldLeft(BuildStep, [heap |-> <<>>, handles |-> <<>>], Build)
Ids == 1..Len(Built.heap)
Handles == ToSet(Built.handles)
WriterIds == {Built.handles[i] : i \in Writers}
MapIds == {i \in Ids : Built.heap[i].kind = "Cached"} \cup {-i : i \in Ids}

-----------------------------------------------------------------------------
VARIABLES
    daos,        \* the DAO heap; a Cached's bal and drop change
    ovl,         \* Simple id -> its MemCachedStore overlay
    backend,
    accH, balH, ctrH, trfH,  \* the map heaps
    persisting,  \* the Cached whose Persist is walking its lower DAOs, and where it is
    dirty,       \* an object or store write happened since the last Persist returned
    lastPersist, \* the DAO and count of the last Persist, and whether it repeated one with no write between
    migrated     \* tokens whose balances MigrateNEP5Balances moved away

vars == <<daos, ovl, backend, accH, balH, ctrH, trfH, persisting, dirty, lastPersist, migrated>>

Idle == [d |-> 0, lc |-> 0]
EmptyMap == [x \in Accts \cup Contracts |-> Nil]
Empty == [k \in Keys |-> Absent]

IsCached(d) == daos[d].kind = "Cached"
Low(d) == daos[d].lower

(* MemCachedStore (not under src/): reads fall through the stores. *)
RECURSIVE StoreGet(_, _)
StoreGet(s, k) ==
    IF s = 0 THEN backend[k]
    ELSE IF ovl[s][k] = Absent THEN StoreGet(Low(s), k)
    ELSE IF ovl[s][k] = Tomb THEN NoVal
    ELSE ovl[s][k]

\* The Simple that a chain of calls on the embedded DAO ends at.
RECURSIVE SimpleOf(_)
SimpleOf(d) == IF IsCached(d) THEN SimpleOf(Low(d)) ELSE d

\* The Cached objects from d down to its Simple.
RECURSIVE CachedPath(_)
CachedPath(d) == IF IsCached(d) THEN {d} \cup CachedPath(Low(d)) ELSE {}

(* A read through d: its cache first, then the embedded DAO.  `field`   *)
(* names the map, `heap` is its map heap and `sk` the store key.         *)
RECURSIVE ObjView(_, _, _, _)
ObjView(d, field, heap, sk) ==
    IF ~IsCached(d) THEN StoreGet(d, sk)
    ELSE IF heap[daos[d][field]][sk[2]] # Nil THEN heap[daos[d][field]][sk[2]]
    ELSE ObjView(Low(d), field, heap, sk)

\* GetAccountState (44-50), GetNEP5Balances (82-88), GetNEP5TransferLog (96-103)
AccountView(d, a) == ObjView(d, "acc", accH, <<"acc", a>>)
BalView(d, a) == ObjView(d, "bal", balH, <<"bal", a>>)
TrfView(d, a) == ObjView(d, "trf", trfH, <<"trf", a>>)
ContractView(d, h) == ObjView(d, "ctr", ctrH, <<"ctr", h>>)

SetOvl(s, f) == ovl' = [ovl EXCEPT ![s] = [k \in Keys |-> IF k \in DOMAIN f THEN f[k] ELSE @[k]]]

\* MemCachedStore.Persist of Simple s: its overlay goes into the store
\* below, and the count is the number of keys it held.
FlushOf(s, ov) ==
    /\ IF Low(s) = 0
       THEN /\ backend' = [k \in Keys |-> IF ov[k] = Absent THEN backend[k]
                                          ELSE IF ov[k] = Tomb THEN NoVal ELSE ov[k]]
            /\ ovl' = [ovl EXCEPT ![s] = Empty]
       ELSE /\ ovl' = [ovl EXCEPT ![Low(s)] = [k \in Keys |-> IF ov[k] = Absent THEN @[k] ELSE ov[k]],
                                  ![s] = Empty]
            /\ UNCHANGED backend

Touched(ov) == Cardinality({k \in Keys : ov[k] # Absent})

\* Persist returns count n for d.
Returned(d, n) ==
    /\ lastPersist' = [d |-> d, n |-> n, clean |-> ~dirty /\ lastPersist.d = d]
    /\ dirty' = FALSE
    /\ persisting' = Idle

-----------------------------------------------------------------------------
(* Init: the objects Build makes, all maps and stores empty.            *)

Init ==
    /\ daos = Built.heap
    /\ ovl = [s \in Ids |-> Empty]
    /\ backend = [k \in Keys |-> NoVal]
    /\ accH = [m \in MapIds |-> EmptyMap]
    /\ balH = [m \in MapIds |-> EmptyMap]
    /\ ctrH = [m \in MapIds |-> EmptyMap]
    /\ trfH = [m \in MapIds |-> EmptyMap]
    /\ persisting = Idle
    /\ dirty = FALSE
    /\ lastPersist = [d |-> 0, n |-> 0, clean |-> FALSE]
    /\ migrated = {}

(* Object writes of the caller, who calls one method at a time. *)
Caller == persisting = Idle

\* PutAccountState (52-56): the cache only.
PutAccountState(d, a, v) ==
    /\ Caller /\ d \in WriterIds
    /\ accH' = [accH EXCEPT ![daos[d].acc][a] = v]
    /\ dirty' = TRUE
    /\ UNCHANGED <<daos, ovl, backend, balH, ctrH, trfH, persisting, lastPersist, migrated>>

\* PutNEP5Balances (90-94): the cache only.  A token migrated away gets
\* no new trackers.
PutNEP5Balances(d, a, bs) ==
    /\ Caller /\ d \in WriterIds
    /\ bs \cap migrated = {}
    /\ balH' = [balH EXCEPT ![daos[d].bal][a] = bs]
    /\ dirty' = TRUE
    /\ UNCHANGED <<daos, ovl, backend, accH, ctrH, trfH, persisting, lastPersist, migrated>>

\* AppendNEP5Transfer (117-126) with GetNEP5TransferLog (96-103) and
\* PutNEP5TransferLog (106-114): the log read through d grows by one and
\* is put in d's cache.
AppendNEP5Transfer(d, a) ==
    LET lg == TrfView(d, a)
        size == IF lg = NoVal THEN 0 ELSE lg
    IN  /\ Caller /\ d \in WriterIds
        /\ size < MaxLog
        /\ trfH' = [trfH EXCEPT ![daos[d].trf][a] = size + 1]
        /\ dirty' = TRUE
        /\ UNCHANGED <<daos, ovl, backend, accH, balH, ctrH, persisting, lastPersist, migrated>>

\* The contract caches that miss from d down to the first hit.
RECURSIVE ContractMisses(_, _)
ContractMisses(d, h) ==
    IF ~IsCached(d) \/ ctrH[daos[d].ctr][h] # Nil THEN {}
    ELSE {daos[d].ctr} \cup ContractMisses(Low(d), h)

\* GetContractState (58-68): a miss asks the embedded DAO and caches what
\* it found, so every Cached down to the first hit caches the state.  A
\* read that caches nothing changes nothing.
GetContractState(d, h) ==
    LET cs == ContractView(d, h)
        fill == ContractMisses(d, h)
    IN  /\ Caller /\ IsCached(d)
        /\ cs # NoVal
        /\ fill # {}
        /\ ctrH' = [m \in MapIds |-> IF m \in fill THEN [ctrH[m] EXCEPT ![h] = cs] ELSE ctrH[m]]
        /\ UNCHANGED <<daos, ovl, backend, accH, balH, trfH, persisting, dirty, lastPersist, migrated>>

\* PutContractState (70-74) and DeleteContractState (76-80): the cache of
\* every Cached down the chain, then the Simple's store.
PutContractState(d, h, cs) ==
    LET path == {daos[x].ctr : x \in CachedPath(d)}
    IN  /\ Caller /\ IsCached(d)
        /\ ctrH' = [m \in MapIds |-> IF m \in path THEN [ctrH[m] EXCEPT ![h] = cs] ELSE ctrH[m]]
        /\ SetOvl(SimpleOf(d), <<"ctr", h>> :> cs)
        /\ dirty' = TRUE
        /\ UNCHANGED <<daos, backend, accH, balH, trfH, persisting, lastPersist, migrated>>

DeleteContractStateKeepsCache(d, h) ==
    /\ Caller /\ IsCached(d)
    /\ SetOvl(SimpleOf(d), <<"ctr", h>> :> Tomb)
    /\ dirty' = TRUE
    /\ UNCHANGED <<daos, backend, accH, balH, ctrH, trfH, persisting, lastPersist, migrated>>

DeleteContractState(d, h) ==
    LET path == {daos[x].ctr : x \in CachedPath(d)}
    IN  /\ Caller /\ IsCached(d)
        /\ ctrH' = [m \in MapIds |-> IF m \in path THEN [ctrH[m] EXCEPT ![h] = Nil] ELSE ctrH[m]]
        /\ SetOvl(SimpleOf(d), <<"ctr", h>> :> Tomb)
        /\ dirty' = TRUE
        /\ UNCHANGED <<daos, backend, accH, balH, trfH, persisting, lastPersist, migrated>>

\* MigrateNEP5Balances (128-185): d's cached balances are written to the
\* Simple below, dropNEP5Cache is set, and every stored balance with a
\* tracker for `from` gets it under `to` through a MemCachedStore that is
\* persisted into the Simple's store.  d's balance cache is left as it was.
\* The caller moves trackers to a token that was never migrated away.
MigrateNEP5Balances(d, from, to) ==
    LET s == SimpleOf(d)
        bm == balH[daos[d].bal]
        written(a) == IF bm[a] # Nil THEN bm[a] ELSE StoreGet(s, <<"bal", a>>)
        moved == {a \in Accts : written(a) # NoVal /\ from \in written(a)}
    IN  /\ Caller /\ IsCached(d)
        /\ from # to /\ to \notin migrated
        /\ SetOvl(s, [k \in {<<"bal", a>> : a \in Accts} |->
                        IF k[2] \in moved THEN (written(k[2]) \ {from}) \cup {to}
                        ELSE IF bm[k[2]] # Nil THEN bm[k[2]] ELSE ovl[s][k]])
        /\ daos' = [daos EXCEPT ![d].drop = TRUE]
        /\ migrated' = migrated \cup {from}
        /\ dirty' = TRUE
        /\ UNCHANGED <<backend, accH, balH, ctrH, trfH, persisting, lastPersist>>

\* Mutant: Persist writes accounts and balances but not the transfer logs.
PersistOverSimpleNoLogs(d) ==
    LET s == Low(d)
        objs == [k \in Keys |->
                   CASE k[1] = "acc" /\ accH[daos[d].acc][k[2]] # Nil -> accH[daos[d].acc][k[2]]
                     [] k[1] = "bal" /\ balH[daos[d].bal][k[2]] # Nil -> balH[daos[d].bal][k[2]]
                     [] OTHER -> ovl[s][k]]
    IN  /\ Caller /\ IsCached(d) /\ ~IsCached(s)
        /\ FlushOf(s, objs)
        /\ Returned(d, Touched(objs))
        /\ UNCHANGED <<daos, accH, balH, ctrH, trfH, migrated>>

\* Persist of a Cached over a Simple (211-235): accounts, balances and
\* transfer logs are written to the Simple, then the Simple persists.
PersistOverSimple(d) ==
    LET s == Low(d)
        objs == [k \in Keys |->
                   CASE k[1] = "acc" /\ accH[daos[d].acc][k[2]] # Nil -> accH[daos[d].acc][k[2]]
                     [] k[1] = "bal" /\ balH[daos[d].bal][k[2]] # Nil -> balH[daos[d].bal][k[2]]
                     [] k[1] = "trf" /\ trfH[daos[d].trf][k[2]] # Nil -> trfH[daos[d].trf][k[2]]
                     [] OTHER -> ovl[s][k]]
    IN  /\ Caller /\ IsCached(d) /\ ~IsCached(s)
        /\ FlushOf(s, objs)
        /\ Returned(d, Touched(objs))
        /\ UNCHANGED <<daos, accH, balH, ctrH, trfH, migrated>>

\* Persist of a Cached over a Cached (189-210) starts its walk down.
PersistOverCached(d) ==
    /\ Caller /\ IsCached(d) /\ IsCached(Low(d))
    /\ persisting' = [d |-> d, lc |-> Low(d)]
    /\ UNCHANGED <<daos, ovl, backend, accH, balH, ctrH, trfH, dirty, lastPersist, migrated>>

\* One iteration of the walk (199-208).  When lowerCache embeds a Simple,
\* the balance cache of lowerCache is dropped if dropNEP5Cache is set and
\* the Simple persists; otherwise lowerCache is reassigned.
PersistWalkNilBalances ==
    LET d == persisting.d
        lc == persisting.lc
        s == Low(lc)
    IN  /\ persisting # Idle
        /\ IF IsCached(s)
           THEN /\ persisting' = [persisting EXCEPT !.lc = Low(d)]
                /\ UNCHANGED <<daos, ovl, backend, dirty, lastPersist>>
           ELSE /\ daos' = IF daos[d].drop THEN [daos EXCEPT ![lc].bal = 0] ELSE daos
                /\ FlushOf(s, ovl[s])
                /\ Returned(d, Touched(ovl[s]))
        /\ UNCHANGED <<accH, balH, ctrH, trfH, migrated>>

PersistWalk ==
    LET d == persisting.d
        lc == persisting.lc
        s == Low(lc)
    IN  /\ persisting # Idle
        /\ IF IsCached(s)
           THEN /\ persisting' = [persisting EXCEPT !.lc = Low(d)]
                /\ UNCHANGED <<daos, ovl, backend, dirty, lastPersist>>
           ELSE /\ daos' = IF daos[d].drop THEN [daos EXCEPT ![lc].bal = -lc] ELSE daos
                /\ FlushOf(s, ovl[s])
                /\ Returned(d, Touched(ovl[s]))
        /\ UNCHANGED <<accH, ctrH, trfH, migrated>>
        /\ balH' = IF ~IsCached(s) /\ daos[d].drop THEN [balH EXCEPT ![-lc] = EmptyMap] ELSE balH

\* Persist of a Simple (985-987).
PersistSimple(d) ==
    /\ Caller /\ ~IsCached(d)
    /\ FlushOf(d, ovl[d])
    /\ Returned(d, Touched(ovl[d]))
    /\ UNCHANGED <<daos, accH, balH, ctrH, trfH, migrated>>

Next ==
    \/ \E d \in Handles :
        \/ \E a \in Accts : \/ \E v \in AcctVals : PutAccountState(d, a, v)
                            \/ \E bs \in BalVals : PutNEP5Balances(d, a, bs)
                            \/ AppendNEP5Transfer(d, a)
        \/ \E h \in Contracts : \/ GetContractState(d, h)
                                \/ \E cs \in ContractVals : PutContractState(d, h, cs)
                                \/ DeleteContractState(d, h)
        \/ \E from, to \in Tokens : MigrateNEP5Balances(d, from, to)
        \/ PersistOverSimple(d) \/ PersistOverCached(d) \/ PersistSimple(d)
    \/ PersistWalk

\* The goroutine inside Persist keeps running.
Spec == Init /\ [][Next]_vars /\ WF_vars(PersistWalk)
-----------------------------------------------------------------------------
(* Properties.                                                             *)

TypeOK ==
    /\ \A s \in Ids, k \in Keys : ovl[s][k] \in ValsOf(k) \cup {Absent, Tomb}
    /\ \A k \in Keys : backend[k] \in ValsOf(k) \cup {NoVal}
    /\ accH \in [MapIds -> [Accts \cup Contracts -> AcctVals \cup {Nil}]]
    /\ balH \in [MapIds -> [Accts \cup Contracts -> BalVals \cup {Nil}]]
    /\ trfH \in [MapIds -> [Accts \cup Contracts -> (1..MaxLog) \cup {Nil}]]
    /\ \A d \in Ids : IsCached(d) => daos[d].bal \in MapIds
    /\ persisting.d \in {0} \cup Ids

(* Persist returns: the walk of Cached.Persist (199-208) reaches the     *)
(* Simple that persists.  With two Cached over the Simple the walk ends  *)
(* on its first step whatever line 203 does; with three it never ends    *)
(* (Build MCNested3), because line 203 reassigns lowerCache = cd.DAO.    *)
PersistReturns == persisting # Idle ~> persisting = Idle

\* What DAO d returns for key k.
View(d, k) ==
    CASE k[1] = "acc" -> AccountView(d, k[2])
      [] k[1] = "bal" -> BalView(d, k[2])
      [] k[1] = "trf" -> TrfView(d, k[2])
      [] k[1] = "ctr" -> ContractView(d, k[2])

\* The pairs <<parent, scope>> that the GetWrapped and NewCached calls of
\* Build made; NewCached(d) also wraps d with GetWrapped.
ScopePairs ==
    {<<Built.handles[Build[i][2]], Built.handles[i]>> :
        i \in {j \in 1..Len(Build) : Build[j][1] \in {"GetWrapped", "NewCached"}}}

WritesThrough(w) ==
    \/ \E a \in Accts : \/ \E v \in AcctVals : PutAccountState(w, a, v)
                        \/ \E bs \in BalVals : PutNEP5Balances(w, a, bs)
                        \/ AppendNEP5Transfer(w, a)
    \/ \E h \in Contracts : \/ \E cs \in ContractVals : PutContractState(w, h, cs)
                            \/ DeleteContractState(w, h)
    \/ \E from, to \in Tokens : MigrateNEP5Balances(w, from, to)

(* Spec property 9: a write made through a wrapped DAO, before it is    *)
(* persisted, changes nothing its parent DAO returns.                   *)
ScopeIsolation ==
    [][\A pw \in ScopePairs :
          WritesThrough(pw[2]) =>
              \A k \in Keys : View(pw[1], k)' = View(pw[1], k)]_vars

(* The contract cache is write-through: a contract state that a Cached  *)
(* the caller holds has cached is the one stored in the Simple below it, *)
(* through every Put, Delete, Get and Persist.                           *)
ContractCacheCoherent ==
    \A d \in Handles, h \in Contracts :
        IsCached(d) /\ ctrH[daos[d].ctr][h] # Nil =>
            ctrH[daos[d].ctr][h] = StoreGet(SimpleOf(d), <<"ctr", h>>)

(* A migration is not undone: once MigrateNEP5Balances moved the        *)
(* trackers of a token away, no balance in the store below a Cached the *)
(* caller holds has a tracker for it again (the balance caches above may *)
(* be stale, which dropNEP5Cache is there to signal).                   *)
MigrationDurable ==
    \A d \in Handles, a \in Accts :
        IsCached(d) =>
            LET v == StoreGet(SimpleOf(d), <<"bal", a>>)
            IN  v = NoVal \/ v \cap migrated = {}

(* A Cached over a Simple implements the transactional scope of TxnKV:  *)
(* the Simple that Build makes first is the committed view, the Cached  *)
(* that NewCached makes at position 2 the open scope.  Every write      *)
(* through the Cached changes its view only, and its Persist makes the  *)
(* Simple return, for every account, balance, transfer log and contract, *)
(* what the Cached returned (spec section 4.3).                          *)
\* A value is paired with the kind of its key, as its encoding is typed.
AbsVals == UNION {{k[1]} \X ValsOf(k) : k \in Keys}
AbsView(d) == [k \in Keys |-> IF View(d, k) = NoVal THEN NoVal ELSE <<k[1], View(d, k)>>]

CachedScope == INSTANCE TxnKV WITH
    Vals <- AbsVals,
    NoScope <- Nil,
    db <- AbsView(Built.handles[1]),
    scope <- AbsView(Built.handles[2])

CachedScopeRefinement == CachedScope!Spec

(* Spec property 10: a Persist that follows a Persist of the same DAO  *)
(* with no write in between flushes nothing.                             *)
SecondPersistFlushesNothing == lastPersist.clean => lastPersist.n = 0
=============================================================================
