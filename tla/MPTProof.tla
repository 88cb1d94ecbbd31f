------------------------------ MODULE MPTProof ------------------------------
(***************************************************************************)
(* Proofs and traversal of the MPT (src/pkg/core/blockchainer/            *)
(* state_root.go, lines 36-164): GetProof, VerifyProof and Traverse.      *)
(*                                                                         *)
(* A node is a record: a leaf, a branch with one child per nibble and the *)
(* value slot lastChild, an extension with its key and next node, a hash  *)
(* node, or the empty hash node.  A node's Bytes are modelled by Norm,     *)
(* the node with every child replaced by its hash node, and the hash of    *)
(* those bytes by the hash node that holds them (a hash with no           *)
(* collisions).  The store maps a hash to the bytes: it is the set of the *)
(* Norm of every stored node.  A key is its nibble path (toNibbles).      *)
(*                                                                         *)
(* GetProof and Traverse change the trie: the hash nodes they resolve are *)
(* put back into t.root in place of the hash node.  `root` is t.root.     *)
(***************************************************************************)
EXTENDS Integers, Sequences, SequencesExt, FiniteSets

CONSTANTS
    Nibbles,  \* the nibble alphabet (16 values in the code)
    KV,       \* the key/value pairs in the trie: nibble path -> value
    Keys,     \* the paths GetProof and VerifyProof are asked about
    NoVal     \* no value / no stop node

lastChild == 16
Idx == Nibbles \cup {lastChild}
\* The order `for i := range n.Children` visits the children in.
ChildOrder == SetToSortSeq(Idx, <)

Empty == [t |-> "empty"]
Leaf(v) == [t |-> "leaf", v |-> v]
Branch(c) == [t |-> "branch", c |-> c]
Extension(k, nx) == [t |-> "ext", key |-> k, next |-> nx]
NilNode == [t |-> "nil"]   \* the nil Node an error is returned with

(* Node.Bytes and Node.Hash (mpt package): a child is encoded by its hash. *)
RECURSIVE Norm(_), HashOf(_)
HashOf(n) == IF n.t \in {"hash", "empty"} THEN n ELSE [t |-> "hash", of |-> Norm(n)]
Norm(n) ==
    CASE n.t = "branch" -> Branch([i \in Idx |-> HashOf(n.c[i])])
      [] n.t = "ext"    -> Extension(n.key, HashOf(n.next))
      [] OTHER          -> n

\* splitPath (mpt package): the child index a path selects and the rest.
SplitIdx(path) == IF path = <<>> THEN lastChild ELSE Head(path)
SplitRest(path) == IF path = <<>> THEN path ELSE Tail(path)

-----------------------------------------------------------------------------
(* The trie Put builds from KV (mpt package): a common prefix of all keys *)
(* is an extension, a single empty path is a leaf, otherwise a branch.    *)

RECURSIVE CommonPrefix(_)
CommonPrefix(S) ==
    IF \E s \in S : s = <<>> THEN <<>>
    ELSE LET h == Head(CHOOSE s \in S : TRUE)
         IN  IF \A s \in S : Head(s) = h
             THEN <<h>> \o CommonPrefix({Tail(s) : s \in S})
             ELSE <<>>

RECURSIVE Build(_)
Build(m) ==
    LET P == DOMAIN m
        p == CommonPrefix(P)
        under(i) == {s \in P : s # <<>> /\ Head(s) = i}
    IN  CASE P = {}      -> Empty
          [] P = {<<>>}  -> Leaf(m[<<>>])
          [] p # <<>>    -> Extension(p, Build([q \in {SubSeq(s, Len(p) + 1, Len(s)) : s \in P}
                                                 |-> m[p \o q]]))
          [] OTHER       -> Branch([i \in Idx |->
                               IF i = lastChild
                               THEN IF <<>> \in P THEN Leaf(m[<<>>]) ELSE Empty
                               ELSE Build([q \in {Tail(s) : s \in under(i)} |-> m[<<i>> \o q]])])

Full == Build(KV)

RECURSIVE SubNodes(_)
SubNodes(n) ==
    CASE n.t = "branch" -> {n} \cup UNION {SubNodes(n.c[i]) : i \in Idx}
      [] n.t = "ext"    -> {n} \cup SubNodes(n.next)
      [] n.t = "leaf"   -> {n}
      [] OTHER          -> {}

StoredNodes == {Norm(n) : n \in SubNodes(Full)}
RootHash == HashOf(Full)

-----------------------------------------------------------------------------
(* getProof (52-89): the node to put back in place of n, the Bytes of the *)
(* nodes on the path and the error.  A hash node is resolved from the     *)
(* store (getFromStore) and the path continues at the decoded node.       *)

RECURSIVE GetProofAt(_, _, _)

GetProofAtSkipsExtension(n, path, st) ==
    LET fail(e) == [n |-> NilNode, proof |-> <<>>, err |-> e]
        down(child, rest, put(_), bytes) ==
            LET r == GetProofAt(child, rest, st)
            IN  IF r.err # "none" THEN [r EXCEPT !.proof = bytes \o @]
                ELSE [n |-> put(r.n), proof |-> bytes \o r.proof, err |-> "none"]
    IN  CASE n.t = "leaf" /\ path = <<>> -> [n |-> n, proof |-> <<Norm(n)>>, err |-> "none"]
          [] n.t = "branch" ->
                LET i == SplitIdx(path)
                    putChild(r) == [n EXCEPT !.c[i] = r]
                IN  down(n.c[i], SplitRest(path), putChild, <<Norm(n)>>)
          [] n.t = "ext" /\ IsPrefix(n.key, path) ->
                LET putNext(r) == [n EXCEPT !.next = r]
                IN  down(n.next, SubSeq(path, Len(n.key) + 1, Len(path)), putNext, <<>>)
          [] n.t = "hash" ->
                IF n.of \in st THEN GetProofAt(n.of, path, st) ELSE fail("storage")
          [] OTHER -> fail("ErrNotFound")

GetProofAt(n, path, st) ==
    LET fail(e) == [n |-> NilNode, proof |-> <<>>, err |-> e]
        down(child, rest, put(_)) ==
            LET r == GetProofAt(child, rest, st)
            IN  IF r.err # "none" THEN [r EXCEPT !.proof = <<Norm(n)>> \o @]
                ELSE [n |-> put(r.n), proof |-> <<Norm(n)>> \o r.proof, err |-> "none"]
    IN  CASE n.t = "leaf" /\ path = <<>> -> [n |-> n, proof |-> <<Norm(n)>>, err |-> "none"]
          [] n.t = "branch" ->
                LET i == SplitIdx(path)
                    putChild(r) == [n EXCEPT !.c[i] = r]
                IN  down(n.c[i], SplitRest(path), putChild)
          [] n.t = "ext" /\ IsPrefix(n.key, path) ->
                LET putNext(r) == [n EXCEPT !.next = r]
                IN  down(n.next, SubSeq(path, Len(n.key) + 1, Len(path)), putNext)
          [] n.t = "hash" ->
                IF n.of \in st THEN GetProofAt(n.of, path, st) ELSE fail("storage")
          [] OTHER -> fail("ErrNotFound")

(* getWithPath (mpt package), the lookup VerifyProof makes. *)
RECURSIVE GetWithPath(_, _, _)
GetWithPath(n, path, st) ==
    CASE n.t = "leaf" /\ path = <<>> -> n.v
      [] n.t = "branch" -> GetWithPath(n.c[SplitIdx(path)], SplitRest(path), st)
      [] n.t = "ext" /\ IsPrefix(n.key, path) ->
            GetWithPath(n.next, SubSeq(path, Len(n.key) + 1, Len(path)), st)
      [] n.t = "hash" /\ n.of \in st -> GetWithPath(n.of, path, st)
      [] OTHER -> NoVal

(* VerifyProof (92-106): a trie rooted at the hash node of rh over a      *)
(* store holding each proof node under the hash of its bytes.            *)
VerifyProof(rh, key, proofs) ==
    LET v == GetWithPath(rh, key, ToSet(proofs))
    IN  [v |-> v, ok |-> v # NoVal]

-----------------------------------------------------------------------------
(* traverse (117-164): pre-order, `process` is called with the Bytes of   *)
(* every non-hash node until it returns true (here: the Bytes are the    *)
(* stop node).  Returns the node to put back, the error and the Bytes    *)
(* process was called with.                                              *)

RECURSIVE TraverseAt(_, _, _, _)

TraverseAtIgnoresStop(n, stop, ign, st) ==
    LET visit == <<Norm(n)>>
        step(acc, i) ==
            IF acc.err \notin {"none", "stop"} THEN acc
            ELSE LET r == TraverseAt(acc.n.c[i], stop, ign, st)
                 IN  [n   |-> IF r.err \in {"none", "stop"} THEN [acc.n EXCEPT !.c[i] = r.n] ELSE NilNode,
                      err |-> IF r.err = "none" THEN acc.err ELSE r.err,
                      vis |-> acc.vis \o r.vis]
    IN  CASE n.t = "hash" ->
                IF n.of \in st THEN TraverseAt(n.of, stop, ign, st)
                ELSE [n |-> n, err |-> IF ign THEN "none" ELSE "storage", vis |-> <<>>]
          [] n.t = "empty" -> [n |-> n, err |-> "none", vis |-> <<>>]
          [] Norm(n) = stop -> [n |-> n, err |-> "stop", vis |-> visit]
          [] n.t = "leaf" -> [n |-> n, err |-> "none", vis |-> visit]
          [] n.t = "branch" -> FoldLeft(step, [n |-> n, err |-> "none", vis |-> visit], ChildOrder)
          [] n.t = "ext" ->
                LET r == TraverseAt(n.next, stop, ign, st)
                IN  [n |-> IF r.err \in {"none", "stop"} THEN [n EXCEPT !.next = r.n] ELSE NilNode,
                     err |-> r.err, vis |-> visit \o r.vis]

TraverseAt(n, stop, ign, st) ==
    LET visit == <<Norm(n)>>
        \* One iteration of `for i := range n.Children`.
        step(acc, i) ==
            IF acc.err # "none" THEN acc
            ELSE LET r == TraverseAt(acc.n.c[i], stop, ign, st)
                 IN  [n   |-> IF r.err \in {"none", "stop"} THEN [acc.n EXCEPT !.c[i] = r.n] ELSE NilNode,
                      err |-> r.err,
                      vis |-> acc.vis \o r.vis]
    IN  CASE n.t = "hash" ->
                IF n.of \in st THEN TraverseAt(n.of, stop, ign, st)
                ELSE [n |-> n, err |-> IF ign THEN "none" ELSE "storage", vis |-> <<>>]
          [] n.t = "empty" -> [n |-> n, err |-> "none", vis |-> <<>>]
          [] Norm(n) = stop -> [n |-> n, err |-> "stop", vis |-> visit]
          [] n.t = "leaf" -> [n |-> n, err |-> "none", vis |-> visit]
          [] n.t = "branch" -> FoldLeft(step, [n |-> n, err |-> "none", vis |-> visit], ChildOrder)
          [] n.t = "ext" ->
                LET r == TraverseAt(n.next, stop, ign, st)
                IN  [n |-> IF r.err \in {"none", "stop"} THEN [n EXCEPT !.next = r.n] ELSE NilNode,
                     err |-> r.err, vis |-> visit \o r.vis]

-----------------------------------------------------------------------------
VARIABLES
    root,      \* t.root
    store,     \* the hashes whose nodes the store holds
    traversal  \* the last Traverse call: its stop node, ignoreStorageErr, the nodes processed and its result

vars == <<root, store, traversal>>

(* A trie opened at its root hash (NewTrie(NewHashNode(root))), over a  *)
(* store holding every node, or every node but one (a store that state   *)
(* synchronisation has not finished filling).                            *)
Init ==
    /\ root = RootHash
    /\ store \in {StoredNodes} \cup {StoredNodes \ {x} : x \in StoredNodes \ {Norm(Full)}}
    /\ traversal = [stop |-> NoVal, ign |-> FALSE, vis |-> <<>>, err |-> "none", ran |-> FALSE]

\* GetProof (41-50): t.root is replaced only when getProof succeeds.
GetProof(key) ==
    LET r == GetProofAt(root, key, store)
    IN  /\ root' = IF r.err = "none" THEN r.n ELSE root
        /\ UNCHANGED <<store, traversal>>

TraverseKeepsNilRoot(stop, ign) ==
    LET r == TraverseAt(root, stop, ign, store)
    IN  /\ root' = r.n
        /\ traversal' = [stop |-> stop, ign |-> ign, vis |-> r.vis, err |-> r.err, ran |-> TRUE]
        /\ UNCHANGED store

\* Traverse (108-115): t.root is replaced unless traverse failed with an
\* error other than errStop.
Traverse(stop, ign) ==
    LET r == TraverseAt(root, stop, ign, store)
    IN  /\ root' = IF r.err \in {"none", "stop"} THEN r.n ELSE root
        /\ traversal' = [stop |-> stop, ign |-> ign, vis |-> r.vis, err |-> r.err, ran |-> TRUE]
        /\ UNCHANGED store

Next ==
    \/ \E k \in Keys : GetProof(k)
    \/ \E stop \in StoredNodes \cup {NoVal}, ign \in BOOLEAN : Traverse(stop, ign)

Spec == Init /\ [][Next]_vars
-----------------------------------------------------------------------------
(* Properties.                                                             *)

(* Proofs GetProof returns verify: whatever GetProof and Traverse have    *)
(* already resolved in t.root, a proof GetProof returns without error     *)
(* makes VerifyProof, against the root hash, return the key's value; with *)
(* the whole store every key in the trie has one; and a key not in the   *)
(* trie has none, nor does the partial proof returned with the error      *)
(* verify a value for it.                                                 *)
ProofsVerify ==
    \A k \in Keys :
        LET r == GetProofAt(root, k, store)
        IN  /\ r.err = "none" =>
                   k \in DOMAIN KV /\ VerifyProof(RootHash, k, r.proof) = [v |-> KV[k], ok |-> TRUE]
            /\ k \in DOMAIN KV /\ store = StoredNodes => r.err = "none"
            /\ k \notin DOMAIN KV => ~VerifyProof(RootHash, k, r.proof).ok

(* The trie GetProof and Traverse leave in t.root is the trie they were  *)
(* given: its hash is the root hash, whatever they resolved and whatever *)
(* error they met.                                                        *)
RootStable == HashOf(root) = RootHash

\* The Bytes of the nodes of the trie, in pre-order, children by index.
RECURSIVE PreOrder(_)
PreOrder(n) ==
    CASE n.t = "branch" -> <<Norm(n)>> \o FlattenSeq([j \in 1..Len(ChildOrder) |-> PreOrder(n.c[ChildOrder[j]])])
      [] n.t = "ext"    -> <<Norm(n)>> \o PreOrder(n.next)
      [] n.t = "leaf"   -> <<Norm(n)>>
      [] OTHER          -> <<>>

\* The nodes of the subtrees whose root the store has lost.
LostBelow ==
    {Norm(m) : m \in UNION {SubNodes(n) : n \in {x \in SubNodes(Full) : Norm(x) \notin store}}}

(* Traverse processes the trie in pre-order, stopping at the first node  *)
(* process accepts: with ignoreStorageErr it skips exactly the subtrees   *)
(* the store lost, without it it stops before the first of them; and     *)
(* this whatever earlier calls resolved in t.root.                       *)
TraverseOrder ==
    traversal.ran =>
        LET ref == PreOrder(Full)
            firstLost == IF \E j \in 1..Len(ref) : ref[j] \in LostBelow
                         THEN CHOOSE j \in 1..Len(ref) : ref[j] \in LostBelow /\ \A l \in 1..(j-1) : ref[l] \notin LostBelow
                         ELSE Len(ref) + 1
            reach == IF traversal.ign THEN SelectSeq(ref, LAMBDA x : x \notin LostBelow)
                     ELSE SubSeq(ref, 1, firstLost - 1)
            upto == IF \E j \in 1..Len(reach) : reach[j] = traversal.stop
                    THEN SubSeq(reach, 1, CHOOSE j \in 1..Len(reach) : reach[j] = traversal.stop)
                    ELSE reach
        IN  traversal.vis = upto
=============================================================================
