-------------------------------- MODULE TxnKV --------------------------------
(***************************************************************************)
(* What a DAO scope promises (spec section 4.3, properties 9 and 10): a   *)
(* committed key/value view `db` and, while a wrapped DAO is open, its     *)
(* view `scope`.  A scope starts as a copy of `db`; writes made in it do  *)
(* not touch `db` until it is committed, and an aborted scope leaves `db`  *)
(* as it was.  Committing makes `db` the scope's view; the scope may be    *)
(* written and committed again.  While no scope is open, writes go to     *)
(* `db` directly.  A write may change any number of keys at once, since   *)
(* one DAO call (StoreAsTransaction, DeleteBlock) writes several.         *)
(***************************************************************************)
CONSTANTS Keys, Vals, NoVal, NoScope

Views == [Keys -> Vals \cup {NoVal}]

VARIABLES db, scope

\* A scope may already be open when the stack is built (NewCached wraps
\* its argument at construction).
Init == /\ db \in Views
        /\ scope \in {NoScope, db}

Begin == /\ scope = NoScope
         /\ scope' = db
         /\ UNCHANGED db

WriteDb == /\ scope = NoScope
           /\ db' \in Views
           /\ UNCHANGED scope

WriteScope == /\ scope # NoScope
              /\ scope' \in Views
              /\ UNCHANGED db

Commit == /\ scope # NoScope
          /\ db' = scope
          /\ UNCHANGED scope

Abort == /\ scope # NoScope
         /\ scope' = NoScope
         /\ UNCHANGED db

Next == Begin \/ WriteDb \/ WriteScope \/ Commit \/ Abort

Spec == Init /\ [][Next]_<<db, scope>>
=============================================================================
