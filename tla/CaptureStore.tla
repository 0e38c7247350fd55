---------------------------- MODULE CaptureStore ----------------------------
(***************************************************************************)
(* What a store of captures promises to those who use it: it holds at most *)
(* one content under an id, a content that is there is never replaced in   *)
(* place, and one step touches one id.  Maintenance (a change of the key,  *)
(* a backup) is invisible.                                                 *)
(***************************************************************************)
CONSTANTS Ids, Contents, Empty

VARIABLE store

StoreInit == store = [i \in Ids |-> Empty]

Put(i, x) == store[i] = Empty /\ store' = [store EXCEPT ![i] = x]

Remove(i) == store[i] # Empty /\ store' = [store EXCEPT ![i] = Empty]

StoreNext == \E i \in Ids : Remove(i) \/ \E x \in Contents : Put(i, x)

StoreSpec == StoreInit /\ [][StoreNext]_store

=============================================================================
