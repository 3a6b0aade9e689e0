--------------------------- MODULE SharedRecords ---------------------------
(***************************************************************************)
(* What synchronization promises, without git: the devices share a set of  *)
(* records.  A device's copy grows by what its pages add and by what it    *)
(* learns from the store; the store grows by what devices publish and      *)
(* never forgets; what a device was told is stored is in the store.  A     *)
(* record somebody withdraws is nobody's concern from then on.             *)
(***************************************************************************)
CONSTANTS Device, Entry

VARIABLES
  copy,   \* copy[d]: the records device d holds
  store,  \* the records in the store
  acked   \* the records a device was told are in the store

sharedVars == <<copy, store, acked>>

Init ==
  /\ copy = [d \in Device |-> {}]
  /\ store \subseteq Entry
  /\ acked = {}

\* A page of d adds a record.
Add(d) ==
  /\ \E e \in Entry : copy' = [copy EXCEPT ![d] = @ \cup {e}]
  /\ UNCHANGED <<store, acked>>

\* Somebody removes a record: no promise about it remains.
Withdraw ==
  \E e \in Entry :
    /\ copy' = [d \in Device |-> copy[d] \ {e}]
    /\ store' = store \ {e}
    /\ acked' = acked \ {e}

\* d takes over records of the store and keeps all it has.
Learn(d) ==
  /\ copy[d] \subseteq copy'[d]
  /\ copy'[d] \subseteq copy[d] \cup store
  /\ copy' = [copy EXCEPT ![d] = copy'[d]]
  /\ UNCHANGED <<store, acked>>

\* d adds records of its copy to the store, and may be told so.
Publish(d) ==
  /\ store \subseteq store'
  /\ store' \subseteq store \cup copy[d]
  /\ acked \subseteq acked'
  /\ acked' \subseteq acked \cup copy[d]
  /\ acked' \subseteq store'
  /\ UNCHANGED copy

\* d throws its copy away.
Discard(d) ==
  /\ copy' = [copy EXCEPT ![d] = {}]
  /\ UNCHANGED <<store, acked>>

Next ==
  \/ Withdraw
  \/ \E d \in Device : Add(d) \/ Learn(d) \/ Publish(d) \/ Discard(d)

Spec == Init /\ [][Next]_sharedVars
=============================================================================
