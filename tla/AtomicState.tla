---------------------------- MODULE AtomicState ----------------------------
(***************************************************************************)
(* What saveState and loadState promise the rest of the broker: the        *)
(* instance map is copied, and later the stored map is replaced by that    *)
(* copy in one step or not at all; a restart finds exactly the stored map. *)
(***************************************************************************)
CONSTANTS Writers, Maps, EmptyMap

VARIABLES
  mem,     \* the instance map in memory
  stored,  \* the map a restart would find
  pending  \* per saveState call, the copy it took ({} before it has one)

Init == /\ mem = EmptyMap
        /\ stored = EmptyMap
        /\ pending = [x \in Writers |-> {}]

Change == mem' \in Maps /\ UNCHANGED <<stored, pending>>

Copy(x) == /\ pending[x] = {}
           /\ pending' = [pending EXCEPT ![x] = {mem}]
           /\ UNCHANGED <<mem, stored>>

\* The save takes effect, or fails and is only logged.
Commit(x) == /\ \E m \in pending[x] : stored' \in {m, stored}
             /\ pending' = [pending EXCEPT ![x] = {}]
             /\ UNCHANGED mem

Restart == /\ mem' = stored
           /\ pending' = [x \in Writers |-> {}]
           /\ UNCHANGED stored

Next == \/ Change
        \/ \E x \in Writers : Copy(x) \/ Commit(x)
        \/ Restart

Spec == Init /\ [][Next]_<<mem, stored, pending>>
=============================================================================
