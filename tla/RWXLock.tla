------------------------------ MODULE RWXLock ------------------------------
(***************************************************************************)
(* What a read / write / exclusive lock promises to its users, with no     *)
(* word about how it is done.  "write" is the upgradable mode: one writer  *)
(* may coexist with readers that were there before it, and turns into the  *)
(* exclusive holder once they have left.  RWXSpinlock is shown to          *)
(* implement this module.                                                  *)
(***************************************************************************)

CONSTANT Threads

VARIABLE held           \* held[t] : the mode thread t holds the lock in

Mode == {"no", "read", "write", "exclusive"}

Holders(m) == {t \in Threads : held[t] = m}

Quiet(t) == \A u \in Threads \ {t} : held[u] = "no"

Init == held = [t \in Threads |-> "no"]

GrantRead(t) ==
  /\ held[t] = "no"
  /\ Holders("write") = {} /\ Holders("exclusive") = {}
  /\ held' = [held EXCEPT ![t] = "read"]

GrantWrite(t) ==
  /\ held[t] \in {"no", "read"}
  /\ Holders("write") = {} /\ Holders("exclusive") = {}
  /\ held' = [held EXCEPT ![t] = "write"]

GrantExclusive(t) ==
  /\ held[t] \in {"no", "write"}
  /\ Quiet(t)
  /\ held' = [held EXCEPT ![t] = "exclusive"]

Release(t) ==
  /\ held[t] # "no"
  /\ held' = [held EXCEPT ![t] = "no"]

Next == \E t \in Threads :
          GrantRead(t) \/ GrantWrite(t) \/ GrantExclusive(t) \/ Release(t)

Spec == Init /\ [][Next]_held

=============================================================================
