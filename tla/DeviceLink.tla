------------------------------ MODULE DeviceLink ------------------------------
(***************************************************************************)
(* What the registry promises those who push frames to a device.  A device *)
(* has at most one link, the one registered last; a link that is up ends   *)
(* only by dying, by a newer one, or with the gateway's process, and one   *)
(* that was replaced or dropped never comes back.                          *)
(***************************************************************************)
CONSTANTS Device,  \* device names
          Link,    \* links, each used once
          NoLink   \* a device has none

VARIABLES holder,  \* holder[d]: the link frames for d go to
          state,   \* state[d]: "up", "dying" (frames are lost) or "down"
          used,    \* links that were registered at some time
          running  \* the gateway is listening

Init ==
  /\ holder = [d \in Device |-> NoLink]
  /\ state = [d \in Device |-> "down"]
  /\ used = {}
  /\ running \in BOOLEAN

(* A new link takes the place of an old one or of none, even if it is dead *)
(* by then, or dropped at once.  Only a running gateway has a live one.    *)
Register(d, k) ==
  /\ k \notin used
  /\ used' = used \cup {k}
  /\ \/ /\ holder' = [holder EXCEPT ![d] = k]
        /\ \/ running /\ state' = [state EXCEPT ![d] = "up"]
           \/ state' = [state EXCEPT ![d] = "dying"]
     \/ /\ holder' = [holder EXCEPT ![d] = NoLink]
        /\ state' = [state EXCEPT ![d] = "down"]
  /\ UNCHANGED running

Dying(D) == [d \in Device |-> IF d \in D /\ state[d] = "up" THEN "dying" ELSE state[d]]

Die(d) ==
  /\ state' = Dying({d})
  /\ UNCHANGED <<holder, used, running>>

Drop(d) ==
  /\ state[d] = "dying"
  /\ holder' = [holder EXCEPT ![d] = NoLink]
  /\ state' = [state EXCEPT ![d] = "down"]
  /\ UNCHANGED <<used, running>>

Start ==
  /\ ~running /\ running' = TRUE
  /\ UNCHANGED <<holder, state, used>>

Stop ==
  /\ running /\ running' = FALSE
  /\ state' = Dying(Device)
  /\ UNCHANGED <<holder, used>>

Crash ==
  /\ running /\ running' = FALSE
  /\ holder' = [d \in Device |-> NoLink]
  /\ state' = [d \in Device |-> "down"]
  /\ UNCHANGED used

Next ==
  \/ \E d \in Device, k \in Link : Register(d, k)
  \/ \E d \in Device : Die(d) \/ Drop(d)
  \/ Start \/ Stop \/ Crash

Spec == Init /\ [][Next]_<<holder, state, used, running>>
=============================================================================
