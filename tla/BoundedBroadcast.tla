-------------------------- MODULE BoundedBroadcast --------------------------
(***************************************************************************)
(* What the ring promises to its clients, whatever it is made of: one      *)
(* writer publishes sequences 1, 2, 3, ... in batches; every member starts *)
(* at the position of the writer when it joins and consumes each later     *)
(* sequence in order; and no publication leaves a member Capacity or more  *)
(* behind, so that what it has not consumed is still held.                 *)
(***************************************************************************)
EXTENDS Integers

CONSTANTS
  Capacity,   \* the events held at once
  Readers     \* who may ever join

VARIABLES
  published,  \* last sequence published
  members,    \* the readers the writer waits for
  position    \* last sequence each member consumed; 0 for the others

broadcastVars == <<published, members, position>>

BroadcastInit ==
  /\ published = 0
  /\ members = {}
  /\ position = [r \in Readers |-> 0]

(* A batch becomes visible at once, and only when no member would be lapped. *)
PublishBatch ==
  \E n \in 1 .. Capacity - 1 :
    /\ published' = published + n
    /\ \A r \in members : published + n < position[r] + Capacity
    /\ UNCHANGED <<members, position>>

(* A member starts with nothing to read: it sees what is published later. *)
Join(r) ==
  /\ r \notin members
  /\ members' = members \cup {r}
  /\ position' = [position EXCEPT ![r] = published]
  /\ UNCHANGED published

(* Members leave, alone or several at once. *)
Leave(R) ==
  /\ R # {} /\ R \subseteq members
  /\ members' = members \ R
  /\ position' = [r \in Readers |-> IF r \in R THEN 0 ELSE position[r]]
  /\ UNCHANGED published

(* A member advances, never beyond what is published, never backwards. *)
Consume(r) ==
  /\ r \in members
  /\ \E q \in position[r] + 1 .. published :
       position' = [position EXCEPT ![r] = q]
  /\ UNCHANGED <<published, members>>

BroadcastNext ==
  \/ PublishBatch
  \/ \E r \in Readers : Join(r) \/ Consume(r)
  \/ \E R \in SUBSET members : Leave(R)

BroadcastSpec == BroadcastInit /\ [][BroadcastNext]_broadcastVars
=============================================================================
