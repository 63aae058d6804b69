-------------------------- MODULE VersionedReplica --------------------------
(* What a generation-stamped delivery promises, whatever carries it: a        *)
(* publisher appends versions of a value, and a replica holds the value of a  *)
(* version it has reached.  The replica may skip versions and may lose its    *)
(* value (a restart empties it), but it never returns to an older version.    *)
(* ShieldResources implements it for the signed resource sets of a shield:    *)
(* published <- published, position <- floor, value <- active.                *)
EXTENDS Naturals, Sequences

CONSTANTS Replicas, \* who follows: one publisher per replica
          Values,   \* what is published
          Empty     \* the value of a replica that has just started

VARIABLES published, \* [Replicas -> Seq(value)]: every version, in order
          position,  \* [Replicas -> Nat]: the newest version ever taken
          value      \* [Replicas -> value]: what the replica acts on

vars == <<published, position, value>>

Init ==
    \A s \in Replicas :
        /\ position[s] \in 0..Len(published[s])
        /\ value[s] = IF position[s] = 0 THEN Empty
                                         ELSE published[s][position[s]]

\* The publisher makes a version; never the one it made last.
Publish(s) ==
    \E v \in Values :
        /\ published[s] # <<>> => v # published[s][Len(published[s])]
        /\ published' = [published EXCEPT ![s] = Append(@, v)]
        /\ UNCHANGED <<position, value>>

\* The replica takes a version no older than the newest it ever took.
Take(s) ==
    \E n \in 1..Len(published[s]) :
        /\ n >= position[s]
        /\ position' = [position EXCEPT ![s] = n]
        /\ value' = [value EXCEPT ![s] = published[s][n]]
        /\ UNCHANGED published

\* A restart loses the value and keeps the position.
Restart(s) ==
    /\ value' = [value EXCEPT ![s] = Empty]
    /\ UNCHANGED <<published, position>>

Next == \E s \in Replicas : Publish(s) \/ Take(s) \/ Restart(s)

Spec == Init /\ [][Next]_vars
=============================================================================
