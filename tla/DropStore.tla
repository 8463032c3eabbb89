----------------------------- MODULE DropStore -----------------------------
(***************************************************************************)
(* What a slab is to those who read it (limnifs/slab_reader.py): a store   *)
(* of drops by id, written once.  What it holds is settled before it is    *)
(* opened; an intact store always opens, and a lookup answers with the     *)
(* drop that was written under the id, or that there is none.  Nothing is  *)
(* promised of a store that is not intact, except that it is refused or    *)
(* opened once and for all.                                                *)
(***************************************************************************)
EXTENDS ParseErrors

CONSTANT Ids

Place == [start : Nat, end : Nat, len : Nat]     \* the bytes, and the plaintext's length
Outcome == {"plaintext"} \cup ErrorKinds

VARIABLES
    intact,       \* a writer's slab, unchanged
    contents,     \* the place of each drop, by id
    phase,        \* "closed", "open", or the exception that refused it
    answer        \* what the latest lookup returned

vars == <<intact, contents, phase, answer>>

Init ==
    /\ intact \in BOOLEAN
    /\ \E ids \in SUBSET Ids : contents \in [ids -> Place]
    /\ phase = "closed"
    /\ answer = [kind |-> "none"]

Open ==
    /\ phase = "closed"
    /\ phase' = "open"
    /\ UNCHANGED <<intact, contents, answer>>

Refuse ==
    /\ phase = "closed"
    /\ ~intact
    /\ phase' \in ErrorKinds
    /\ UNCHANGED <<intact, contents, answer>>

NotThere(id) == [kind |-> "missing", id |-> id]
At(place, id) == [kind : Outcome, id : {id}, place : {place}]

Answers(id) ==
    IF ~intact THEN [kind : Outcome, id : {id}, place : Place] \cup {NotThere(id)}
    ELSE IF id \in DOMAIN contents THEN At(contents[id], id)
    ELSE {NotThere(id)}

Get(id) ==
    /\ phase = "open"
    /\ answer' \in Answers(id)
    /\ UNCHANGED <<intact, contents, phase>>

Next == Open \/ Refuse \/ \E id \in Ids : Get(id)

Spec == Init /\ [][Next]_vars
=============================================================================
