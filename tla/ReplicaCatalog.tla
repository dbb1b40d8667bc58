--------------------------- MODULE ReplicaCatalog ---------------------------
(***************************************************************************)
(* What the directory promises its readers, without records, descriptors,  *)
(* sessions or authority: a catalogue of published copies.  A state has    *)
(* one newest generation, which only grows; every published copy is of it. *)
(* A buried generation is never published again.                           *)
(***************************************************************************)
EXTENDS Integers

CONSTANTS
    States,
    CopyIds,   \* [state, generation, replica, location, cache]
    Floors     \* the generation floors a state may be buried at

NoGeneration == -1

VARIABLES
    published,   \* the copies a query may return
    newest,      \* the newest generation published of each state
    buried       \* the <<state, floor>> pairs buried so far

catalog == <<published, newest, buried>>

Init ==
    /\ published = {}
    /\ newest = [s \in States |-> NoGeneration]
    /\ buried = {}

IsBuried(c) == \E b \in buried : b[1] = c.state /\ c.generation <= b[2]

SamePlace(c, d) ==
    /\ c.state = d.state /\ c.generation = d.generation
    /\ c.replica = d.replica /\ c.location = d.location

(* A new copy displaces every older generation of its state, and possibly   *)
(* copies of the same generation at the same place (under another cache).   *)
Publish(c) ==
    /\ c \notin published
    /\ c.state \in States
    /\ c.generation >= newest[c.state]
    /\ ~IsBuried(c)
    /\ newest' = [newest EXCEPT ![c.state] = c.generation]
    /\ c \in published'
    /\ published' \subseteq published \cup {c}
    /\ \A d \in published :
           /\ d.state = c.state /\ d.generation < c.generation => d \notin published'
           /\ d.state # c.state \/ (d.generation = c.generation /\ ~SamePlace(c, d))
                  => d \in published'
    /\ UNCHANGED buried

(* Copies are withdrawn: invalidated, one or many at once. *)
Withdraw ==
    /\ published' \subseteq published
    /\ UNCHANGED <<newest, buried>>

Bury(s, floor) ==
    /\ buried' = buried \cup {<<s, floor>>}
    /\ published' = {c \in published : ~(c.state = s /\ c.generation <= floor)}
    /\ UNCHANGED newest

Next ==
    \/ \E c \in CopyIds : Publish(c)
    \/ Withdraw
    \/ \E s \in States, floor \in Floors : Bury(s, floor)

Spec == Init /\ [][Next]_catalog
=============================================================================
