---------------------------- MODULE GroupChannel ----------------------------
(***************************************************************************)
(* What the group manager promises: a group goes from epoch to epoch as    *)
(* members come and go, and a message opens in the group and the epoch it  *)
(* was sealed in, and nowhere else.                                        *)
(***************************************************************************)
EXTENDS Naturals

CONSTANTS Group,    \* the groups that may be created
          Member,   \* the members
          Message   \* the messages that may be sealed

VARIABLES epoch,    \* of each group, 0 before it is created
          members,  \* of each group
          sealed,   \* the messages sealed, each with its group and epoch
          answer    \* the last attempt to open one

gvars == <<epoch, members, sealed, answer>>

NoAnswer == [opened |-> FALSE]

Init ==
    /\ epoch = [g \in Group |-> 0]
    /\ members = [g \in Group |-> {}]
    /\ sealed = {}
    /\ answer = NoAnswer

Advance(g) == epoch' = [epoch EXCEPT ![g] = @ + 1]

Create(g) == epoch[g] = 0 /\ Advance(g) /\ UNCHANGED <<members, sealed, answer>>

Join(g, m) ==
    /\ epoch[g] > 0 /\ Advance(g)
    /\ members' = [members EXCEPT ![g] = @ \cup {m}]
    /\ UNCHANGED <<sealed, answer>>

Leave(g, m) ==
    /\ m \in members[g] /\ Advance(g)
    /\ members' = [members EXCEPT ![g] = @ \ {m}]
    /\ UNCHANGED <<sealed, answer>>

Seal(g, x) ==
    /\ epoch[g] > 0 /\ \A s \in sealed : s.message # x
    /\ sealed' = sealed \cup {[message |-> x, group |-> g, epoch |-> epoch[g]]}
    /\ UNCHANGED <<epoch, members, answer>>

Open(g, s) ==
    /\ answer' = [message |-> s.message, in |-> g,
                  opened |-> s.group = g /\ s.epoch = epoch[g]]
    /\ UNCHANGED <<epoch, members, sealed>>

Next ==
    \E g \in Group :
       \/ Create(g)
       \/ \E m \in Member : Join(g, m) \/ Leave(g, m)
       \/ \E x \in Message : Seal(g, x)
       \/ \E s \in sealed : Open(g, s)

Spec == Init /\ [][Next]_gvars
============================================================================
