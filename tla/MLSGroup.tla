------------------------------ MODULE MLSGroup ------------------------------
(***************************************************************************)
(* MLSManager (mls_manager.cpp): groups of members, each with a random     *)
(* leaf secret, and the key of an epoch, derived from all the leaves, the  *)
(* id of the group and the number of the epoch.                            *)
(*                                                                         *)
(* A leaf is the member it was made for and the number of the call that    *)
(* made it.  A hash is taken to be what is hashed, and a ciphertext opens  *)
(* with the key it was sealed with.  Positions in leaf_secrets count from  *)
(* 1.  A call of an unknown group, which throws or returns nothing, and    *)
(* the removal of somebody who is no member leave everything alone.  Who   *)
(* seals or opens a message makes no difference to the code: whoever holds *)
(* the manager can, member or not.                                         *)
(*                                                                         *)
(* An operator whose name starts with Faulty is no part of the model: it   *)
(* is a plausible mistake in the operator after it, put in its place to    *)
(* see which property notices.                                             *)
(***************************************************************************)
EXTENDS Naturals, Sequences

CONSTANTS Group,    \* the ids create_group may draw
          Member,   \* the members' ids
          Message,  \* bound: the messages, each sealed at most once
          MaxAdds   \* bound: calls of add_member

ASSUME GroupAssumption == MaxAdds \in Nat

VARIABLES
    epoch,         \* g.epoch, 0 while groups_ has no such group
    leaf_secrets,  \* g.leaf_secrets
    member_index,  \* g.member_index : a position for each member
    envelopes,     \* the envelopes made
    answer,        \* the last result of decrypt_group_message
    adds,          \* how many leaves have been made
    twice          \* history: groups and members added while they were in

mvars == <<epoch, leaf_secrets, member_index, envelopes, answer, adds, twice>>
group == <<epoch, leaf_secrets, member_index>>

Init ==
    /\ epoch = [g \in Group |-> 0]
    /\ leaf_secrets = [g \in Group |-> <<>>]
    /\ member_index = [g \in Group |-> [m \in {} |-> 0]]
    /\ envelopes = {}
    /\ answer = [opened |-> FALSE]
    /\ adds = 0
    /\ twice = {}

Members(g) == DOMAIN member_index[g]
----------------------------------------------------------------------------
create_group(g) ==
    /\ epoch[g] = 0
    /\ epoch' = [epoch EXCEPT ![g] = 1]
    /\ UNCHANGED <<leaf_secrets, member_index, envelopes, answer, adds, twice>>

\* emplace: the index of a member who is in already stays.
Emplaced(g, m, i) ==
    [n \in Members(g) \cup {m} |-> IF n \in Members(g) THEN member_index[g][n] ELSE i]

add_member(g, m) ==
    /\ epoch[g] > 0 /\ adds < MaxAdds
    /\ leaf_secrets' = [leaf_secrets EXCEPT ![g] = Append(@, [of |-> m, n |-> adds])]
    /\ member_index' = [member_index EXCEPT ![g] = Emplaced(g, m, Len(leaf_secrets[g]) + 1)]
    /\ epoch' = [epoch EXCEPT ![g] = @ + 1]
    /\ adds' = adds + 1
    /\ twice' = IF m \in Members(g) THEN twice \cup {<<g, m>>} ELSE twice
    /\ UNCHANGED <<envelopes, answer>>

FaultyErased(leaves, i) == SubSeq(leaves, 1, Len(leaves) - 1)  \* pop_back

Erased(leaves, i) == SubSeq(leaves, 1, i - 1) \o SubSeq(leaves, i + 1, Len(leaves))

FaultyShifted(p, i) == p  \* the indices stay as they are

Shifted(p, i) == IF p > i THEN p - 1 ELSE p

remove_member(g, m) ==
    /\ m \in Members(g)
    /\ LET i == member_index[g][m] IN
       /\ leaf_secrets' = [leaf_secrets EXCEPT ![g] = Erased(@, i)]
       /\ member_index' = [member_index EXCEPT ![g] =
             [n \in Members(g) \ {m} |-> Shifted(member_index[g][n], i)]]
    /\ epoch' = [epoch EXCEPT ![g] = @ + 1]
    /\ UNCHANGED <<envelopes, answer, adds, twice>>
----------------------------------------------------------------------------
\* The hash of the leaves; 32 zeros when there is none, whatever the group.
derive_epoch_secret(g) == leaf_secrets[g]

FaultyKey(g) == [secret |-> derive_epoch_secret(g), id |-> g]  \* without the epoch

\* derive_epoch_key.
Key(g) == [secret |-> derive_epoch_secret(g), id |-> g, epoch |-> epoch[g]]

encrypt_group_message(g, x) ==
    /\ epoch[g] > 0 /\ \A e \in envelopes : e.message # x
    /\ envelopes' = envelopes \cup {[message |-> x, session_id |-> g, key |-> Key(g),
                                     associated_data |-> <<g, epoch[g]>>]}
    /\ UNCHANGED <<group, answer, adds, twice>>

\* With the key of the present epoch: a message of an earlier one does not open.
decrypt_group_message(g, e) ==
    /\ answer' = [message |-> e.message, in |-> g,
                  opened |-> epoch[g] > 0 /\ e.session_id = g /\ e.key = Key(g)]
    /\ UNCHANGED <<group, envelopes, adds, twice>>

Next ==
    \E g \in Group :
       \/ create_group(g)
       \/ \E m \in Member : add_member(g, m) \/ remove_member(g, m)
       \/ \E x \in Message : encrypt_group_message(g, x)
       \/ \E e \in envelopes : decrypt_group_message(g, e)

Spec == Init /\ [][Next]_mvars
----------------------------------------------------------------------------
\* The index of each member is the position of a leaf made for that member,
\* whoever has been removed in between: remove_member erases that leaf and no
\* other, and never reaches beyond the end.
IndexFits ==
    \A g \in Group : \A m \in Members(g) :
        /\ member_index[g][m] \in DOMAIN leaf_secrets[g]
        /\ leaf_secrets[g][member_index[g][m]].of = m

\* A leaf that no index points to was left by somebody added twice: otherwise
\* the secret of an epoch is made from one leaf of each member, and whoever has
\* been removed has no part in it.
OrphansAreDuplicates ==
    \A g \in Group : \A i \in DOMAIN leaf_secrets[g] :
        LET m == leaf_secrets[g][i].of IN
        <<g, m>> \in twice \/ (m \in Members(g) /\ member_index[g][m] = i)

Sealed == {[message |-> e.message, group |-> e.associated_data[1],
            epoch |-> e.associated_data[2]] : e \in envelopes}

Channel == INSTANCE GroupChannel
    WITH members <- [g \in Group |-> Members(g)], sealed <- Sealed

\* The manager implements the group channel: the members are those with an
\* index, and the keys of two epochs never agree, though the members of an
\* epoch may be back to those of an earlier one.
ImplementsGroup == Channel!Spec
============================================================================
