--------------------------- MODULE MLSGroupProofs ---------------------------
(***************************************************************************)
(* What MLSGroup!Spec guarantees for any groups, members and messages and  *)
(* any number of calls.  The inductive invariant adds to the shapes of the *)
(* variables that every index fits, that a leaf without an index was left  *)
(* by somebody added twice, and that an envelope of the present epoch was  *)
(* sealed with the present leaves.                                         *)
(***************************************************************************)
EXTENDS MLSGroup, SequenceTheorems, TLAPS

Leaf == [of : Member, n : Nat]

Indices == UNION {[S -> Nat] : S \in SUBSET Member}

Shapes ==
    /\ epoch \in [Group -> Nat]
    /\ leaf_secrets \in [Group -> Seq(Leaf)]
    /\ member_index \in [Group -> Indices]
    /\ adds \in Nat

\* The parts of the invariants about one group.
Fits(g) ==
    \A m \in Members(g) :
        /\ member_index[g][m] \in DOMAIN leaf_secrets[g]
        /\ leaf_secrets[g][member_index[g][m]].of = m

Accounted(g) ==
    \A i \in DOMAIN leaf_secrets[g] :
        LET m == leaf_secrets[g][i].of IN
        <<g, m>> \in twice \/ (m \in Members(g) /\ member_index[g][m] = i)

\* An envelope carries the number of an epoch that has begun, and its key was
\* made from the leaves of that epoch.
Dated(e) ==
    LET g == e.session_id
        n == e.key.epoch IN
    /\ g \in Group /\ n \in Nat
    /\ e.associated_data = <<g, n>>
    /\ e.key = [secret |-> e.key.secret, id |-> g, epoch |-> n]
    /\ n > 0 /\ n <= epoch[g]
    /\ n = epoch[g] => e.key.secret = leaf_secrets[g]

EnvelopeInv == \A e \in envelopes : Dated(e)

\* What encrypt_group_message makes.
NewEnvelope(g, x) == [message |-> x, session_id |-> g, key |-> Key(g),
                      associated_data |-> <<g, epoch[g]>>]

IInv == Shapes /\ (\A g \in Group : Fits(g) /\ Accounted(g)) /\ EnvelopeInv
----------------------------------------------------------------------------
\* Erasing a leaf moves those behind it down by one.
LEMMA ErasedLeaves ==
    ASSUME NEW S, NEW s \in Seq(S), NEW i \in 1 .. Len(s)
    PROVE  /\ Erased(s, i) \in Seq(S)
           /\ Len(Erased(s, i)) = Len(s) - 1
           /\ \A p \in 1 .. Len(s) - 1 :
                 Erased(s, i)[p] = s[IF p < i THEN p ELSE p + 1]
<1> DEFINE a == SubSeq(s, 1, i - 1)
           b == SubSeq(s, i + 1, Len(s))
<1>1. Len(s) \in Nat /\ i \in Nat /\ \A p \in 1 .. Len(s) : s[p] \in S
    BY LenProperties, ElementOfSeq
<1>2. /\ a \in Seq(S)
      /\ Len(a) = i - 1
      /\ \A p \in 1 .. i - 1 : a[p] = s[p]
    <2>1. \A p \in 1 .. i - 1 : s[p] \in S
        BY <1>1
    <2>2. /\ a \in Seq(S)
          /\ Len(a) = IF 1 <= i - 1 THEN i - 1 - 1 + 1 ELSE 0
          /\ \A p \in 1 .. i - 1 - 1 + 1 : a[p] = s[1 + p - 1]
        BY <1>1, <2>1, SubSeqProperties
    <2> HIDE DEF a
    <2>3. QED BY <1>1, <2>2
<1>3. /\ b \in Seq(S)
      /\ Len(b) = Len(s) - i
      /\ \A p \in 1 .. Len(s) - i : b[p] = s[i + p]
    <2>1. \A p \in i + 1 .. Len(s) : s[p] \in S
        BY <1>1
    <2>2. /\ b \in Seq(S)
          /\ Len(b) = IF i + 1 <= Len(s) THEN Len(s) - (i + 1) + 1 ELSE 0
          /\ \A p \in 1 .. Len(s) - (i + 1) + 1 : b[p] = s[i + 1 + p - 1]
        BY <1>1, <2>1, SubSeqProperties
    <2> HIDE DEF b
    <2>3. QED BY <1>1, <2>2
<1>4. Erased(s, i) = a \o b
    BY DEF Erased
<1> HIDE DEF a, b
<1>5. /\ a \o b \in Seq(S)
      /\ Len(a \o b) = Len(a) + Len(b)
      /\ \A p \in 1 .. Len(a) + Len(b) :
            (a \o b)[p] = IF p <= Len(a) THEN a[p] ELSE b[p - Len(a)]
    BY <1>2, <1>3, ConcatProperties
<1>6. ASSUME NEW p \in 1 .. Len(s) - 1
      PROVE  (a \o b)[p] = s[IF p < i THEN p ELSE p + 1]
    <2>1. CASE p < i
        BY <1>1, <1>2, <1>3, <1>5, <2>1
    <2>2. CASE ~(p < i)
        <3>1. p - Len(a) \in 1 .. Len(s) - i /\ i + (p - Len(a)) = p + 1
            BY <1>1, <1>2, <2>2
        <3>2. (a \o b)[p] = b[p - Len(a)]
            BY <1>1, <1>2, <1>3, <1>5, <2>2
        <3>3. QED BY <1>3, <2>2, <3>1, <3>2
    <2>3. QED BY <2>1, <2>2
<1>7. QED BY <1>1, <1>2, <1>3, <1>4, <1>5, <1>6

\* Indices over fewer or more members are indices.
LEMMA IndexShape ==
    ASSUME NEW f, NEW S \in SUBSET Member, f \in [S -> Nat]
    PROVE  f \in Indices
BY DEF Indices

LEMMA MembersShape ==
    ASSUME Shapes, NEW g \in Group
    PROVE  Members(g) \in SUBSET Member /\ member_index[g] \in [Members(g) -> Nat]
BY DEF Shapes, Indices, Members
----------------------------------------------------------------------------
LEMMA InitIInv == Init => IInv
<1> SUFFICES ASSUME Init PROVE IInv
    OBVIOUS
<1>1. [m \in {} |-> 0] \in Indices
    <2>1. {} \in SUBSET Member /\ [m \in {} |-> 0] \in [{} -> Nat]
        OBVIOUS
    <2>2. QED BY <2>1, IndexShape
<1>2. Shapes
    BY <1>1, EmptySeq DEF Init, Shapes
<1>3. ASSUME NEW g \in Group PROVE Fits(g) /\ Accounted(g)
    <2>1. Members(g) = {}
        BY DEF Init, Members
    <2>2. DOMAIN leaf_secrets[g] = {}
        BY DEF Init
    <2>3. QED BY <2>1, <2>2 DEF Fits, Accounted
<1>4. EnvelopeInv
    BY DEF Init, EnvelopeInv
<1>5. QED BY <1>2, <1>3, <1>4 DEF IInv

\* Envelopes made before a change of the group belong to an earlier epoch.
LEMMA Aging ==
    ASSUME Shapes, EnvelopeInv, NEW g \in Group,
           epoch' = [epoch EXCEPT ![g] = @ + 1],
           \A h \in Group \ {g} : leaf_secrets'[h] = leaf_secrets[h],
           envelopes' = envelopes
    PROVE  EnvelopeInv'
<1> SUFFICES ASSUME NEW e \in envelopes PROVE Dated(e)'
    BY DEF EnvelopeInv
<1>1. Dated(e)
    BY DEF EnvelopeInv
<1>2. CASE e.session_id = g
    BY <1>1, <1>2 DEF Dated, Shapes
<1>3. CASE e.session_id # g
    BY <1>1, <1>3 DEF Dated, Shapes
<1>4. QED BY <1>2, <1>3

\* A step that leaves the members, the leaves and what was added twice alone.
LEMMA SameGroups ==
    ASSUME \A g \in Group : Fits(g) /\ Accounted(g),
           UNCHANGED <<leaf_secrets, member_index, twice>>
    PROVE  (\A g \in Group : Fits(g) /\ Accounted(g))'
BY DEF Fits, Accounted, Members

LEMMA CreateIInv ==
    ASSUME IInv, NEW g \in Group, create_group(g)
    PROVE  IInv'
<1>1. Shapes /\ EnvelopeInv
    BY DEF IInv
<1>2. Shapes'
    BY <1>1 DEF create_group, Shapes
<1>3. (\A h \in Group : Fits(h) /\ Accounted(h))'
    BY SameGroups DEF IInv, create_group
<1>4. epoch' = [epoch EXCEPT ![g] = @ + 1]
    BY <1>1 DEF create_group, Shapes
<1>5. EnvelopeInv'
    BY <1>1, <1>4, Aging DEF create_group
<1>6. QED BY <1>2, <1>3, <1>5 DEF IInv

LEMMA AddIInv ==
    ASSUME IInv, NEW g \in Group, NEW m \in Member, add_member(g, m)
    PROVE  IInv'
<1> DEFINE old == leaf_secrets[g]
           leaf == [of |-> m, n |-> adds]
           new == Append(old, leaf)
<1>1. Shapes /\ EnvelopeInv
    BY DEF IInv
<1>2. /\ Members(g) \in SUBSET Member
      /\ member_index[g] \in [Members(g) -> Nat]
    BY <1>1, MembersShape
<1>3. /\ old \in Seq(Leaf) /\ leaf \in Leaf
      /\ Len(old) \in Nat /\ DOMAIN old = 1 .. Len(old)
    BY <1>1, LenProperties DEF Shapes, Leaf
<1>4. /\ new \in Seq(Leaf)
      /\ DOMAIN new = 1 .. Len(old) + 1
      /\ \A i \in 1 .. Len(old) : new[i] = old[i]
      /\ new[Len(old) + 1] = leaf
    BY <1>3
<1>5. /\ leaf_secrets' = [leaf_secrets EXCEPT ![g] = new]
      /\ leaf_secrets'[g] = new
      /\ \A h \in Group \ {g} : leaf_secrets'[h] = leaf_secrets[h]
    BY <1>1 DEF add_member, Shapes
<1>6. /\ member_index' = [member_index EXCEPT ![g] = Emplaced(g, m, Len(old) + 1)]
      /\ member_index'[g] = Emplaced(g, m, Len(old) + 1)
      /\ \A h \in Group \ {g} : member_index'[h] = member_index[h]
    BY <1>1 DEF add_member, Shapes
<1> HIDE DEF new, leaf, old
<1>7. /\ Members(g)' = Members(g) \cup {m}
      /\ \A k \in Members(g) : member_index'[g][k] = member_index[g][k]
      /\ m \notin Members(g) => member_index'[g][m] = Len(old) + 1
    BY <1>6 DEF Emplaced, Members
<1>8. Emplaced(g, m, Len(old) + 1) \in [Members(g) \cup {m} -> Nat]
    BY <1>2, <1>3 DEF Emplaced
<1>9. Shapes'
    <2>1. Members(g) \cup {m} \in SUBSET Member
        BY <1>2
    <2>2. Emplaced(g, m, Len(old) + 1) \in Indices
        BY <1>8, <2>1, IndexShape
    <2>3. leaf_secrets' \in [Group -> Seq(Leaf)]
        BY <1>1, <1>4, <1>5 DEF Shapes
    <2>4. member_index' \in [Group -> Indices]
        BY <1>1, <1>6, <2>2 DEF Shapes
    <2>5. QED BY <1>1, <2>3, <2>4 DEF Shapes, add_member
<1>10. Fits(g)'
    <2> SUFFICES ASSUME NEW k \in Members(g)'
                 PROVE  /\ member_index'[g][k] \in DOMAIN new
                        /\ new[member_index'[g][k]].of = k
        BY <1>5 DEF Fits
    <2>1. CASE k \in Members(g)
        <3>1. /\ member_index[g][k] \in 1 .. Len(old)
              /\ old[member_index[g][k]].of = k
            BY <1>3, <2>1 DEF IInv, Fits, old
        <3>2. QED BY <1>3, <1>4, <1>7, <2>1, <3>1
    <2>2. CASE k \notin Members(g)
        BY <1>3, <1>4, <1>7, <2>2 DEF leaf
    <2>3. QED BY <2>1, <2>2
<1>11. /\ twice \in SUBSET twice'
       /\ m \in Members(g) => <<g, m>> \in twice'
    BY DEF add_member
<1>12. Accounted(g)'
    <2> SUFFICES ASSUME NEW i \in DOMAIN new
                 PROVE  \/ <<g, new[i].of>> \in twice'
                        \/ new[i].of \in Members(g)' /\ member_index'[g][new[i].of] = i
        BY <1>5 DEF Accounted
    <2>1. CASE i \in 1 .. Len(old)
        <3>1. \/ <<g, old[i].of>> \in twice
              \/ old[i].of \in Members(g) /\ member_index[g][old[i].of] = i
            BY <1>3, <2>1 DEF IInv, Accounted, old
        <3>2. QED BY <1>4, <1>7, <1>11, <2>1, <3>1
    <2>2. CASE i = Len(old) + 1
        BY <1>4, <1>7, <1>11, <2>2 DEF leaf
    <2>3. QED BY <1>3, <1>4, <2>1, <2>2
<1>13. ASSUME NEW h \in Group \ {g} PROVE Fits(h)' /\ Accounted(h)'
    <2>1. Fits(h) /\ Accounted(h)
        BY DEF IInv
    <2>2. Members(h)' = Members(h)
        BY <1>6 DEF Members
    <2>3. Fits(h)'
        BY <1>5, <1>6, <2>1, <2>2 DEF Fits
    <2>4. Accounted(h)'
        BY <1>5, <1>6, <1>11, <2>1, <2>2 DEF Accounted
    <2>5. QED BY <2>3, <2>4
<1>14. EnvelopeInv'
    BY <1>1, <1>5, Aging DEF add_member
<1>15. QED BY <1>9, <1>10, <1>12, <1>13, <1>14 DEF IInv

LEMMA RemoveIInv ==
    ASSUME IInv, NEW g \in Group, NEW m \in Member, remove_member(g, m)
    PROVE  IInv'
<1> DEFINE old == leaf_secrets[g]
           gone == member_index[g][m]
           new == Erased(old, gone)
           shifted == [k \in Members(g) \ {m} |-> Shifted(member_index[g][k], gone)]
<1>1. Shapes /\ EnvelopeInv
    BY DEF IInv
<1>2. /\ Members(g) \in SUBSET Member
      /\ member_index[g] \in [Members(g) -> Nat]
    BY <1>1, MembersShape
<1>3. old \in Seq(Leaf) /\ Len(old) \in Nat /\ DOMAIN old = 1 .. Len(old)
    BY <1>1, LenProperties DEF Shapes
<1>4. m \in Members(g) /\ gone \in 1 .. Len(old) /\ old[gone].of = m
    BY <1>3 DEF remove_member, IInv, Fits
<1>5. /\ leaf_secrets'[g] = new
      /\ leaf_secrets' = [leaf_secrets EXCEPT ![g] = new]
      /\ \A h \in Group \ {g} : leaf_secrets'[h] = leaf_secrets[h]
    BY <1>1 DEF remove_member, Shapes
<1>6. /\ member_index' = [member_index EXCEPT ![g] = shifted]
      /\ member_index'[g] = shifted
      /\ \A h \in Group \ {g} : member_index'[h] = member_index[h]
    BY <1>1 DEF remove_member, Shapes
<1>7. /\ new \in Seq(Leaf)
      /\ Len(new) = Len(old) - 1
      /\ \A p \in 1 .. Len(old) - 1 : new[p] = old[IF p < gone THEN p ELSE p + 1]
    BY <1>3, <1>4, ErasedLeaves
<1>8. DOMAIN new = 1 .. Len(old) - 1
    <2> HIDE DEF new
    <2>1. DOMAIN new = 1 .. Len(new)
        BY <1>7, LenProperties
    <2>2. QED BY <1>7, <2>1
<1>9. /\ Members(g)' = Members(g) \ {m}
      /\ \A k \in Members(g) \ {m} :
            member_index'[g][k] = IF member_index[g][k] > gone
                                  THEN member_index[g][k] - 1 ELSE member_index[g][k]
    BY <1>6 DEF Shifted, Members
<1>10. ASSUME NEW k \in Members(g) \ {m}
       PROVE  /\ member_index[g][k] \in 1 .. Len(old)
              /\ old[member_index[g][k]].of = k
              /\ member_index[g][k] # gone
    BY <1>3, <1>4 DEF IInv, Fits
<1>11. Shapes'
    <2>1. shifted \in [Members(g) \ {m} -> Nat]
        BY <1>2, <1>3, <1>4, <1>10 DEF Shifted
    <2>2. Members(g) \ {m} \in SUBSET Member
        BY <1>2
    <2> HIDE DEF shifted, new
    <2>3. shifted \in Indices
        BY <2>1, <2>2, IndexShape
    <2>4. leaf_secrets' \in [Group -> Seq(Leaf)]
        BY <1>1, <1>5, <1>7 DEF Shapes
    <2>5. member_index' \in [Group -> Indices]
        BY <1>1, <1>6, <2>3 DEF Shapes
    <2>6. QED BY <1>1, <2>4, <2>5 DEF Shapes, remove_member
<1> HIDE DEF new, shifted
<1>12. Fits(g)'
    <2> SUFFICES ASSUME NEW k \in Members(g) \ {m}
                 PROVE  /\ member_index'[g][k] \in DOMAIN new
                        /\ new[member_index'[g][k]].of = k
        BY <1>5, <1>9 DEF Fits
    <2> DEFINE i == member_index[g][k]
    <2>1. i \in 1 .. Len(old) /\ old[i].of = k /\ i # gone
        BY <1>10
    <2>2. member_index'[g][k] = IF i > gone THEN i - 1 ELSE i
        BY <1>9
    <2> HIDE DEF i, old, gone
    <2>3. CASE i > gone
        <3>1. i - 1 \in 1 .. Len(old) - 1 /\ ~(i - 1 < gone) /\ i - 1 + 1 = i
            BY <1>3, <1>4, <2>1, <2>3
        <3>2. new[i - 1] = old[i]
            BY <1>7, <3>1
        <3>3. QED BY <1>8, <2>1, <2>2, <2>3, <3>1, <3>2
    <2>4. CASE ~(i > gone)
        <3>1. i \in 1 .. Len(old) - 1 /\ i < gone
            BY <1>3, <1>4, <2>1, <2>4
        <3>2. new[i] = old[i]
            BY <1>7, <3>1
        <3>3. QED BY <1>8, <2>1, <2>2, <2>4, <3>1, <3>2
    <2>5. QED BY <2>3, <2>4
<1>13. twice' = twice
    BY DEF remove_member
<1>14. Accounted(g)'
    <2> SUFFICES ASSUME NEW p \in DOMAIN new
                 PROVE  \/ <<g, new[p].of>> \in twice
                        \/ new[p].of \in Members(g)' /\ member_index'[g][new[p].of] = p
        BY <1>5, <1>13 DEF Accounted
    <2> DEFINE q == IF p < gone THEN p ELSE p + 1
               k == old[q].of
    <2>1. q \in 1 .. Len(old) /\ q # gone
        BY <1>3, <1>4, <1>8
    <2>2. new[p].of = k
        BY <1>7, <1>8
    <2>3. <<g, k>> \in twice \/ (k \in Members(g) /\ member_index[g][k] = q)
        BY <1>3, <2>1 DEF IInv, Accounted
    <2>4. CASE k \in Members(g) /\ member_index[g][k] = q
        <3>1. k \in Members(g) \ {m}
            BY <2>1, <2>4
        <3>2. member_index'[g][k] = IF q > gone THEN q - 1 ELSE q
            BY <1>9, <2>4, <3>1
        <3>3. (IF q > gone THEN q - 1 ELSE q) = p
            BY <1>3, <1>4, <1>8
        <3>4. QED BY <1>9, <2>2, <3>1, <3>2, <3>3
    <2>5. QED BY <2>2, <2>3, <2>4
<1>15. ASSUME NEW h \in Group \ {g} PROVE Fits(h)' /\ Accounted(h)'
    <2>1. Fits(h) /\ Accounted(h)
        BY DEF IInv
    <2>2. Members(h)' = Members(h)
        BY <1>6 DEF Members
    <2>3. Fits(h)'
        BY <1>5, <1>6, <2>1, <2>2 DEF Fits
    <2>4. Accounted(h)'
        BY <1>5, <1>6, <1>13, <2>1, <2>2 DEF Accounted
    <2>5. QED BY <2>3, <2>4
<1>16. EnvelopeInv'
    BY <1>1, <1>5, Aging DEF remove_member
<1>17. QED BY <1>11, <1>12, <1>14, <1>15, <1>16 DEF IInv

LEMMA EncryptIInv ==
    ASSUME IInv, NEW g \in Group, NEW x \in Message, encrypt_group_message(g, x)
    PROVE  IInv'
<1>1. Shapes /\ EnvelopeInv
    BY DEF IInv
<1>2. Shapes'
    BY <1>1 DEF encrypt_group_message, group, Shapes
<1>3. (\A h \in Group : Fits(h) /\ Accounted(h))'
    BY SameGroups DEF IInv, encrypt_group_message, group
<1>4. ASSUME NEW e \in envelopes PROVE Dated(e)'
    BY <1>1 DEF EnvelopeInv, Dated, encrypt_group_message, group
<1>5. Dated(NewEnvelope(g, x))'
    BY <1>1 DEF Dated, encrypt_group_message, group, NewEnvelope, Key, derive_epoch_secret, Shapes
<1>6. EnvelopeInv'
    <2> SUFFICES ASSUME NEW e \in envelopes' PROVE Dated(e)'
        BY DEF EnvelopeInv
    <2>1. CASE e \in envelopes
        BY <1>4, <2>1
    <2>2. CASE e = NewEnvelope(g, x)
        <3>1. Dated(e)' <=> Dated(NewEnvelope(g, x))'
            BY <2>2 DEF Dated, NewEnvelope, encrypt_group_message, group, Key, derive_epoch_secret
        <3>2. QED BY <1>5, <3>1
    <2>3. QED BY <2>1, <2>2 DEF encrypt_group_message, NewEnvelope
<1>7. QED BY <1>2, <1>3, <1>6 DEF IInv

\* Opening a message and doing nothing change none of what IInv is about.
LEMMA IdleIInv ==
    ASSUME IInv, UNCHANGED <<group, envelopes, adds, twice>>
    PROVE  IInv'
<1>1. Shapes'
    BY DEF IInv, Shapes, group
<1>2. (\A h \in Group : Fits(h) /\ Accounted(h))'
    BY SameGroups DEF IInv, group
<1>3. EnvelopeInv'
    BY DEF IInv, EnvelopeInv, Dated, group
<1>4. QED BY <1>1, <1>2, <1>3 DEF IInv

LEMMA StepIInv == IInv /\ [Next]_mvars => IInv'
<1> SUFFICES ASSUME IInv, [Next]_mvars PROVE IInv'
    OBVIOUS
<1>1. ASSUME NEW g \in Group, create_group(g) PROVE IInv'
    BY <1>1, CreateIInv
<1>2. ASSUME NEW g \in Group, NEW m \in Member, add_member(g, m) PROVE IInv'
    BY <1>2, AddIInv
<1>3. ASSUME NEW g \in Group, NEW m \in Member, remove_member(g, m) PROVE IInv'
    BY <1>3, RemoveIInv
<1>4. ASSUME NEW g \in Group, NEW x \in Message, encrypt_group_message(g, x) PROVE IInv'
    BY <1>4, EncryptIInv
<1>5. ASSUME NEW g \in Group, NEW e \in envelopes, decrypt_group_message(g, e) PROVE IInv'
    BY <1>5, IdleIInv DEF decrypt_group_message
<1>6. CASE UNCHANGED mvars
    BY <1>6, IdleIInv DEF mvars, group
<1>7. QED BY <1>1, <1>2, <1>3, <1>4, <1>5, <1>6 DEF Next

\* The inductive invariant holds in every reachable state.
THEOREM GroupInvariance == Spec => []IInv
BY InitIInv, StepIInv, PTL DEF Spec

\* For any groups and members, and any sequence of joins, double joins and
\* removals, the index of a member points at a leaf made for that member:
\* remove_member never erases the leaf of another, nor beyond the end.
THEOREM IndexFitsHolds == Spec => []IndexFits
<1>1. IInv => IndexFits
    BY DEF IInv, Fits, IndexFits
<1>2. QED BY <1>1, GroupInvariance, PTL

\* A leaf outside the index was left by somebody who was added twice; without
\* double joins nobody who was removed has a part in the epoch's secret.
THEOREM OrphansAreDuplicatesHolds == Spec => []OrphansAreDuplicates
<1>1. IInv => OrphansAreDuplicates
    BY DEF IInv, Accounted, OrphansAreDuplicates
<1>2. QED BY <1>1, GroupInvariance, PTL
----------------------------------------------------------------------------
Membership == [g \in Group |-> Members(g)]

SealedFrom(e) == [message |-> e.message, group |-> e.associated_data[1],
                  epoch |-> e.associated_data[2]]

LEMMA InitChannel == Init => Channel!Init
<1> SUFFICES ASSUME Init PROVE Channel!Init
    OBVIOUS
<1>1. epoch = [g \in Group |-> 0] /\ answer = [opened |-> FALSE] /\ envelopes = {}
    BY DEF Init
<1>2. [g \in Group |-> Members(g)] = [g \in Group |-> {}]
    BY DEF Init, Members
<1>3. QED BY <1>1, <1>2 DEF Channel!Init, Channel!NoAnswer, Sealed

\* When the envelopes stay, so does what is sealed.
LEMMA SealedStays == envelopes' = envelopes => Sealed' = Sealed
BY DEF Sealed

LEMMA AddJoins ==
    ASSUME IInv, NEW g \in Group, NEW m \in Member, add_member(g, m)
    PROVE  Channel!Join(g, m)
<1>1. \A h \in Group : Members(h)' = IF h = g THEN Members(g) \cup {m} ELSE Members(h)
    BY DEF IInv, Shapes, add_member, Emplaced, Members
<1>2. Membership' = [Membership EXCEPT ![g] = @ \cup {m}]
    BY <1>1 DEF Membership
<1>3. Sealed' = Sealed
    BY SealedStays DEF add_member
<1>4. QED BY <1>2, <1>3 DEF Channel!Join, Channel!Advance, add_member, Membership

LEMMA RemoveLeaves ==
    ASSUME IInv, NEW g \in Group, NEW m \in Member, remove_member(g, m)
    PROVE  Channel!Leave(g, m)
<1>1. \A h \in Group : Members(h)' = IF h = g THEN Members(g) \ {m} ELSE Members(h)
    BY DEF IInv, Shapes, remove_member, Members
<1>2. Membership' = [Membership EXCEPT ![g] = @ \ {m}]
    BY <1>1 DEF Membership
<1>3. Sealed' = Sealed
    BY SealedStays DEF remove_member
<1>4. m \in Membership[g]
    BY DEF remove_member, Membership
<1>5. QED BY <1>2, <1>3, <1>4 DEF Channel!Leave, Channel!Advance, remove_member, Membership

LEMMA SameMembership == UNCHANGED group => Membership' = Membership
BY DEF group, Membership, Members

LEMMA EncryptSeals ==
    ASSUME IInv, NEW g \in Group, NEW x \in Message, encrypt_group_message(g, x)
    PROVE  Channel!Seal(g, x)
<1>1. Membership' = Membership
    BY SameMembership DEF encrypt_group_message
<1>2. SealedFrom(NewEnvelope(g, x)) = [message |-> x, group |-> g, epoch |-> epoch[g]]
    BY DEF SealedFrom, NewEnvelope
<1>3. Sealed' = Sealed \cup {SealedFrom(NewEnvelope(g, x))}
    BY DEF Sealed, SealedFrom, encrypt_group_message, NewEnvelope
<1>4. \A s \in Sealed : s.message # x
    BY DEF Sealed, encrypt_group_message
<1>5. epoch[g] > 0 /\ epoch' = epoch /\ answer' = answer
    BY DEF encrypt_group_message, group
<1>6. QED BY <1>1, <1>2, <1>3, <1>4, <1>5 DEF Channel!Seal, Membership

\* The keys agree exactly when the group and the epoch do.
LEMMA DecryptOpens ==
    ASSUME IInv, NEW g \in Group, NEW e \in envelopes, decrypt_group_message(g, e)
    PROVE  Channel!Open(g, SealedFrom(e)) /\ SealedFrom(e) \in Sealed
<1>1. Dated(e) /\ epoch[g] \in Nat
    BY DEF IInv, EnvelopeInv, Shapes
<1> DEFINE n == e.key.epoch
           opened == epoch[g] > 0 /\ e.session_id = g /\ e.key = Key(g)
           matches == e.session_id = g /\ n = epoch[g]
<1>2. /\ SealedFrom(e).message = e.message
      /\ SealedFrom(e).group = e.session_id
      /\ SealedFrom(e).epoch = n
    BY <1>1 DEF Dated, SealedFrom
<1>3. opened => matches
    BY DEF Key
<1>4. ASSUME matches PROVE opened
    <2>1. e.key.secret = leaf_secrets[g] /\ n > 0
        BY <1>1, <1>4 DEF Dated
    <2>2. e.key = [secret |-> e.key.secret, id |-> g, epoch |-> epoch[g]]
        BY <1>1, <1>4 DEF Dated
    <2>3. QED BY <1>4, <2>1, <2>2 DEF Key, derive_epoch_secret
<1>5. opened <=> matches
    BY <1>3, <1>4
<1>6. answer' = [message |-> e.message, in |-> g, opened |-> opened]
    BY DEF decrypt_group_message
<1>7. Membership' = Membership /\ Sealed' = Sealed /\ epoch' = epoch
    BY SameMembership, SealedStays DEF decrypt_group_message, group
<1> HIDE DEF opened
<1>8. answer' = [message |-> SealedFrom(e).message, in |-> g,
                 opened |-> SealedFrom(e).group = g /\ SealedFrom(e).epoch = epoch[g]]
    BY <1>2, <1>5, <1>6
<1>9. SealedFrom(e) \in Sealed
    BY DEF Sealed, SealedFrom
<1>10. QED BY <1>7, <1>8, <1>9 DEF Channel!Open, Membership

\* MLSManager implements the group channel: whatever the joins and removals
\* before it, a message opens in the epoch it was sealed in and in no other.
THEOREM GroupRefinement == Spec => ImplementsGroup
<1>1. Init => Channel!Init
    BY InitChannel
<1>2. IInv /\ [Next]_mvars => [Channel!Next]_Channel!gvars
    <2> SUFFICES ASSUME IInv, [Next]_mvars PROVE [Channel!Next]_Channel!gvars
        OBVIOUS
    <2>1. ASSUME NEW g \in Group, create_group(g) PROVE Channel!Create(g)
        <3>1. epoch' = [epoch EXCEPT ![g] = @ + 1]
            BY <2>1 DEF create_group, IInv, Shapes
        <3>2. Sealed' = Sealed
            BY <2>1, SealedStays DEF create_group
        <3>3. Membership' = Membership
            BY <2>1 DEF create_group, Membership, Members
        <3>4. QED BY <2>1, <3>1, <3>2, <3>3 DEF create_group, Channel!Create, Channel!Advance, Membership
    <2>2. ASSUME NEW g \in Group, NEW m \in Member, add_member(g, m) PROVE Channel!Join(g, m)
        BY <2>2, AddJoins
    <2>3. ASSUME NEW g \in Group, NEW m \in Member, remove_member(g, m) PROVE Channel!Leave(g, m)
        BY <2>3, RemoveLeaves
    <2>4. ASSUME NEW g \in Group, NEW x \in Message, encrypt_group_message(g, x) PROVE Channel!Seal(g, x)
        BY <2>4, EncryptSeals
    <2>5. ASSUME NEW g \in Group, NEW e \in envelopes, decrypt_group_message(g, e)
          PROVE  \E s \in Sealed : Channel!Open(g, s)
        BY <2>5, DecryptOpens
    <2>6. CASE UNCHANGED mvars
        <3>1. Sealed' = Sealed /\ Membership' = Membership
            BY <2>6, SealedStays, SameMembership DEF mvars, group
        <3>2. QED BY <2>6, <3>1 DEF mvars, Channel!gvars, Membership
    <2>7. QED BY <2>1, <2>2, <2>3, <2>4, <2>5, <2>6 DEF Next, Channel!Next
<1>3. QED BY <1>1, <1>2, GroupInvariance, PTL DEF Spec, ImplementsGroup, Channel!Spec
============================================================================
