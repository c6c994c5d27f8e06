----------------------------- MODULE SetupProofs -----------------------------
(***************************************************************************)
(* What a workspace sets up before it sends, for any of the constants.     *)
(* Its contact book: the number on a list is its people, and a campaign's  *)
(* audience adds up, however both are edited; and who pages through it     *)
(* sees every row that stays once, whatever is written between the pages.  *)
(* Its sending domain: an address is ready only once the provider and the  *)
(* DNS have confirmed this very row of its domain, however many requests   *)
(* check, remove and add it again, and whatever is answered.  Its          *)
(* templates: a version names one content, in the row and in every copy of *)
(* it.  And of an accepted domain every name a check asks for can be       *)
(* looked up.                                                              *)
(***************************************************************************)
EXTENDS Audience, Sender, TemplateVersions, FiniteSetTheorems, TLAPS

(***************************************************************************)
(* The contact book.                                                       *)
(***************************************************************************)

\* What the tables hold.
TablesTyped ==
    /\ book \in [ContactIds -> ContactRow \cup {NoContact}]
    /\ lists \in [Lists -> [live : BOOLEAN, count : Nat, used : BOOLEAN]]
    /\ Live \subseteq gone

\* list_members references both tables: a membership is of a list that is there
\* and of a contact that is there.
MembershipsReferToRows ==
    \A m \in members : m \in Lists \X ContactIds /\ lists[m[1]].live /\ m[2] \in Live

\* uq_contacts_ws_email.
OneContactPerAddress == \A c, d \in Live : EmailOf(c) = EmailOf(d) => c = d

\* The counter of a list is the number of its rows, of which there are finitely
\* many.
CounterIsRows == \A l \in Lists : IsFiniteSet(On(l)) /\ lists[l].count = Cardinality(On(l))

AudienceInv == TablesTyped /\ MembershipsReferToRows /\ OneContactPerAddress /\ CounterIsRows

-----------------------------------------------------------------------------
\* A row of a contact is not the absence of one.
LEMMA RowIsThere == NoContact \notin ContactRow
BY DEF NoContact, ContactRow, Statuses

\* Who is on a list is who its memberships name.
LEMMA OnIsMembers ==
    ASSUME AudienceInv, NEW l \in Lists
    PROVE  On(l) = {c \in ContactIds : <<l, c>> \in members}
BY DEF AudienceInv, MembershipsReferToRows, On, Live

\* Removing some memberships takes from each list's counter the number it loses.
LEMMA UncountedCounts ==
    ASSUME AudienceInv, NEW removed, removed \subseteq members, NEW l \in Lists,
           NEW c, \A m \in removed : m[1] = l => m[2] = c
    PROVE  /\ Uncounted(removed)[l].live = lists[l].live
           /\ Uncounted(removed)[l] \in [live : BOOLEAN, count : Nat, used : BOOLEAN]
           /\ Uncounted(removed)[l].count =
                Cardinality(IF <<l, c>> \in removed THEN On(l) \ {c} ELSE On(l))
           /\ IsFiniteSet(IF <<l, c>> \in removed THEN On(l) \ {c} ELSE On(l))
<1> DEFINE lost == {m \in removed : m[1] = l}
<1>1. lists[l] \in [live : BOOLEAN, count : Nat, used : BOOLEAN]
    BY DEF AudienceInv, TablesTyped
<1>2. IsFiniteSet(On(l)) /\ lists[l].count = Cardinality(On(l)) /\ Cardinality(On(l)) \in Nat
    BY FS_CardinalityType DEF AudienceInv, CounterIsRows
<1>3. \A m \in removed : m = <<m[1], m[2]>>
    BY DEF AudienceInv, MembershipsReferToRows
<1>4. lost = IF <<l, c>> \in removed THEN {<<l, c>>} ELSE {}
    BY <1>3
<1>5. Uncounted(removed)[l] = [lists[l] EXCEPT !.count = Less(@, Cardinality(lost))]
    BY DEF Uncounted
<1> HIDE DEF lost
<1>6. CASE <<l, c>> \in removed
    <2>1. c \in On(l)
        BY <1>6 DEF AudienceInv, MembershipsReferToRows, On, Live
    <2>2. Cardinality(lost) = 1
        BY <1>4, <1>6, FS_Singleton
    <2>3. Cardinality(On(l) \ {c}) = Cardinality(On(l)) - 1 /\ IsFiniteSet(On(l) \ {c})
        BY <1>2, <2>1, FS_RemoveElement
    <2>4. Cardinality(On(l) \ {c}) \in Nat
        BY <2>3, FS_CardinalityType
    <2>5. Less(lists[l].count, Cardinality(lost)) = Cardinality(On(l) \ {c})
        BY <1>2, <2>2, <2>3, <2>4 DEF Less
    <2> QED
        BY <1>1, <1>5, <1>6, <2>3, <2>4, <2>5
<1>7. CASE <<l, c>> \notin removed
    <2>1. Cardinality(lost) = 0
        BY <1>4, <1>7, FS_EmptySet
    <2>2. Less(lists[l].count, Cardinality(lost)) = Cardinality(On(l))
        BY <1>2, <2>1 DEF Less
    <2> QED
        BY <1>1, <1>2, <1>5, <1>7, <2>2
<1> QED
    BY <1>6, <1>7

\* A write that only moves statuses changes no membership.
LEMMA StatusStep ==
    ASSUME AudienceInv, UNCHANGED <<lists, members, gone>>,
           book' \in [ContactIds -> ContactRow \cup {NoContact}],
           \A c \in ContactIds : book'[c] = NoContact <=> book[c] = NoContact,
           \A c, d \in Live : EmailOf(c)' = EmailOf(d)' => c = d
    PROVE  AudienceInv'
<1>1. Live' = Live /\ \A l \in Lists : On(l)' = On(l)
    BY DEF Live, On
<1>2. TablesTyped'
    BY <1>1 DEF AudienceInv, TablesTyped
<1>3. MembershipsReferToRows' /\ CounterIsRows'
    BY <1>1 DEF AudienceInv, MembershipsReferToRows, CounterIsRows
<1>4. OneContactPerAddress'
    BY <1>1 DEF OneContactPerAddress
<1> QED
    BY <1>2, <1>3, <1>4 DEF AudienceInv

\* So does the trigger that mirrors a suppression.
LEMMA MirroredStep ==
    ASSUME AudienceInv, UNCHANGED <<lists, members, gone>>,
           NEW e, NEW from \in Statuses, NEW to \in Statuses, book' = Mirrored(e, from, to)
    PROVE  AudienceInv'
<1>1. \A c \in ContactIds : book[c] \in ContactRow \cup {NoContact}
    BY DEF AudienceInv, TablesTyped
<1>2. ASSUME NEW c \in ContactIds
      PROVE  /\ book'[c] \in ContactRow \cup {NoContact}
             /\ book'[c] = NoContact <=> book[c] = NoContact
             /\ book'[c].email = book[c].email
    <2>1. book'[c] = IF book[c].email = e /\ book[c].status = from
                     THEN [book[c] EXCEPT !.status = to] ELSE book[c]
        BY DEF Mirrored, EmailOf
    <2>2. CASE book[c] = NoContact
        BY <2>1, <2>2 DEF NoContact, Statuses
    <2>3. CASE book[c] \in ContactRow
        BY <2>1, <2>3 DEF ContactRow, NoContact, Statuses
    <2> QED
        BY <1>1, <2>2, <2>3
<1>3. book' \in [ContactIds -> ContactRow \cup {NoContact}]
    BY <1>2 DEF Mirrored
<1>4. \A c, d \in Live : EmailOf(c)' = EmailOf(d)' => c = d
    BY <1>2 DEF AudienceInv, OneContactPerAddress, EmailOf, Live
<1> QED
    BY <1>2, <1>3, <1>4, StatusStep

\* At first every list holds the whole book.
LEMMA AudienceInitInv == AudienceInit => AudienceInv
<1> SUFFICES ASSUME AudienceInit PROVE AudienceInv
    OBVIOUS
<1>1. Live = DOMAIN StartBook
    BY StartBookIsATable, RowIsThere DEF AudienceInit, Live
<1>2. \A c \in DOMAIN StartBook : book[c] = StartBook[c]
    BY StartBookIsATable DEF AudienceInit
<1>3. \A l \in Lists : On(l) = DOMAIN StartBook
    BY <1>1 DEF AudienceInit, On
<1>4. Cardinality(DOMAIN StartBook) \in Nat
    BY StartBookIsATable, FS_CardinalityType
<1>5. TablesTyped
    BY <1>1, <1>4, StartBookIsATable DEF AudienceInit, TablesTyped
<1>6. MembershipsReferToRows
    BY <1>1, StartBookIsATable DEF AudienceInit, MembershipsReferToRows
<1>7. OneContactPerAddress
    BY <1>1, <1>2, StartBookIsATable DEF OneContactPerAddress, EmailOf
<1>8. CounterIsRows
    BY <1>3, StartBookIsATable DEF AudienceInit, CounterIsRows
<1> QED
    BY <1>5, <1>6, <1>7, <1>8 DEF AudienceInv

\* A new contact is on no list.
LEMMA CreateContactStep ==
    ASSUME AudienceInv, NEW c \in ContactIds, NEW e \in Emails, NEW at \in Stamps, CreateContact(c, e, at)
    PROVE  AudienceInv'
<1> DEFINE new == [email |-> e, status |-> "active", at |-> at]
<1>1. new \in ContactRow
    BY DEF ContactRow, Statuses
<1>2. c \notin Live /\ Live' = Live \cup {c}
    BY <1>1, RowIsThere DEF CreateContact, AudienceInv, TablesTyped, Live
<1>3. \A l \in Lists : On(l)' = On(l)
    BY <1>2 DEF CreateContact, AudienceInv, MembershipsReferToRows, On
<1>4. TablesTyped'
    BY <1>1, <1>2 DEF CreateContact, AudienceInv, TablesTyped
<1>5. MembershipsReferToRows' /\ CounterIsRows'
    BY <1>2, <1>3 DEF CreateContact, AudienceInv, MembershipsReferToRows, CounterIsRows
<1>6. OneContactPerAddress'
    <2>1. \A d \in Live : EmailOf(d)' = EmailOf(d) /\ EmailOf(d) # e
        BY <1>2 DEF CreateContact, Taken, EmailOf, AudienceInv, TablesTyped, Live
    <2>2. EmailOf(c)' = e
        BY DEF CreateContact, EmailOf, AudienceInv, TablesTyped
    <2> QED
        BY <1>2, <2>1, <2>2 DEF AudienceInv, OneContactPerAddress
<1> QED
    BY <1>4, <1>5, <1>6 DEF AudienceInv

\* An edit gives no contact the address of another.
LEMMA UpdateContactStep ==
    ASSUME AudienceInv, NEW c \in ContactIds, NEW e \in Emails, UpdateContact(c, e)
    PROVE  AudienceInv'
<1>1. book[c] \in ContactRow /\ book' = [book EXCEPT ![c] = [book[c] EXCEPT !.email = e]]
    BY DEF UpdateContact, AudienceInv, TablesTyped, Live
<1>2. [book[c] EXCEPT !.email = e] \in ContactRow
    BY <1>1 DEF ContactRow
<1>3. book' \in [ContactIds -> ContactRow \cup {NoContact}]
    BY <1>1, <1>2 DEF AudienceInv, TablesTyped
<1>4. \A d \in ContactIds : book'[d] = NoContact <=> book[d] = NoContact
    BY <1>1, <1>2, RowIsThere DEF AudienceInv, TablesTyped
<1>5. EmailOf(c)' = e /\ \A d \in Live \ {c} : EmailOf(d)' = EmailOf(d) /\ EmailOf(d) # e
    BY <1>1 DEF UpdateContact, Taken, EmailOf, AudienceInv, TablesTyped, Live, ContactRow
<1>6. \A d, f \in Live : EmailOf(d)' = EmailOf(f)' => d = f
    BY <1>5 DEF AudienceInv, OneContactPerAddress
<1> QED
    BY <1>3, <1>4, <1>6, StatusStep DEF UpdateContact

\* A step that removes memberships, and perhaps the contact they were of, keeps
\* every counter right.
LEMMA RemovalStep ==
    ASSUME AudienceInv, NEW c \in ContactIds, NEW removed, removed \subseteq members,
           \A m \in removed : m[2] = c,
           members' = members \ removed, lists' = Uncounted(removed), gone' = gone,
           \/ book' = book
           \/ book' = [book EXCEPT ![c] = NoContact] /\ \A m \in members : m[2] = c => m \in removed
    PROVE  AudienceInv'
<1>1. /\ book' \in [ContactIds -> ContactRow \cup {NoContact}]
      /\ \A d \in ContactIds : d # c => book'[d] = book[d]
      /\ Live' \subseteq Live /\ Live \ {c} \subseteq Live'
    BY DEF AudienceInv, TablesTyped, Live
<1>2. \A l \in Lists : /\ lists'[l] \in [live : BOOLEAN, count : Nat, used : BOOLEAN]
                       /\ lists'[l].live = lists[l].live
    <2> TAKE l \in Lists
    <2>1. \A m \in removed : m[1] = l => m[2] = c
        OBVIOUS
    <2>2. /\ Uncounted(removed)[l].live = lists[l].live
          /\ Uncounted(removed)[l] \in [live : BOOLEAN, count : Nat, used : BOOLEAN]
        BY <2>1, UncountedCounts, Zenon
    <2> QED
        BY <2>2
<1>3. TablesTyped'
    BY <1>1, <1>2 DEF AudienceInv, TablesTyped, Uncounted
<1>4. MembershipsReferToRows'
    <2> SUFFICES ASSUME NEW m \in members'
                 PROVE  m \in Lists \X ContactIds /\ lists'[m[1]].live /\ m[2] \in Live'
        BY DEF MembershipsReferToRows
    <2>1. m \in Lists \X ContactIds /\ lists[m[1]].live /\ m[2] \in Live /\ m \notin removed
        BY DEF AudienceInv, MembershipsReferToRows
    <2>2. m[2] \in Live'
        BY <1>1, <2>1 DEF Live
    <2> QED
        BY <1>2, <2>1, <2>2
<1>5. ASSUME NEW l \in Lists
      PROVE  On(l)' = IF <<l, c>> \in removed THEN On(l) \ {c} ELSE On(l)
    <2>1. On(l)' = {d \in ContactIds : <<l, d>> \in members'}
        BY <1>4 DEF On, MembershipsReferToRows, Live
    <2>2. \A d : <<l, d>> \in removed => d = c
        OBVIOUS
    <2> QED
        BY <2>1, <2>2, OnIsMembers
<1>6. CounterIsRows'
    <2> SUFFICES ASSUME NEW l \in Lists
                 PROVE  IsFiniteSet(On(l)') /\ lists'[l].count = Cardinality(On(l)')
        BY DEF CounterIsRows
    <2>1. /\ Uncounted(removed)[l].count = Cardinality(IF <<l, c>> \in removed THEN On(l) \ {c} ELSE On(l))
          /\ IsFiniteSet(IF <<l, c>> \in removed THEN On(l) \ {c} ELSE On(l))
        BY UncountedCounts
    <2> QED
        BY <1>5, <2>1
<1>7. OneContactPerAddress'
    <2>1. \A d \in Live' : book'[d] = book[d]
        BY <1>1 DEF Live, AudienceInv, TablesTyped
    <2> QED
        BY <1>1, <2>1 DEF AudienceInv, OneContactPerAddress, EmailOf
<1> QED
    BY <1>3, <1>4, <1>6, <1>7 DEF AudienceInv

\* A list that is made, or is deleted, is empty.
LEMMA ListStep ==
    ASSUME AudienceInv, NEW l \in Lists, UNCHANGED <<book, gone>>, NEW live \in BOOLEAN,
           lists' = [lists EXCEPT ![l] = [live |-> live, count |-> 0, used |-> FALSE]],
           members' = {m \in members : m[1] # l}
    PROVE  AudienceInv'
<1>1. Live' = Live
    BY DEF Live
<1>2. TablesTyped'
    BY <1>1 DEF AudienceInv, TablesTyped
<1>3. MembershipsReferToRows'
    BY <1>1 DEF AudienceInv, MembershipsReferToRows, TablesTyped
<1>4. On(l)' = {} /\ \A k \in Lists \ {l} : On(k)' = On(k)
    BY <1>1 DEF On
<1>5. CounterIsRows'
    BY <1>4, FS_EmptySet DEF AudienceInv, CounterIsRows, TablesTyped
<1>6. OneContactPerAddress'
    BY <1>1 DEF AudienceInv, OneContactPerAddress, EmailOf
<1> QED
    BY <1>2, <1>3, <1>5, <1>6 DEF AudienceInv

\* Adding a member counts it once, however often it is added.
LEMMA AddListMemberStep ==
    ASSUME AudienceInv, NEW l \in Lists, NEW c \in ContactIds, AddListMember(l, c)
    PROVE  AudienceInv'
<1>1. Live' = Live /\ c \in Live /\ lists[l].live
    BY DEF AddListMember, Live
<1>2. lists[l] \in [live : BOOLEAN, count : Nat, used : BOOLEAN] /\ lists \in [Lists -> [live : BOOLEAN, count : Nat, used : BOOLEAN]]
    BY DEF AudienceInv, TablesTyped
<1>3. On(l)' = On(l) \cup {c} /\ \A k \in Lists \ {l} : On(k)' = On(k)
    BY <1>1 DEF AddListMember, On
<1>4. c \in On(l) <=> <<l, c>> \in members
    BY <1>1 DEF On
<1>5. IsFiniteSet(On(l)') /\ Cardinality(On(l)') = IF c \in On(l) THEN Cardinality(On(l)) ELSE Cardinality(On(l)) + 1
    BY <1>3, FS_AddElement DEF AudienceInv, CounterIsRows
<1>6. /\ lists' = [lists EXCEPT ![l] = [lists[l] EXCEPT !.count = IF c \in On(l) THEN @ ELSE @ + 1]]
    BY <1>4 DEF AddListMember
<1>7. \A k \in Lists : lists'[k] \in [live : BOOLEAN, count : Nat, used : BOOLEAN] /\ lists'[k].live = lists[k].live
    BY <1>2, <1>6
<1>8. TablesTyped'
    BY <1>1, <1>6, <1>7 DEF AddListMember, AudienceInv, TablesTyped
<1>9. MembershipsReferToRows'
    BY <1>1, <1>7 DEF AddListMember, AudienceInv, MembershipsReferToRows
<1>10. CounterIsRows'
    <2>1. lists'[l].count = Cardinality(On(l)')
        BY <1>2, <1>5, <1>6 DEF AudienceInv, CounterIsRows
    <2>2. \A k \in Lists \ {l} : lists'[k] = lists[k]
        BY <1>2, <1>6
    <2> QED
        BY <1>3, <1>5, <2>1, <2>2 DEF AudienceInv, CounterIsRows
<1>11. OneContactPerAddress'
    BY <1>1 DEF AddListMember, AudienceInv, OneContactPerAddress, EmailOf
<1> QED
    BY <1>8, <1>9, <1>10, <1>11 DEF AudienceInv

\* A step that leaves the book, the lists and the memberships keeps all.
LEMMA ReadStep ==
    ASSUME AudienceInv, UNCHANGED <<book, members, gone>>, UNCHANGED lists
    PROVE  AudienceInv'
BY DEF AudienceInv, TablesTyped, MembershipsReferToRows, OneContactPerAddress, CounterIsRows, On, Live, EmailOf

\* A campaign that names a list changes none of its rows.
LEMMA NameListStep ==
    ASSUME AudienceInv, NEW l \in Lists, NameList(l)
    PROVE  AudienceInv'
<1>1. \A k \in Lists : /\ lists'[k] \in [live : BOOLEAN, count : Nat, used : BOOLEAN]
                       /\ lists'[k].live = lists[k].live /\ lists'[k].count = lists[k].count
    BY DEF NameList, AudienceInv, TablesTyped
<1>2. Live' = Live /\ \A k \in Lists : On(k)' = On(k)
    BY DEF NameList, Live, On
<1>3. TablesTyped'
    BY <1>1, <1>2 DEF NameList, AudienceInv, TablesTyped
<1>4. MembershipsReferToRows' /\ CounterIsRows'
    BY <1>1, <1>2 DEF NameList, AudienceInv, MembershipsReferToRows, CounterIsRows
<1>5. OneContactPerAddress'
    BY <1>2 DEF NameList, AudienceInv, OneContactPerAddress, EmailOf
<1> QED
    BY <1>3, <1>4, <1>5 DEF AudienceInv

LEMMA AudienceStepInv == AudienceInv /\ [AudienceNext]_audienceVars => AudienceInv'
<1> SUFFICES ASSUME AudienceInv, [AudienceNext]_audienceVars PROVE AudienceInv'
    OBVIOUS
<1>1. ASSUME NEW c \in ContactIds, DeleteContact(c) PROVE AudienceInv'
    <2> DEFINE removed == {m \in members : m[2] = c}
    <2>1. /\ book' = [book EXCEPT ![c] = NoContact] /\ members' = members \ removed
          /\ lists' = Uncounted(removed) /\ gone' = gone
        BY <1>1 DEF DeleteContact
    <2>2. removed \subseteq members /\ (\A m \in removed : m[2] = c) /\ \A m \in members : m[2] = c => m \in removed
        OBVIOUS
    <2> HIDE DEF removed
    <2> QED
        BY <2>1, <2>2, RemovalStep
<1>2. ASSUME NEW l \in Lists, NEW c \in ContactIds, RemoveListMember(l, c) PROVE AudienceInv'
    BY <1>2, RemovalStep DEF RemoveListMember
<1>3. ASSUME NEW l \in Lists, CreateContactList(l) PROVE AudienceInv'
    <2>1. members' = {m \in members : m[1] # l}
        BY <1>3 DEF CreateContactList, AudienceInv, MembershipsReferToRows
    <2> QED
        BY <1>3, <2>1, ListStep DEF CreateContactList
<1>4. ASSUME NEW l \in Lists, DeleteContactList(l) PROVE AudienceInv'
    BY <1>4, ListStep DEF DeleteContactList
<1>5. ASSUME NEW e \in Emails, SuppressedElsewhere(e) PROVE AudienceInv'
    BY <1>5, MirroredStep DEF SuppressedElsewhere, Statuses
<1>6. ASSUME NEW e \in Emails, RemoveSuppression(e) PROVE AudienceInv'
    BY <1>6, MirroredStep DEF RemoveSuppression, Statuses
<1>7. ASSUME NEW e \in Emails, NEW r \in Reasons, AddSuppression(e, r) PROVE AudienceInv'
    BY <1>7, ReadStep DEF AddSuppression
<1>8. ASSUME InsertBlock PROVE AudienceInv'
    <2>1. CASE blocks[block.email] = "none"
        BY <1>8, <2>1, MirroredStep DEF InsertBlock, Statuses
    <2>2. CASE blocks[block.email] # "none"
        BY <1>8, <2>2, ReadStep DEF InsertBlock
    <2> QED
        BY <2>1, <2>2
<1>9. ASSUME AudienceReads PROVE AudienceInv'
    BY <1>9, ReadStep DEF AudienceReads, OpenContacts, ReadMembers, ListContacts, TurnPage, TurnBack
<1>10. ASSUME UNCHANGED audienceVars PROVE AudienceInv'
    BY <1>10, ReadStep DEF audienceVars
<1> QED
    BY <1>1, <1>2, <1>3, <1>4, <1>5, <1>6, <1>7, <1>8, <1>9, <1>10, CreateContactStep, UpdateContactStep,
       AddListMemberStep, NameListStep DEF AudienceNext, AudienceWrites

-----------------------------------------------------------------------------
\* The rows of a list fall into the three answers of the sending rule.
LEMMA AudienceParts ==
    ASSUME AudienceInv, NEW l \in Lists
    PROVE  LET counts == CampaignAudienceCounts(l)
           IN  counts.eligible + counts.suppressed + counts.inactive = Cardinality(On(l))
<1> DEFINE eligible == {c \in On(l) : blocks[EmailOf(c)] = "none" /\ book[c].status = "active"}
           suppressed == {c \in On(l) : blocks[EmailOf(c)] # "none"}
           inactive == {c \in On(l) : blocks[EmailOf(c)] = "none" /\ book[c].status # "active"}
<1>1. IsFiniteSet(On(l))
    BY DEF AudienceInv, CounterIsRows
<1>2. IsFiniteSet(eligible) /\ IsFiniteSet(suppressed) /\ IsFiniteSet(inactive)
    BY <1>1, FS_Subset
<1>3. (eligible \cup suppressed) \cup inactive = On(l)
    OBVIOUS
<1>4. eligible \cap suppressed = {} /\ (eligible \cup suppressed) \cap inactive = {}
    OBVIOUS
<1> HIDE DEF eligible, suppressed, inactive
<1>5. IsFiniteSet(eligible \cup suppressed) /\ Cardinality(eligible \cup suppressed) = Cardinality(eligible) + Cardinality(suppressed) - 0
    BY <1>2, <1>4, FS_Union, FS_EmptySet
<1>6. Cardinality(On(l)) = Cardinality(eligible \cup suppressed) + Cardinality(inactive) - 0
    BY <1>2, <1>3, <1>4, <1>5, FS_Union, FS_EmptySet
<1>7. Cardinality(eligible) \in Nat /\ Cardinality(suppressed) \in Nat /\ Cardinality(inactive) \in Nat
    BY <1>2, FS_CardinalityType
<1>8. CampaignAudienceCounts(l) = [eligible |-> Cardinality(eligible), suppressed |-> Cardinality(suppressed),
                                   inactive |-> Cardinality(inactive)]
    BY DEF CampaignAudienceCounts, eligible, suppressed, inactive
<1> QED
    BY <1>5, <1>6, <1>7, <1>8

\* Counting in the program puts every row where counting in the database does.
LEMMA SummaryIsCount ==
    ASSUME NEW l \in Lists
    PROVE  CampaignAudienceCounts(l) = SummarizeAudience(l)
<1> DEFINE bucket(c) == ClassifyAudienceMember(blocks[EmailOf(c)] # "none", book[c].status)
<1>1. /\ {c \in On(l) : bucket(c) = "eligible"} = {c \in On(l) : blocks[EmailOf(c)] = "none" /\ book[c].status = "active"}
      /\ {c \in On(l) : bucket(c) = "suppressed"} = {c \in On(l) : blocks[EmailOf(c)] # "none"}
      /\ {c \in On(l) : bucket(c) = "inactive"} = {c \in On(l) : blocks[EmailOf(c)] = "none" /\ book[c].status # "active"}
    BY DEF ClassifyAudienceMember
<1> QED
    BY <1>1 DEF CampaignAudienceCounts, SummarizeAudience

\* Deciding for the address of a row on the list is deciding for that row.
LEMMA DecideIsTheRow ==
    ASSUME AudienceInv, NEW l \in Lists, NEW c \in On(l)
    PROVE  Decide(EmailOf(c), TRUE) = "eligible" <=> blocks[EmailOf(c)] = "none" /\ book[c].status = "active"
<1>1. {d \in Live : EmailOf(d) = EmailOf(c)} = {c}
    BY DEF AudienceInv, OneContactPerAddress, On
<1> QED
    BY <1>1 DEF Decide

\* The invariant makes the numbers agree.
LEMMA InvAddsUp == AudienceInv => AudienceAddsUp
<1> SUFFICES ASSUME AudienceInv, NEW l \in Lists
             PROVE  LET counts == CampaignAudienceCounts(l)
                    IN  /\ lists[l].count = Cardinality(On(l))
                        /\ counts = SummarizeAudience(l)
                        /\ counts.eligible + counts.suppressed + counts.inactive = lists[l].count
                        /\ counts.eligible = Cardinality({c \in On(l) : Decide(EmailOf(c), TRUE) = "eligible"})
    BY DEF AudienceAddsUp
<1>1. lists[l].count = Cardinality(On(l))
    BY DEF AudienceInv, CounterIsRows
<1>2. {c \in On(l) : Decide(EmailOf(c), TRUE) = "eligible"}
        = {c \in On(l) : blocks[EmailOf(c)] = "none" /\ book[c].status = "active"}
    BY DecideIsTheRow
<1>3. CampaignAudienceCounts(l).eligible = Cardinality({c \in On(l) : Decide(EmailOf(c), TRUE) = "eligible"})
    BY <1>2 DEF CampaignAudienceCounts
<1> QED
    BY <1>1, <1>3, AudienceParts, SummaryIsCount

\* The number on a list, the three statements of the sending rule and the rows
\* a send selects are the same people, whatever was added, moved, deleted or
\* suppressed in between: migration 0005's triggers and constraints keep it so.
THEOREM AudienceNumbersAgree == AudienceSpec => []AudienceAddsUp
<1>1. AudienceSpec => []AudienceInv
    BY AudienceInitInv, AudienceStepInv, PTL DEF AudienceSpec
<1> QED
    BY <1>1, InvAddsUp, PTL

\* A membership is always of a list and a contact that are there, and no two
\* contacts share an address: the foreign keys and uq_contacts_ws_email.
THEOREM MembershipsNeverDangle == AudienceSpec => [](MembershipsReferToRows /\ OneContactPerAddress)
<1>1. AudienceSpec => []AudienceInv
    BY AudienceInitInv, AudienceStepInv, PTL DEF AudienceSpec
<1>2. AudienceInv => MembershipsReferToRows /\ OneContactPerAddress
    BY DEF AudienceInv
<1> QED
    BY <1>1, <1>2, PTL

-----------------------------------------------------------------------------
(***************************************************************************)
(* The paged table.  Its order is total, so that the rows of a scope have  *)
(* one sorted order; a page is what comes next in it behind the cursor,    *)
(* and whoever turns pages onward sees each row that stays there once.     *)
(***************************************************************************)

\* Everybody's place in the table is a key, and a page starts behind one or at the
\* beginning.
Keys == Stamps \X ContactIds
Cursors == Keys \cup {NoCursor}

Pagers ==
    [pc : {"closed", "members", "rows", "page"}, scope : Lists \cup {"all"},
     dir : {"forward", "backward"}, cursor : Cursors, ids : SUBSET ContactIds,
     next : Cursors, prev : Cursors, shown : Seq(ContactIds), steady : SUBSET ContactIds]

PagerTyped ==
    /\ pager \in Pagers
    /\ IsFiniteSet(gone) /\ gone \subseteq ContactIds

\* Where the reader stands, and whether that is behind the last row.
Place == IF pager.pc = "page" THEN Onward(pager) ELSE pager.cursor
AtTheEnd == pager.pc = "page" /\ Onward(pager) = NoCursor

\* Rows that were there throughout are there, and so among the memberships that
\* the call has read.
SteadyIsThere ==
    /\ pager.steady \subseteq InScope(pager.scope)
    /\ pager.pc = "rows" => pager.steady \subseteq pager.ids

ShownOnce ==
    /\ \A j, k \in DOMAIN pager.shown : pager.shown[j] = pager.shown[k] => j = k
    /\ ToSet(pager.shown) \subseteq gone

\* What was shown lies behind the reader's place, and what is still to be shown
\* ahead of it.
ShownIsBehind ==
    ~AtTheEnd => \A c \in Live \cap ToSet(pager.shown) : ~Beyond(Key(c), Place, pager.dir)

SteadyIsAhead ==
    \A c \in pager.steady \ ToSet(pager.shown) : ~AtTheEnd /\ Beyond(Key(c), Place, pager.dir)

PagerInv == PagerTyped /\ SteadyIsThere /\ ShownOnce /\ ShownIsBehind /\ SteadyIsAhead

-----------------------------------------------------------------------------
\* The order of the table is total.
LEMMA OrderIsTotal ==
    ASSUME NEW dir
    PROVE  /\ \A x \in Keys : ~Before(x, x, dir)
           /\ \A x, y \in Keys : x # y => Before(x, y, dir) \/ Before(y, x, dir)
           /\ \A x, y, z \in Keys : Before(x, y, dir) /\ Before(y, z, dir) => Before(x, z, dir)
<1>1. \A x \in Keys : x = <<x[1], x[2]>> /\ x[1] \in Nat /\ x[2] \in Nat
    <2>1. \A x \in Keys : x = <<x[1], x[2]>> /\ x[1] \in Stamps /\ x[2] \in ContactIds
        BY DEF Keys
    <2>2. QED BY <2>1, PageNumbers
<1>2. \A x \in Keys : ~Before(x, x, dir)
    BY <1>1 DEF Before, Newer
<1>3. \A x, y \in Keys : x # y => Before(x, y, dir) \/ Before(y, x, dir)
    <2> SUFFICES ASSUME NEW x \in Keys, NEW y \in Keys, x # y
                 PROVE  Before(x, y, dir) \/ Before(y, x, dir)
        OBVIOUS
    <2>1. x[1] # y[1] \/ x[2] # y[2]
        BY <1>1
    <2>2. QED BY <1>1, <2>1 DEF Before, Newer
<1>4. \A x, y, z \in Keys : Before(x, y, dir) /\ Before(y, z, dir) => Before(x, z, dir)
    BY <1>1 DEF Before, Newer
<1>5. QED BY <1>2, <1>3, <1>4

LEMMA KeyIsNoStart == NoCursor \notin Keys
BY DEF Keys, NoCursor

\* A finite set of keys has an order, which is all of them once.
LEMMA OrderExists ==
    ASSUME NEW keys, keys \subseteq Keys, IsFiniteSet(keys), NEW dir
    PROVE  LET s == Ordered(keys, dir) IN
           /\ s \in [1..Cardinality(keys) -> keys]
           /\ \A j, k \in DOMAIN s : j < k => Before(s[j], s[k], dir)
<1> DEFINE n == Cardinality(keys)
           Earlier(x) == {y \in keys : Before(y, x, dir)}
           At(x) == Cardinality(Earlier(x)) + 1
           f == [x \in keys |-> At(x)]
<1>1. n \in Nat /\ IsFiniteSet(1..n) /\ Cardinality(1..n) = n
    BY FS_CardinalityType, FS_Interval
<1>2. \A x \in keys : /\ IsFiniteSet(Earlier(x)) /\ Cardinality(Earlier(x)) \in Nat
                      /\ At(x) \in 1..n
    <2> TAKE x \in keys
    <2>1. Earlier(x) \subseteq keys \ {x}
        BY OrderIsTotal
    <2>2. IsFiniteSet(keys \ {x}) /\ Cardinality(keys \ {x}) = n - 1
        BY FS_RemoveElement
    <2>3. IsFiniteSet(Earlier(x)) /\ Cardinality(Earlier(x)) <= n - 1
        BY <2>1, <2>2, FS_Subset
    <2>4. Cardinality(Earlier(x)) \in Nat
        BY <2>3, FS_CardinalityType
    <2>5. QED BY <1>1, <2>3, <2>4
<1> HIDE DEF Earlier
<1>3. \A x, y \in keys : Before(x, y, dir) => At(x) < At(y)
    <2> SUFFICES ASSUME NEW x \in keys, NEW y \in keys, Before(x, y, dir) PROVE At(x) < At(y)
        OBVIOUS
    <2>1. Earlier(x) \subseteq Earlier(y)
        BY OrderIsTotal DEF Earlier
    <2>2. x \in Earlier(y) /\ x \notin Earlier(x)
        BY OrderIsTotal DEF Earlier
    <2>3. Cardinality(Earlier(x)) <= Cardinality(Earlier(y)) /\ Cardinality(Earlier(x)) # Cardinality(Earlier(y))
        BY <1>2, <2>1, <2>2, FS_Subset
    <2>4. QED BY <1>2, <2>3
<1> HIDE DEF At
<1>4. f \in Injection(keys, 1..n)
    <2>1. \A x, y \in keys : At(x) = At(y) => x = y
        <3> SUFFICES ASSUME NEW x \in keys, NEW y \in keys, At(x) = At(y), x # y PROVE FALSE
            OBVIOUS
        <3>1. Before(x, y, dir) \/ Before(y, x, dir)
            BY OrderIsTotal
        <3>2. At(x) \in Nat /\ At(y) \in Nat
            BY <1>1, <1>2
        <3>3. QED BY <1>3, <3>1, <3>2
    <2>2. QED BY <1>2, <2>1 DEF Injection, IsInjective
<1>5. f \in Surjection(keys, 1..n)
    BY <1>1, <1>4, FS_Injection
<1> DEFINE s == [k \in 1..n |-> CHOOSE x \in keys : At(x) = k]
<1>6. \A k \in 1..n : s[k] \in keys /\ At(s[k]) = k
    <2>1. \A k \in 1..n : \E x \in keys : At(x) = k
        BY <1>5 DEF Surjection
    <2>2. QED BY <2>1
<1>7. \A j, k \in 1..n : j < k => Before(s[j], s[k], dir)
    <2> SUFFICES ASSUME NEW j \in 1..n, NEW k \in 1..n, j < k PROVE Before(s[j], s[k], dir)
        OBVIOUS
    <2> HIDE DEF s
    <2>1. s[j] # s[k]
        BY <1>6
    <2>2. ~Before(s[k], s[j], dir)
        BY <1>3, <1>6
    <2>3. QED BY <1>6, <2>1, <2>2, OrderIsTotal
<1>8. s \in [1..n -> keys] /\ DOMAIN s = 1..n
    BY <1>6
<1> HIDE DEF s
<1>9. \E t \in [1..n -> keys] : \A j, k \in DOMAIN t : j < k => Before(t[j], t[k], dir)
    BY <1>7, <1>8
<1>10. QED BY <1>9 DEF Ordered

\* It is as long as the set has members, so that it has them all.
LEMMA OrderIsComplete ==
    ASSUME NEW keys, keys \subseteq Keys, IsFiniteSet(keys), NEW dir
    PROVE  \A x \in keys : \E k \in DOMAIN Ordered(keys, dir) : Ordered(keys, dir)[k] = x
<1> DEFINE n == Cardinality(keys)
           s == Ordered(keys, dir)
<1>1. n \in Nat /\ IsFiniteSet(1..n) /\ Cardinality(1..n) = n
    BY FS_CardinalityType, FS_Interval
<1>2. s \in [1..n -> keys] /\ \A j, k \in 1..n : j < k => Before(s[j], s[k], dir)
    BY OrderExists
<1> HIDE DEF s
<1>3. \A j, k \in 1..n : s[j] = s[k] => j = k
    BY <1>1, <1>2, OrderIsTotal
<1>4. s \in Injection(1..n, keys)
    BY <1>2, <1>3 DEF Injection, IsInjective
<1>5. s \in Surjection(1..n, keys)
    BY <1>1, <1>4, FS_Injection
<1>6. QED BY <1>5 DEF Surjection, s

\* A page of the rows behind a cursor has each of them once, and either it has all
\* of them, or its far end is the cursor from which the others lie ahead.
LEMMA PageIsNext ==
    ASSUME NEW keys, keys \subseteq Keys, IsFiniteSet(keys),
           NEW dir \in {"forward", "backward"}, NEW b
    PROVE  LET page == BuildPage(Fetched(keys, dir), dir, b)
               on == IF dir = "forward" THEN page.next ELSE page.prev
           IN  /\ page.items \in Seq(keys)
               /\ \A j, k \in DOMAIN page.items : page.items[j] = page.items[k] => j = k
               /\ page.next \in keys \cup {NoCursor} /\ page.prev \in keys \cup {NoCursor}
               /\ on = NoCursor => \A x \in keys : \E k \in DOMAIN page.items : page.items[k] = x
               /\ on # NoCursor =>
                    /\ on \in keys
                    /\ \A k \in DOMAIN page.items : page.items[k] = on \/ Before(page.items[k], on, dir)
                    /\ \A x \in keys : Before(on, x, dir)
                                       \/ \E k \in DOMAIN page.items : page.items[k] = x
<1> DEFINE n == Cardinality(keys)
           s == Ordered(keys, dir)
           rows == Fetched(keys, dir)
           more == Len(rows) > PageSize
           trimmed == IF more THEN SubSeq(rows, 1, PageSize) ELSE rows
           items == IF dir = "backward" THEN Reverse(trimmed) ELSE trimmed
           page == BuildPage(rows, dir, b)
           on == IF dir = "forward" THEN page.next ELSE page.prev
           size == IF n > PageSize THEN PageSize ELSE n
<1>1. n \in Nat /\ PageSize \in Nat \ {0}
    BY FS_CardinalityType, PageNumbers
<1>2. /\ s \in [1..n -> keys] /\ s \in Seq(keys) /\ Len(s) = n
      /\ \A j, k \in 1..n : j < k => Before(s[j], s[k], dir)
      /\ \A x \in keys : \E k \in 1..n : s[k] = x
    <2> HIDE DEF s, n
    <2>1. s \in [1..n -> keys] /\ \A j, k \in DOMAIN s : j < k => Before(s[j], s[k], dir)
        BY OrderExists DEF s, n
    <2>2. \A x \in keys : \E k \in DOMAIN s : s[k] = x
        BY OrderIsComplete DEF s
    <2>3. DOMAIN s = 1..n /\ s \in Seq(keys) /\ Len(s) = n
        BY <1>1, <2>1
    <2>4. QED BY <2>1, <2>2, <2>3
<1> HIDE DEF s, n
<1>3. rows = SubSeq(s, 1, IF n > PageSize + 1 THEN PageSize + 1 ELSE n)
    BY <1>2 DEF Fetched, s
<1> HIDE DEF rows
<1>4. /\ rows \in Seq(keys) /\ Len(rows) = (IF n > PageSize + 1 THEN PageSize + 1 ELSE n)
      /\ \A k \in 1..Len(rows) : rows[k] = s[k]
    BY <1>1, <1>2, <1>3
<1>5. /\ trimmed \in Seq(keys) /\ Len(trimmed) = size
      /\ \A k \in 1..size : trimmed[k] = s[k]
      /\ more <=> n > PageSize
    BY <1>1, <1>4
<1>6. size \in Nat /\ size <= n /\ (n > PageSize => size >= 1)
    BY <1>1
<1> HIDE DEF trimmed, size
<1>7. /\ items \in Seq(keys) /\ Len(items) = size /\ DOMAIN items = 1..size
      /\ \A k \in 1..size : items[k] = IF dir = "backward" THEN s[size - k + 1] ELSE s[k]
    BY <1>5, <1>6, SMTT(60) DEF Reverse
<1>8. /\ page.items = items
      /\ page.next \in {NoCursor} \cup {items[k] : k \in DOMAIN items}
      /\ page.prev \in {NoCursor} \cup {items[k] : k \in DOMAIN items}
      /\ on = IF n > PageSize THEN s[size] ELSE NoCursor
    <2> HIDE DEF items
    <2> DEFINE first == IF items = <<>> THEN NoCursor ELSE Head(items)
               last == IF items = <<>> THEN NoCursor ELSE items[Len(items)]
    <2>1. page = IF dir = "backward"
                 THEN [items |-> items, prev |-> IF more THEN first ELSE NoCursor, next |-> last]
                 ELSE [items |-> items, next |-> IF more THEN last ELSE NoCursor,
                       prev |-> IF b THEN first ELSE NoCursor]
        BY DEF BuildPage, items, trimmed
    <2>2. /\ first \in {NoCursor} \cup {items[k] : k \in DOMAIN items}
          /\ last \in {NoCursor} \cup {items[k] : k \in DOMAIN items}
        BY <1>6, <1>7
    <2>3. n > PageSize => first = items[1] /\ last = items[size]
        BY <1>6, <1>7
    <2>4. page.items = items
        BY <2>1
    <2>5. IF dir = "backward" THEN page.prev = (IF more THEN first ELSE NoCursor) /\ page.next = last
          ELSE page.next = (IF more THEN last ELSE NoCursor) /\ page.prev = (IF b THEN first ELSE NoCursor)
        BY <2>1
    <2> HIDE DEF first, last, page
    <2>6. n > PageSize => (IF dir = "backward" THEN first ELSE last) = s[size]
        BY <1>6, <1>7, <2>3
    <2>7. CASE dir = "backward"
        BY <1>5, <2>2, <2>4, <2>5, <2>6, <2>7
    <2>8. CASE dir # "backward"
        BY <1>5, <2>2, <2>4, <2>5, <2>6, <2>8
    <2>9. QED BY <2>7, <2>8
<1> HIDE DEF items, page
<1>9. \A j, k \in 1..size : items[j] = items[k] => j = k
    <2>1. \A j, k \in 1..n : s[j] = s[k] => j = k
        BY <1>1, <1>2, OrderIsTotal
    <2> SUFFICES ASSUME NEW j \in 1..size, NEW k \in 1..size, items[j] = items[k]
                 PROVE  j = k
        OBVIOUS
    <2>2. CASE dir = "backward"
        <3>1. size - j + 1 \in 1..n /\ size - k + 1 \in 1..n
            BY <1>1, <1>6
        <3>2. s[size - j + 1] = s[size - k + 1]
            BY <1>7, <2>2
        <3>3. size - j + 1 = size - k + 1
            BY <2>1, <3>1, <3>2
        <3>4. QED BY <1>6, <3>3
    <2>3. CASE dir # "backward"
        <3>1. s[j] = s[k] /\ j \in 1..n /\ k \in 1..n
            BY <1>1, <1>6, <1>7, <2>3
        <3>2. QED BY <2>1, <3>1
    <2>4. QED BY <2>2, <2>3
<1>10. \A k \in 1..size : \E i \in DOMAIN items : items[i] = s[k]
    <2> TAKE k \in 1..size
    <2>1. CASE dir = "backward"
        <3>1. size - k + 1 \in 1..size /\ items[size - k + 1] = s[k]
            BY <1>6, <1>7, <2>1
        <3>2. QED BY <1>7, <3>1
    <2>2. CASE dir # "backward"
        BY <1>7, <2>2
    <2>3. QED BY <2>1, <2>2
<1>11. CASE n > PageSize
    <2>1. on = s[size] /\ s[size] \in keys
        BY <1>2, <1>6, <1>8, <1>11
    <2>2. \A k \in 1..size : s[k] = on \/ Before(s[k], on, dir)
        BY <1>2, <1>6, <2>1
    <2>3. \A k \in 1..n : k > size => Before(on, s[k], dir)
        BY <1>2, <1>6, <1>11, <2>1
    <2>4. \A k \in DOMAIN items : items[k] = on \/ Before(items[k], on, dir)
        BY <1>6, <1>7, <2>2
    <2>5. \A x \in keys : Before(on, x, dir) \/ \E k \in DOMAIN items : items[k] = x
        BY <1>2, <1>6, <1>10, <2>3
    <2>6. on # NoCursor
        BY <2>1, KeyIsNoStart
    <2>7. QED BY <1>7, <1>8, <1>9, <2>1, <2>4, <2>5, <2>6 DEF page, rows
<1>12. CASE ~(n > PageSize)
    <2>1. size = n /\ on = NoCursor
        BY <1>8, <1>12 DEF size
    <2>2. \A x \in keys : \E k \in DOMAIN items : items[k] = x
        BY <1>2, <1>10, <2>1
    <2>3. QED BY <1>7, <1>8, <1>9, <2>1, <2>2, SMTT(60) DEF page, rows
<1>13. QED BY <1>11, <1>12

-----------------------------------------------------------------------------
LEMMA OpenedPager ==
    ASSUME NEW scope \in Lists \cup {"all"}, NEW rows \in SUBSET ContactIds,
           pager' = [ClosedPager EXCEPT !.pc = "members", !.scope = scope, !.steady = rows]
    PROVE  /\ pager' \in Pagers /\ pager'.pc = "members" /\ pager'.scope = scope
           /\ pager'.steady = rows /\ pager'.cursor = NoCursor /\ pager'.shown = <<>>
<1>1. ClosedPager \in Pagers /\ ClosedPager.cursor = NoCursor /\ ClosedPager.shown = <<>>
    BY DEF ClosedPager, Pagers, Cursors
<1>2. pager' \in Pagers
    BY <1>1 DEF Pagers
<1>3. QED BY <1>1, <1>2 DEF Pagers

LEMMA ReadPager ==
    ASSUME pager \in Pagers, NEW ids \in SUBSET ContactIds,
           pager' = [pager EXCEPT !.pc = "rows", !.ids = ids]
    PROVE  /\ pager' \in Pagers /\ pager'.pc = "rows" /\ pager'.ids = ids
           /\ pager'.scope = pager.scope /\ pager'.steady = pager.steady /\ pager'.dir = pager.dir
           /\ pager'.cursor = pager.cursor /\ pager'.shown = pager.shown
BY DEF Pagers

LEMMA ListedPager ==
    ASSUME pager \in Pagers, NEW next \in Cursors, NEW prev \in Cursors, NEW shown \in Seq(ContactIds),
           pager' = [pager EXCEPT !.pc = "page", !.next = next, !.prev = prev, !.shown = shown]
    PROVE  /\ pager' \in Pagers /\ pager'.pc = "page" /\ pager'.next = next /\ pager'.prev = prev
           /\ pager'.shown = shown /\ pager'.scope = pager.scope /\ pager'.steady = pager.steady
           /\ pager'.dir = pager.dir
BY DEF Pagers

LEMMA TurnedPager ==
    ASSUME pager \in Pagers, NEW cursor \in Cursors,
           pager' = [pager EXCEPT !.pc = "members", !.cursor = cursor]
    PROVE  /\ pager' \in Pagers /\ pager'.pc = "members" /\ pager'.cursor = cursor
           /\ pager'.shown = pager.shown /\ pager'.scope = pager.scope
           /\ pager'.steady = pager.steady /\ pager'.dir = pager.dir
BY DEF Pagers

LEMMA ReturnedPager ==
    ASSUME pager \in Pagers, NEW rows \in SUBSET ContactIds,
           pager' = [pager EXCEPT !.pc = "members", !.dir = "backward", !.cursor = pager.prev,
                                  !.shown = <<>>, !.steady = rows]
    PROVE  /\ pager' \in Pagers /\ pager'.pc = "members" /\ pager'.dir = "backward"
           /\ pager'.cursor = pager.prev /\ pager'.shown = <<>> /\ pager'.scope = pager.scope
           /\ pager'.steady = rows
<1> DEFINE p == [pager EXCEPT !.pc = "members", !.dir = "backward", !.cursor = pager.prev]
<1>1. /\ p \in Pagers /\ p.pc = "members" /\ p.dir = "backward" /\ p.cursor = pager.prev
      /\ p.scope = pager.scope
    BY DEF Pagers
<1>2. pager' = [p EXCEPT !.shown = <<>>, !.steady = rows]
    OBVIOUS
<1> HIDE DEF p
<1>3. <<>> \in Seq(ContactIds)
    OBVIOUS
<1>4. QED BY <1>1, <1>2, <1>3 DEF Pagers

LEMMA ThinnedPager ==
    ASSUME pager \in Pagers, NEW kept \in SUBSET ContactIds,
           \/ pager' = [pager EXCEPT !.steady = kept]
           \/ pager' = pager /\ kept = pager.steady
    PROVE  /\ pager' \in Pagers /\ pager'.pc = pager.pc /\ pager'.dir = pager.dir
           /\ pager'.cursor = pager.cursor /\ pager'.shown = pager.shown /\ pager'.scope = pager.scope
           /\ pager'.next = pager.next /\ pager'.prev = pager.prev /\ pager'.ids = pager.ids
           /\ pager'.steady = kept
BY DEF Pagers

\* Nobody else moves the reader; rows keep their keys, and a new one has not been
\* shown.
LEMMA WriteKeepsPager ==
    ASSUME PagerInv, TablesTyped, TablesTyped', NEW kept, kept \subseteq pager.steady,
           \/ pager' = [pager EXCEPT !.steady = kept]
           \/ pager' = pager /\ kept = pager.steady,
           IsFiniteSet(gone'), gone \subseteq gone', gone' \subseteq ContactIds,
           kept \subseteq InScope(pager.scope)',
           \A c \in Live' : c \in Live \/ c \notin gone,
           \A c \in Live \cap Live' : book'[c].at = book[c].at
    PROVE  PagerInv'
<1>1. /\ pager' \in Pagers /\ pager'.pc = pager.pc /\ pager'.dir = pager.dir
      /\ pager'.cursor = pager.cursor /\ pager'.shown = pager.shown /\ pager'.scope = pager.scope
      /\ pager'.next = pager.next /\ pager'.prev = pager.prev /\ pager'.ids = pager.ids
      /\ pager'.steady = kept
    <2>1. pager \in Pagers /\ kept \in SUBSET ContactIds
        BY DEF PagerInv, PagerTyped, Pagers
    <2>2. QED BY <2>1, ThinnedPager
<1>2. PagerTyped'
    BY <1>1 DEF PagerInv, PagerTyped
<1>3. SteadyIsThere'
    BY <1>1 DEF PagerInv, SteadyIsThere, InScope, On
<1>4. ShownOnce'
    BY <1>1 DEF PagerInv, ShownOnce
<1>5. Place' = Place /\ AtTheEnd' = AtTheEnd
    BY <1>1 DEF Place, AtTheEnd, Onward
<1>6. \A c \in Live \cap Live' : Key(c)' = Key(c)
    BY DEF Key
<1>7. ShownIsBehind'
    BY <1>1, <1>5, <1>6 DEF PagerInv, ShownOnce, ShownIsBehind
<1>8. SteadyIsAhead'
    <2>1. \A c \in kept : c \in Live /\ c \in Live'
        BY DEF PagerInv, SteadyIsThere, InScope, On
    <2>2. QED BY <1>1, <1>5, <1>6, <2>1 DEF PagerInv, SteadyIsAhead
<1>9. QED BY <1>2, <1>3, <1>4, <1>7, <1>8 DEF PagerInv

LEMMA OpenStep ==
    ASSUME AudienceInv, PagerInv, NEW scope \in Lists \cup {"all"}, OpenContacts(scope)
    PROVE  PagerInv'
<1>1. InScope(scope) \in SUBSET ContactIds
    BY DEF InScope, On, Live
<1>2. /\ pager' \in Pagers /\ pager'.pc = "members" /\ pager'.scope = scope
      /\ pager'.steady = InScope(scope) /\ pager'.cursor = NoCursor /\ pager'.shown = <<>>
    BY <1>1, OpenedPager DEF OpenContacts
<1>3. UNCHANGED <<book, members, gone>>
    BY DEF OpenContacts
<1>4. InScope(scope)' = InScope(scope)
    BY <1>3 DEF InScope, On, Live
<1>5. PagerTyped' /\ SteadyIsThere'
    BY <1>2, <1>3, <1>4 DEF PagerInv, PagerTyped, SteadyIsThere
<1>6. ShownOnce' /\ ShownIsBehind'
    BY <1>2 DEF ShownOnce, ShownIsBehind, ToSet
<1>7. SteadyIsAhead'
    BY <1>2 DEF SteadyIsAhead, AtTheEnd, Place, Beyond
<1>8. QED BY <1>5, <1>6, <1>7 DEF PagerInv

LEMMA ReadMembersStep ==
    ASSUME AudienceInv, PagerInv, ReadMembers
    PROVE  PagerInv'
<1> DEFINE ids == IF pager.scope = "all" THEN ContactIds
                  ELSE {c \in ContactIds : <<pager.scope, c>> \in members}
<1>1. /\ pager' \in Pagers /\ pager'.pc = "rows" /\ pager'.ids = ids
      /\ pager'.scope = pager.scope /\ pager'.steady = pager.steady /\ pager'.dir = pager.dir
      /\ pager'.cursor = pager.cursor /\ pager'.shown = pager.shown
    <2>1. pager \in Pagers /\ ids \in SUBSET ContactIds
        BY DEF PagerInv, PagerTyped
    <2>2. pager' = [pager EXCEPT !.pc = "rows", !.ids = ids]
        BY DEF ReadMembers
    <2> HIDE DEF ids
    <2>3. QED BY <2>1, <2>2, ReadPager
<1>2. pager.pc = "members" /\ UNCHANGED <<book, members, gone>>
    BY DEF ReadMembers
<1>3. /\ Live' = Live /\ \A s : InScope(s)' = InScope(s)
      /\ \A c : Key(c)' = Key(c)
    BY <1>2 DEF InScope, On, Live, Key
<1>4. PagerTyped'
    BY <1>1, <1>2 DEF PagerInv, PagerTyped
<1>5. SteadyIsThere'
    <2>1. InScope(pager.scope) \subseteq ids
        BY DEF InScope, On, Live
    <2>2. QED BY <1>1, <1>3, <2>1 DEF PagerInv, SteadyIsThere
<1>6. ShownOnce'
    BY <1>1, <1>2 DEF PagerInv, ShownOnce
<1>7. Place' = Place /\ ~AtTheEnd' /\ ~AtTheEnd
    BY <1>1, <1>2 DEF Place, AtTheEnd
<1>8. ShownIsBehind' /\ SteadyIsAhead'
    BY <1>1, <1>3, <1>7 DEF PagerInv, ShownIsBehind, SteadyIsAhead
<1>9. QED BY <1>4, <1>5, <1>6, <1>8 DEF PagerInv

\* The next page starts where this one ends.
LEMMA TurnPageStep ==
    ASSUME AudienceInv, PagerInv, TurnPage
    PROVE  PagerInv'
<1>1. /\ pager' \in Pagers /\ pager'.pc = "members" /\ pager'.cursor = Onward(pager)
      /\ pager'.shown = pager.shown /\ pager'.scope = pager.scope
      /\ pager'.steady = pager.steady /\ pager'.dir = pager.dir
    <2>1. pager \in Pagers /\ Onward(pager) \in Cursors
        BY DEF PagerInv, PagerTyped, Pagers, Onward
    <2>2. pager' = [pager EXCEPT !.pc = "members", !.cursor = Onward(pager)]
        BY DEF TurnPage
    <2>3. QED BY <2>1, <2>2, TurnedPager
<1>2. /\ pager.pc = "page" /\ Onward(pager) # NoCursor /\ UNCHANGED <<book, members, gone>>
    BY DEF TurnPage
<1>3. /\ Live' = Live /\ \A s : InScope(s)' = InScope(s)
      /\ \A c : Key(c)' = Key(c)
    BY <1>2 DEF InScope, On, Live, Key
<1>4. PagerTyped' /\ SteadyIsThere' /\ ShownOnce'
    BY <1>1, <1>2, <1>3 DEF PagerInv, PagerTyped, SteadyIsThere, ShownOnce
<1>5. Place' = Place /\ ~AtTheEnd' /\ ~AtTheEnd
    BY <1>1, <1>2 DEF Place, AtTheEnd
<1>6. ShownIsBehind' /\ SteadyIsAhead'
    BY <1>1, <1>3, <1>5 DEF PagerInv, ShownIsBehind, SteadyIsAhead
<1>7. QED BY <1>4, <1>6 DEF PagerInv

\* Going back begins with nothing shown and everything newer ahead.
LEMMA TurnBackStep ==
    ASSUME AudienceInv, PagerInv, TurnBack
    PROVE  PagerInv'
<1> DEFINE rows == {c \in InScope(pager.scope) : Newer(Key(c), pager.prev)}
<1>1. /\ pager' \in Pagers /\ pager'.pc = "members" /\ pager'.dir = "backward"
      /\ pager'.cursor = pager.prev /\ pager'.shown = <<>> /\ pager'.scope = pager.scope
      /\ pager'.steady = rows
    <2>1. pager \in Pagers /\ rows \in SUBSET ContactIds
        BY DEF PagerInv, PagerTyped, InScope, On, Live
    <2>2. pager' = [pager EXCEPT !.pc = "members", !.dir = "backward", !.cursor = pager.prev,
                                 !.shown = <<>>, !.steady = rows]
        BY DEF TurnBack
    <2> HIDE DEF rows
    <2>3. QED BY <2>1, <2>2, ReturnedPager
<1>2. UNCHANGED <<book, members, gone>>
    BY DEF TurnBack
<1>3. /\ Live' = Live /\ \A s : InScope(s)' = InScope(s)
      /\ \A c : Key(c)' = Key(c)
    BY <1>2 DEF InScope, On, Live, Key
<1>4. PagerTyped' /\ SteadyIsThere'
    BY <1>1, <1>2, <1>3 DEF PagerInv, PagerTyped, SteadyIsThere
<1>5. ShownOnce' /\ ShownIsBehind'
    BY <1>1 DEF ShownOnce, ShownIsBehind, ToSet
<1>6. ~AtTheEnd' /\ Place' = pager.prev
    BY <1>1 DEF AtTheEnd, Place
<1>7. SteadyIsAhead'
    BY <1>1, <1>3, <1>6 DEF SteadyIsAhead, Beyond, Before
<1>8. QED BY <1>4, <1>5, <1>7 DEF PagerInv

\* A call shows rows that lie ahead, hence none a second time; and those that it
\* leaves for later lie behind the page's far end.
LEMMA ListContactsStep ==
    ASSUME AudienceInv, PagerInv, ListContacts
    PROVE  PagerInv'
<1> DEFINE D == {d \in Live \cap pager.ids : Beyond(Key(d), pager.cursor, pager.dir)}
           keys == {Key(c) : c \in D}
           page == BuildPage(Fetched(keys, pager.dir), pager.dir, pager.cursor # NoCursor)
           on == IF pager.dir = "forward" THEN page.next ELSE page.prev
           new == [k \in DOMAIN page.items |-> page.items[k][2]]
<1>1. /\ pager \in Pagers /\ pager.cursor \in Cursors /\ pager.dir \in {"forward", "backward"}
      /\ pager.shown \in Seq(ContactIds) /\ pager.steady \in SUBSET ContactIds
      /\ Live \subseteq ContactIds
    BY DEF PagerInv, PagerTyped, Pagers, Live
<1>2. /\ pager.pc = "rows" /\ UNCHANGED <<book, members, gone>>
      /\ pager' = [pager EXCEPT !.pc = "page", !.next = page.next, !.prev = page.prev,
                                !.shown = @ \o new]
    BY DEF ListContacts
<1>3. \A c \in Live : Key(c) \in Keys /\ Key(c) = <<book[c].at, c>> /\ Key(c)[2] = c
    BY <1>1 DEF AudienceInv, TablesTyped, ContactRow, Live, Key, Keys
<1>4. keys \subseteq Keys /\ IsFiniteSet(keys)
    <2>1. keys \subseteq Keys
        BY <1>3
    <2>2. IsFiniteSet(D)
        BY FS_Subset DEF AudienceInv, TablesTyped, PagerInv, PagerTyped
    <2> HIDE DEF D
    <2> DEFINE f == [c \in D |-> Key(c)]
    <2>3. f \in Surjection(D, keys)
        BY DEF Surjection
    <2>4. QED BY <2>1, <2>2, <2>3, FS_Surjection
<1>5. /\ page.items \in Seq(keys)
      /\ \A j, k \in DOMAIN page.items : page.items[j] = page.items[k] => j = k
      /\ page.next \in keys \cup {NoCursor} /\ page.prev \in keys \cup {NoCursor}
      /\ on = NoCursor => \A x \in keys : \E k \in DOMAIN page.items : page.items[k] = x
      /\ on # NoCursor =>
           /\ on \in keys
           /\ \A k \in DOMAIN page.items : page.items[k] = on \/ Before(page.items[k], on, pager.dir)
           /\ \A x \in keys : Before(on, x, pager.dir)
                              \/ \E k \in DOMAIN page.items : page.items[k] = x
    <2> HIDE DEF keys
    <2>1. QED BY <1>1, <1>4, PageIsNext
<1>6. /\ \A k \in DOMAIN page.items : new[k] \in D /\ page.items[k] = Key(new[k])
      /\ \A c \in D : (\E k \in DOMAIN page.items : page.items[k] = Key(c)) => c \in ToSet(new)
    <2> HIDE DEF page
    <2>1. \A k \in DOMAIN page.items : page.items[k] \in keys
        BY <1>5
    <2>2. \A k \in DOMAIN page.items : new[k] \in D /\ page.items[k] = Key(new[k])
        BY <1>3, <2>1
    <2> HIDE DEF D, keys
    <2>3. DOMAIN new = DOMAIN page.items /\ \A k \in DOMAIN page.items : new[k] = page.items[k][2]
        OBVIOUS
    <2> HIDE DEF new
    <2>4. D \subseteq Live
        BY DEF D
    <2>5. ASSUME NEW c \in D, NEW k \in DOMAIN page.items, page.items[k] = Key(c)
          PROVE  c \in ToSet(new)
        <3>1. new[k] = c
            BY <1>3, <2>3, <2>4, <2>5
        <3>2. QED BY <2>3, <2>5, <3>1 DEF ToSet
    <2>6. QED BY <2>2, <2>5
<1>7. new \in Seq(ContactIds) /\ DOMAIN new = DOMAIN page.items
    <2> HIDE DEF page, keys
    <2>1. DOMAIN new = DOMAIN page.items /\ new = [k \in DOMAIN page.items |-> new[k]]
        OBVIOUS
    <2>2. Len(page.items) \in Nat /\ DOMAIN page.items = 1..Len(page.items)
        BY <1>5
    <2> HIDE DEF new
    <2>3. \A k \in DOMAIN page.items : new[k] \in ContactIds
        BY <1>1, <1>6
    <2>4. QED BY <2>1, <2>2, <2>3
<1>8. /\ pager' \in Pagers /\ pager'.pc = "page" /\ pager'.next = page.next /\ pager'.prev = page.prev
      /\ pager'.shown = pager.shown \o new /\ pager'.scope = pager.scope
      /\ pager'.steady = pager.steady /\ pager'.dir = pager.dir
    <2>1. page.next \in Cursors /\ page.prev \in Cursors
        BY <1>4, <1>5 DEF Cursors
    <2>2. pager.shown \o new \in Seq(ContactIds)
        BY <1>1, <1>7
    <2>3. pager' = [pager EXCEPT !.pc = "page", !.next = page.next, !.prev = page.prev,
                                 !.shown = pager.shown \o new]
        BY <1>2
    <2> HIDE DEF page, new
    <2>4. QED BY <1>1, <2>1, <2>2, <2>3, ListedPager
<1>9. /\ Live' = Live /\ \A s : InScope(s)' = InScope(s)
      /\ \A c : Key(c)' = Key(c)
    BY <1>2 DEF InScope, On, Live, Key
<1>10. ~AtTheEnd /\ Place = pager.cursor
    BY <1>2 DEF AtTheEnd, Place
<1>11. Place' = on /\ (AtTheEnd' <=> on = NoCursor)
    BY <1>8 DEF Place, AtTheEnd, Onward
<1> HIDE DEF page, on, new
<1>12. ToSet(pager.shown) \cap D = {}
    BY <1>10 DEF PagerInv, ShownIsBehind
<1>13. ToSet(pager'.shown) = ToSet(pager.shown) \cup ToSet(new) /\ ToSet(new) \subseteq D
    <2>1. ToSet(new) \subseteq D
        BY <1>6, <1>7 DEF ToSet
    <2>2. ToSet(pager.shown \o new) = ToSet(pager.shown) \cup ToSet(new)
        <3> DEFINE n == Len(pager.shown)
                   m == Len(new)
        <3>1. /\ n \in Nat /\ m \in Nat /\ DOMAIN pager.shown = 1..n /\ DOMAIN new = 1..m
              /\ DOMAIN (pager.shown \o new) = 1..(n + m)
              /\ \A j \in 1..n : (pager.shown \o new)[j] = pager.shown[j]
              /\ \A j \in 1..m : (pager.shown \o new)[j + n] = new[j]
              /\ \A j \in 1..(n + m) : ~(j <= n) => (pager.shown \o new)[j] = new[j - n]
            BY <1>1, <1>7
        <3>2. /\ \A j \in 1..(n + m) : ~(j <= n) => j - n \in 1..m
              /\ \A j \in 1..m : j + n \in 1..(n + m)
              /\ \A j \in 1..n : j \in 1..(n + m)
              /\ \A j \in 1..(n + m) : j <= n => j \in 1..n
            BY <3>1
        <3> HIDE DEF n, m
        <3>3. ToSet(pager.shown \o new) \subseteq ToSet(pager.shown) \cup ToSet(new)
            BY <3>1, <3>2 DEF ToSet
        <3>4. ToSet(pager.shown) \cup ToSet(new) \subseteq ToSet(pager.shown \o new)
            <4>1. \A j \in 1..n : pager.shown[j] \in ToSet(pager.shown \o new)
                BY <3>1, <3>2 DEF ToSet
            <4>2. \A j \in 1..m : new[j] \in ToSet(pager.shown \o new)
                <5> TAKE j \in 1..m
                <5>1. j + n \in DOMAIN (pager.shown \o new) /\ (pager.shown \o new)[j + n] = new[j]
                    BY <3>1, <3>2
                <5>2. QED BY <5>1 DEF ToSet
            <4>3. QED BY <3>1, <4>1, <4>2 DEF ToSet
        <3>5. QED BY <3>3, <3>4
    <2>3. QED BY <1>8, <2>1, <2>2
<1>14. PagerTyped' /\ SteadyIsThere'
    BY <1>2, <1>8, <1>9 DEF PagerInv, PagerTyped, SteadyIsThere
<1>15. ShownOnce'
    <2>1. D \subseteq gone
        BY DEF AudienceInv, TablesTyped
    <2>2. \A j, k \in DOMAIN new : new[j] = new[k] => j = k
        BY <1>5, <1>6, <1>7
    <2>3. \A j, k \in DOMAIN pager.shown : pager.shown[j] = pager.shown[k] => j = k
        BY DEF PagerInv, ShownOnce
    <2> HIDE DEF D
    <2>4. \A j \in DOMAIN pager.shown, k \in DOMAIN new : pager.shown[j] # new[k]
        BY <1>12, <1>13 DEF ToSet
    <2>5. \A j, k \in DOMAIN (pager.shown \o new) : (pager.shown \o new)[j] = (pager.shown \o new)[k] => j = k
        <3> DEFINE n == Len(pager.shown)
                   m == Len(new)
        <3>1. /\ n \in Nat /\ m \in Nat /\ DOMAIN pager.shown = 1..n /\ DOMAIN new = 1..m
              /\ DOMAIN (pager.shown \o new) = 1..(n + m)
              /\ \A j \in 1..(n + m) : (pager.shown \o new)[j] = IF j <= n THEN pager.shown[j] ELSE new[j - n]
            BY <1>1, <1>7
        <3>2. \A j \in 1..(n + m) : ~(j <= n) => j - n \in 1..m
            BY <3>1
        <3> HIDE DEF n, m
        <3> SUFFICES ASSUME NEW j \in 1..(n + m), NEW k \in 1..(n + m),
                            (pager.shown \o new)[j] = (pager.shown \o new)[k]
                     PROVE  j = k
            BY <3>1
        <3>3. CASE j <= n /\ k <= n
            <4>1. j \in 1..n /\ k \in 1..n
                BY <3>1, <3>3
            <4>2. QED BY <2>3, <3>1, <3>3, <4>1
        <3>4. CASE ~(j <= n) /\ ~(k <= n)
            <4>1. j - n = k - n
                BY <2>2, <3>1, <3>2, <3>4
            <4>2. QED BY <3>1, <4>1
        <3>5. \A a \in 1..n, b \in 1..(n + m) :
                  ~(b <= n) => (pager.shown \o new)[a] # (pager.shown \o new)[b]
            <4> SUFFICES ASSUME NEW a \in 1..n, NEW b \in 1..(n + m), ~(b <= n)
                         PROVE  (pager.shown \o new)[a] # (pager.shown \o new)[b]
                OBVIOUS
            <4>1. (pager.shown \o new)[a] = pager.shown[a] /\ (pager.shown \o new)[b] = new[b - n]
                BY <3>1, SMTT(60)
            <4>2. QED BY <2>4, <3>1, <3>2, <4>1
        <3>6. j <= n <=> k <= n
            <4>1. /\ j <= n => j \in 1..n
                  /\ k <= n => k \in 1..n
                BY <3>1
            <4>2. QED BY <3>5, <4>1
        <3>7. QED BY <3>3, <3>4, <3>6
    <2>6. QED BY <1>2, <1>8, <1>13, <2>1, <2>5 DEF PagerInv, ShownOnce
<1>16. ShownIsBehind'
    <2> SUFFICES ASSUME on # NoCursor, NEW c \in Live, c \in ToSet(pager'.shown)
                 PROVE  ~Beyond(Key(c), on, pager.dir)
        BY <1>8, <1>9, <1>11 DEF ShownIsBehind
    <2>1. on \in keys /\ on \in Keys /\ Key(c) \in Keys
        BY <1>3, <1>4, <1>5
    <2>2. CASE c \in ToSet(new)
        <3>1. Key(c) = on \/ Before(Key(c), on, pager.dir)
            BY <1>5, <1>6, <1>7, <2>2 DEF ToSet
        <3>2. ~Before(on, Key(c), pager.dir)
            BY <2>1, <3>1, OrderIsTotal
        <3>3. QED BY <3>2 DEF Beyond
    <2>3. CASE c \in ToSet(pager.shown)
        <3>1. pager.cursor # NoCursor /\ ~Before(pager.cursor, Key(c), pager.dir)
            BY <1>10, <2>3 DEF PagerInv, ShownIsBehind, Beyond
        <3>2. pager.cursor \in Keys
            BY <1>1, <3>1 DEF Cursors
        <3>3. Before(pager.cursor, on, pager.dir)
            BY <2>1, <3>1 DEF Beyond
        <3>4. ~Before(on, Key(c), pager.dir)
            BY <2>1, <3>1, <3>2, <3>3, OrderIsTotal
        <3>5. QED BY <3>4 DEF Beyond
    <2>4. QED BY <1>13, <2>2, <2>3
<1>17. SteadyIsAhead'
    <2> SUFFICES ASSUME NEW c \in pager.steady, c \notin ToSet(pager'.shown)
                 PROVE  on # NoCursor /\ Beyond(Key(c), on, pager.dir)
        BY <1>8, <1>9, <1>11 DEF SteadyIsAhead
    <2>1. c \in D
        <3>1. c \notin ToSet(pager.shown)
            BY <1>13
        <3>2. c \in Live /\ c \in pager.ids
            BY <1>2 DEF PagerInv, SteadyIsThere, InScope, On
        <3>3. QED BY <1>10, <3>1, <3>2 DEF PagerInv, SteadyIsAhead
    <2>2. Key(c) \in keys /\ ~ \E k \in DOMAIN page.items : page.items[k] = Key(c)
        BY <1>6, <1>13, <2>1
    <2>3. QED BY <1>5, <2>2 DEF Beyond
<1>18. QED BY <1>14, <1>15, <1>16, <1>17 DEF PagerInv

LEMMA PagerInitInv == AudienceInit => PagerInv
<1> SUFFICES ASSUME AudienceInit PROVE PagerInv
    OBVIOUS
<1>1. /\ pager = ClosedPager /\ gone = DOMAIN StartBook
      /\ pager.pc = "closed" /\ pager.steady = {} /\ pager.shown = <<>> /\ pager.cursor = NoCursor
    BY DEF AudienceInit, ClosedPager
<1>2. ClosedPager \in Pagers
    BY DEF ClosedPager, Pagers, Cursors
<1>3. PagerTyped
    BY <1>1, <1>2, StartBookIsATable DEF PagerTyped
<1>4. QED BY <1>1, <1>3 DEF PagerInv, SteadyIsThere, ShownOnce, ShownIsBehind, SteadyIsAhead, ToSet

\* A write that changes no row's key and no membership leaves the reader alone.
LEMMA FieldsKeepPager ==
    ASSUME AudienceInv, AudienceInv', PagerInv, UNCHANGED <<members, pager, gone>>,
           \A c \in ContactIds : book'[c] = NoContact <=> book[c] = NoContact,
           \A c \in Live : book'[c].at = book[c].at
    PROVE  PagerInv'
<1>1. Live' = Live
    BY DEF Live
<1>2. InScope(pager.scope)' = InScope(pager.scope)
    BY <1>1 DEF InScope, On
<1>3. QED
    BY <1>1, <1>2, WriteKeepsPager DEF AudienceInv, PagerInv, PagerTyped, SteadyIsThere

LEMMA MirroredKeepsPager ==
    ASSUME AudienceInv, AudienceInv', PagerInv, UNCHANGED <<members, pager, gone>>,
           NEW e, NEW from \in Statuses, NEW to \in Statuses, book' = Mirrored(e, from, to)
    PROVE  PagerInv'
<1>1. ASSUME NEW c \in ContactIds
      PROVE  (book'[c] = NoContact <=> book[c] = NoContact) /\ book'[c].at = book[c].at
    <2>1. book[c] \in ContactRow \cup {NoContact}
        BY DEF AudienceInv, TablesTyped
    <2>2. book'[c] = book[c] \/ (book'[c] = [book[c] EXCEPT !.status = to] /\ book[c].status = from)
        BY DEF Mirrored
    <2>3. from # "none" /\ to # "none"
        BY DEF Statuses
    <2>4. CASE book[c] = NoContact
        BY <2>2, <2>3, <2>4 DEF NoContact
    <2>5. CASE book[c] \in ContactRow
        <3>1. book'[c] \in ContactRow /\ book'[c].at = book[c].at
            BY <2>2, <2>5 DEF ContactRow
        <3>2. QED BY <2>5, <3>1, RowIsThere
    <2>6. QED BY <2>1, <2>4, <2>5
<1>2. QED BY <1>1, FieldsKeepPager DEF Live

LEMMA CreateContactKeepsPager ==
    ASSUME AudienceInv, AudienceInv', PagerInv,
           NEW c \in ContactIds, NEW e \in Emails, NEW at \in Stamps, CreateContact(c, e, at)
    PROVE  PagerInv'
<1>1. /\ UNCHANGED <<members, pager>> /\ c \notin gone /\ gone' = gone \cup {c}
      /\ \A d \in ContactIds : d # c => book'[d] = book[d]
    BY DEF CreateContact, AudienceInv, TablesTyped
<1>2. c \notin Live /\ Live \subseteq Live' /\ Live' \subseteq Live \cup {c}
    BY <1>1 DEF AudienceInv, TablesTyped, Live
<1>3. InScope(pager.scope) \subseteq InScope(pager.scope)'
    BY <1>1, <1>2 DEF InScope, On
<1>4. IsFiniteSet(gone') /\ gone' \subseteq ContactIds
    BY <1>1, FS_AddElement DEF PagerInv, PagerTyped
<1>5. \A d \in Live \cap Live' : book'[d].at = book[d].at
    BY <1>1, <1>2 DEF Live
<1>6. QED
    BY <1>1, <1>2, <1>3, <1>4, <1>5, WriteKeepsPager DEF AudienceInv, PagerInv, SteadyIsThere

LEMMA DeleteContactKeepsPager ==
    ASSUME AudienceInv, AudienceInv', PagerInv, NEW c \in ContactIds, DeleteContact(c)
    PROVE  PagerInv'
<1> DEFINE kept == pager.steady \ {c}
<1>1. /\ pager' = [pager EXCEPT !.steady = kept] /\ UNCHANGED gone
      /\ members' = members \ {m \in members : m[2] = c}
      /\ \A d \in ContactIds : book'[d] = IF d = c THEN NoContact ELSE book[d]
    BY DEF DeleteContact, AudienceInv, TablesTyped
<1>2. Live' = Live \ {c}
    BY <1>1 DEF Live
<1>3. InScope(pager.scope) \ {c} \subseteq InScope(pager.scope)'
    BY <1>1, <1>2 DEF InScope, On
<1>4. kept \subseteq pager.steady /\ kept \subseteq InScope(pager.scope)'
    BY <1>3 DEF PagerInv, SteadyIsThere
<1>5. \A d \in Live \cap Live' : book'[d].at = book[d].at
    BY <1>1, <1>2 DEF Live
<1> HIDE DEF kept
<1>6. QED
    BY <1>1, <1>2, <1>4, <1>5, WriteKeepsPager DEF AudienceInv, PagerInv, PagerTyped

\* Memberships are added, or those taken away are of rows no longer waited for.
LEMMA MembersKeepPager ==
    ASSUME AudienceInv, AudienceInv', PagerInv, UNCHANGED <<book, gone>>,
           NEW kept, kept \subseteq pager.steady, kept \subseteq InScope(pager.scope)',
           \/ pager' = [pager EXCEPT !.steady = kept]
           \/ pager' = pager /\ kept = pager.steady
    PROVE  PagerInv'
<1>1. Live' = Live
    BY DEF Live
<1>2. QED BY <1>1, WriteKeepsPager DEF AudienceInv, PagerInv, PagerTyped

LEMMA MembershipWritesKeepPager ==
    ASSUME AudienceInv, AudienceInv', PagerInv, NEW l \in Lists
    PROVE  /\ DeleteContactList(l) => PagerInv'
           /\ \A c \in ContactIds : AddListMember(l, c) \/ RemoveListMember(l, c) => PagerInv'
<1>1. ASSUME DeleteContactList(l) PROVE PagerInv'
    <2> DEFINE kept == IF pager.scope = l THEN {} ELSE pager.steady
    <2>1. /\ UNCHANGED <<book, gone>> /\ members' = {m \in members : m[1] # l}
          /\ pager' = [pager EXCEPT !.steady = kept]
        BY <1>1 DEF DeleteContactList
    <2>2. kept \subseteq InScope(pager.scope)'
        BY <2>1 DEF PagerInv, SteadyIsThere, InScope, On, Live
    <2>3. kept \subseteq pager.steady
        OBVIOUS
    <2> HIDE DEF kept
    <2>4. QED BY <2>1, <2>2, <2>3, MembersKeepPager
<1>2. ASSUME NEW c \in ContactIds, AddListMember(l, c) PROVE PagerInv'
    <2>1. UNCHANGED <<book, gone, pager>> /\ members' = members \cup {<<l, c>>}
        BY <1>2 DEF AddListMember
    <2>2. pager.steady \subseteq InScope(pager.scope)'
        BY <2>1 DEF PagerInv, SteadyIsThere, InScope, On, Live
    <2>3. QED BY <2>1, <2>2, MembersKeepPager
<1>3. ASSUME NEW c \in ContactIds, RemoveListMember(l, c) PROVE PagerInv'
    <2> DEFINE kept == IF pager.scope = l THEN pager.steady \ {c} ELSE pager.steady
    <2>1. /\ UNCHANGED <<book, gone>> /\ members' = members \ {<<l, c>>}
          /\ pager' = [pager EXCEPT !.steady = kept]
        BY <1>3 DEF RemoveListMember
    <2>2. kept \subseteq InScope(pager.scope)'
        BY <2>1 DEF PagerInv, SteadyIsThere, InScope, On, Live
    <2>3. kept \subseteq pager.steady
        OBVIOUS
    <2> HIDE DEF kept
    <2>4. QED BY <2>1, <2>2, <2>3, MembersKeepPager
<1>4. QED BY <1>1, <1>2, <1>3

LEMMA PagerStepInv ==
    ASSUME AudienceInv, AudienceInv', PagerInv, [AudienceNext]_audienceVars
    PROVE  PagerInv'
<1>1. ASSUME NEW c \in ContactIds, NEW e \in Emails, UpdateContact(c, e) PROVE PagerInv'
    <2>1. /\ UNCHANGED <<members, pager, gone>> /\ c \in Live
          /\ book' = [book EXCEPT ![c].email = e]
        BY <1>1 DEF UpdateContact
    <2>2. \A d \in Live : book[d] \in ContactRow
        BY DEF AudienceInv, TablesTyped, Live
    <2>3. \A d \in ContactIds : d # c => book'[d] = book[d]
        BY <2>1 DEF AudienceInv, TablesTyped
    <2>4. book'[c] = [book[c] EXCEPT !.email = e]
        BY <2>1 DEF AudienceInv, TablesTyped
    <2>5. book'[c] \in ContactRow /\ book'[c].at = book[c].at
        BY <2>1, <2>2, <2>4 DEF ContactRow
    <2>6. \A d \in ContactIds : book'[d] = NoContact <=> book[d] = NoContact
        BY <2>1, <2>2, <2>3, <2>5, RowIsThere
    <2>7. \A d \in Live : book'[d].at = book[d].at
        BY <2>3, <2>5 DEF Live
    <2>8. QED BY <2>1, <2>6, <2>7, FieldsKeepPager
<1>2. ASSUME NEW l \in Lists, CreateContactList(l) \/ NameList(l) PROVE PagerInv'
    <2>1. UNCHANGED <<book, members, pager, gone>>
        BY <1>2 DEF CreateContactList, NameList
    <2>2. QED BY <2>1, FieldsKeepPager
<1>3. ASSUME NEW e \in Emails, NEW r \in Reasons, AddSuppression(e, r) PROVE PagerInv'
    <2>1. UNCHANGED <<book, members, pager, gone>>
        BY <1>3 DEF AddSuppression
    <2>2. QED BY <2>1, FieldsKeepPager
<1>4. ASSUME NEW e \in Emails, SuppressedElsewhere(e) \/ RemoveSuppression(e) PROVE PagerInv'
    BY <1>4, MirroredKeepsPager DEF SuppressedElsewhere, RemoveSuppression, Statuses
<1>5. ASSUME InsertBlock PROVE PagerInv'
    <2>1. UNCHANGED <<members, pager, gone>>
        BY <1>5 DEF InsertBlock
    <2>2. book' = Mirrored(block.email, "active", "suppressed") \/ book' = book
        BY <1>5 DEF InsertBlock
    <2>3. QED BY <2>1, <2>2, MirroredKeepsPager, FieldsKeepPager DEF Statuses
<1>6. ASSUME UNCHANGED audienceVars PROVE PagerInv'
    <2>1. UNCHANGED <<book, members, pager, gone>>
        BY <1>6 DEF audienceVars
    <2>2. QED BY <2>1, FieldsKeepPager
<1>7. ASSUME AudienceReads PROVE PagerInv'
    BY <1>7, OpenStep, ReadMembersStep, ListContactsStep, TurnPageStep, TurnBackStep DEF AudienceReads
<1>8. ASSUME AudienceWrites PROVE PagerInv'
    BY <1>1, <1>2, <1>3, <1>4, <1>5, <1>8, CreateContactKeepsPager, DeleteContactKeepsPager,
       MembershipWritesKeepPager DEF AudienceWrites
<1>9. QED BY <1>6, <1>7, <1>8 DEF AudienceNext

\* pagination.ts: whoever pages to the end of a table of any size, in pages of any
\* size, or back to the start, while others write, sees every row that was there
\* throughout, and none twice - though rows share a moment of creation.
THEOREM EveryRowIsShownOnce == AudienceSpec => []PagesShowEveryRow
<1>1. PagerInv => PagesShowEveryRow
    BY DEF PagerInv, ShownOnce, SteadyIsAhead, AtTheEnd, PagesShowEveryRow
<1>2. AudienceInit => AudienceInv /\ PagerInv
    BY AudienceInitInv, PagerInitInv
<1>3. AudienceInv /\ PagerInv /\ [AudienceNext]_audienceVars => AudienceInv' /\ PagerInv'
    BY AudienceStepInv, PagerStepInv
<1>4. QED BY <1>1, <1>2, <1>3, PTL DEF AudienceSpec

(***************************************************************************)
(* The sending domain.                                                     *)
(***************************************************************************)

RequiredChecks == {"dkim", "spf", "mailFrom"}

\* A row that counts a check as verified has been checked, and none of the
\* required ones is ever more than verified.
CheckedBefore(row) ==
    ("verified" \in {row.dkim, row.spf, row.mailFrom}) => row.checked

\* What the row holds verified, the authorities confirmed.
Backed(row) ==
    /\ row.dkim = "verified" => "dkim" \in proved
    /\ row.spf = "verified" => "spf" \in proved
    /\ row.mailFrom = "verified" => "mailFrom" \in proved

\* The columns of a row of sender_domains.
DomainRow ==
    [id : Nat, dkim : {"pending", "verified", "failed"}, spf : {"pending", "verified", "failed"},
     dmarc : {"pending", "verified", "failed", "not_configured"},
     mailFrom : {"pending", "verified", "failed", "not_configured"}, checked : BOOLEAN]

Places == {"idle", "provision", "check", "stamp", "insert"}

\* What each variable holds: rows are numbered from one, in the order they
\* were added.
SenderTypeOK ==
    /\ rowsAdded \in Nat
    /\ domain \in DomainRow /\ domain.id <= rowsAdded
    /\ domain # NoDomain => domain.id > 0
    /\ stamped \in [Senders -> {"none", "yes", "no"}]
    /\ proved \subseteq RequiredChecks
    /\ session \in [Sessions -> [pc : Places, row : DomainRow, usable : BOOLEAN, sender : Senders \cup {"none"}]]
    /\ \A k \in Sessions : session[k].row.id <= rowsAdded

\* The row of the domain, and every copy of it somebody read before, hold
\* verified only what was confirmed for it.
RowsAreBacked ==
    /\ CheckedBefore(domain) /\ (domain # NoDomain => Backed(domain))
    /\ \A k \in Sessions :
         /\ CheckedBefore(session[k].row)
         /\ Here(session[k].row) => Backed(session[k].row)

SenderInv == SenderTypeOK /\ RowsAreBacked

-----------------------------------------------------------------------------
\* A verdict is one of the values its column holds.
LEMMA ProviderStateTyped ==
    ASSUME NEW s
    PROVE  FromProviderState(s) \in {"pending", "verified", "failed"}
BY DEF FromProviderState

\* A check writes a row of the same number, checked, with verdicts its columns
\* hold.
LEMMA CheckedRowTyped ==
    ASSUME NEW before \in DomainRow, NEW says, NEW spf, NEW dmarc
    PROVE  LET after == ComputeVerification(before, says, spf, dmarc)
           IN  after \in DomainRow /\ after.id = before.id /\ after.checked
<1> DEFINE after == ComputeVerification(before, says, spf, dmarc)
<1>1. DkimStatus(before, says) \in {"pending", "verified", "failed"}
    BY ProviderStateTyped DEF DkimStatus, DomainRow
<1>2. SpfStatus(before, spf) \in {"pending", "verified", "failed"}
    BY DEF SpfStatus, DomainRow
<1>3. DmarcStatus(before, dmarc) \in {"pending", "verified", "failed", "not_configured"}
    BY DEF DmarcStatus, DomainRow
<1>4. MailFromStatus(before, says) \in {"pending", "verified", "failed", "not_configured"}
    BY ProviderStateTyped DEF MailFromStatus, DomainRow
<1> QED
    BY <1>1, <1>2, <1>3, <1>4 DEF ComputeVerification, DomainRow

\* What a check writes as verified was verified in the row it read, or is
\* confirmed by what it was told: a lookup that failed only carries the old
\* verdict forward.
LEMMA CheckedRowIsBacked ==
    ASSUME NEW before \in DomainRow, NEW says, NEW spf, NEW dmarc
    PROVE  LET after == ComputeVerification(before, says, spf, dmarc)
           IN  /\ after.dkim = "verified" => before.dkim = "verified" \/ "dkim" \in Confirmed(says, spf)
               /\ after.spf = "verified" => before.spf = "verified" \/ "spf" \in Confirmed(says, spf)
               /\ after.mailFrom = "verified" => before.mailFrom = "verified" \/ "mailFrom" \in Confirmed(says, spf)
<1> DEFINE after == ComputeVerification(before, says, spf, dmarc)
<1>1. /\ after.dkim = DkimStatus(before, says) /\ after.spf = SpfStatus(before, spf)
      /\ after.mailFrom = MailFromStatus(before, says)
    BY DEF ComputeVerification, DomainRow
<1>2. DkimStatus(before, says) = "verified" => before.dkim = "verified" \/ "dkim" \in Confirmed(says, spf)
    BY DEF DkimStatus, FromProviderState, Confirmed
<1>3. SpfStatus(before, spf) = "verified" => before.spf = "verified" \/ "spf" \in Confirmed(says, spf)
    BY DEF SpfStatus, Confirmed
<1>4. MailFromStatus(before, says) = "verified" => before.mailFrom = "verified" \/ "mailFrom" \in Confirmed(says, spf)
    BY DEF MailFromStatus, FromProviderState, Confirmed
<1> QED
    BY <1>1, <1>2, <1>3, <1>4

\* The authorities confirm nothing but required checks.
LEMMA ConfirmedTyped ==
    ASSUME NEW says, NEW spf
    PROVE  Confirmed(says, spf) \subseteq RequiredChecks
BY DEF Confirmed, RequiredChecks

\* A fresh row is typed, unchecked, and has nothing verified.
LEMMA NewDomainTyped ==
    ASSUME NEW id \in Nat
    PROVE  /\ NewDomain(id) \in DomainRow /\ NewDomain(id).id = id
           /\ CheckedBefore(NewDomain(id)) /\ Backed(NewDomain(id))
BY DEF NewDomain, DomainRow, CheckedBefore, Backed

\* A session that does nothing remembers no row.
LEMMA IdleTyped ==
    /\ Idle \in [pc : Places, row : DomainRow, usable : BOOLEAN, sender : Senders \cup {"none"}]
    /\ Idle.row = NoDomain /\ NoDomain.id = 0 /\ CheckedBefore(NoDomain) /\ NoDomain \in DomainRow
<1>1. NoDomain \in DomainRow /\ NoDomain.id = 0 /\ CheckedBefore(NoDomain)
    BY NewDomainTyped DEF NoDomain
<1> QED
    BY <1>1 DEF Idle, Places

-----------------------------------------------------------------------------
\* A session's move keeps the invariant when the row it holds afterwards is
\* typed, numbered, and backed if it is still the domain's.
LEMMA SessionStep ==
    ASSUME SenderInv, UNCHANGED <<domain, rowsAdded, proved>>,
           stamped' \in [Senders -> {"none", "yes", "no"}],
           NEW k \in Sessions, NEW next, Goes(k, next),
           next \in [pc : Places, row : DomainRow, usable : BOOLEAN, sender : Senders \cup {"none"}],
           next.row.id <= rowsAdded, CheckedBefore(next.row), Here(next.row) => Backed(next.row)
    PROVE  SenderInv'
<1>1. SenderTypeOK'
    BY DEF SenderInv, SenderTypeOK, Goes
<1>2. RowsAreBacked'
    BY DEF SenderInv, SenderTypeOK, RowsAreBacked, Goes, Here, Backed, CheckedBefore
<1> QED
    BY <1>1, <1>2 DEF SenderInv

\* A session that ends, or is cut off, keeps the invariant.
LEMMA SessionEnds ==
    ASSUME SenderInv, UNCHANGED <<domain, rowsAdded, proved>>,
           stamped' \in [Senders -> {"none", "yes", "no"}],
           NEW k \in Sessions, Goes(k, Idle)
    PROVE  SenderInv'
<1>1. Idle.row.id <= rowsAdded /\ ~Here(Idle.row)
    BY IdleTyped DEF SenderInv, SenderTypeOK, Here
<1> QED
    BY <1>1, IdleTyped, SessionStep

-----------------------------------------------------------------------------
\* At first there is no domain.
LEMMA SenderInitInv == SenderInit => SenderInv
<1> SUFFICES ASSUME SenderInit PROVE SenderInv
    OBVIOUS
<1>1. SenderTypeOK
    BY IdleTyped DEF SenderInit, SenderTypeOK, RequiredChecks
<1>2. RowsAreBacked
    BY IdleTyped DEF SenderInit, RowsAreBacked, Here
<1> QED
    BY <1>1, <1>2 DEF SenderInv

\* A domain added again is a row with a number of its own: no check of the
\* earlier row counts for it, and none is left that could write to it.
LEMMA InsertDomainStep ==
    ASSUME SenderInv, NEW k \in Sessions, InsertDomain(k)
    PROVE  SenderInv'
<1> DEFINE next == [Idle EXCEPT !.pc = "provision", !.row = domain']
<1>1. Goes(k, next) /\ UNCHANGED stamped
    BY DEF InsertDomain
<1>2. CASE domain = NoDomain
    <2>1. domain' = NewDomain(rowsAdded + 1) /\ proved' = {} /\ rowsAdded' = rowsAdded + 1
        BY <1>2 DEF InsertDomain
    <2>2. rowsAdded \in Nat /\ rowsAdded + 1 \in Nat
        BY DEF SenderInv, SenderTypeOK
    <2>3. domain' \in DomainRow /\ domain'.id = rowsAdded + 1 /\ CheckedBefore(domain')
        BY <2>1, <2>2, NewDomainTyped
    <2>4. domain'.dkim = "pending" /\ domain'.spf = "pending" /\ domain'.mailFrom = "not_configured"
        BY <2>1 DEF NewDomain
    <2>5. /\ next \in [pc : Places, row : DomainRow, usable : BOOLEAN, sender : Senders \cup {"none"}]
          /\ next.row = domain'
        BY <2>3, IdleTyped DEF Places
    <2>6. SenderTypeOK'
        <3>1. rowsAdded' \in Nat /\ rowsAdded <= rowsAdded' /\ domain'.id <= rowsAdded' /\ domain'.id > 0
            BY <2>1, <2>2, <2>3
        <3> HIDE DEF next
        <3>2. /\ session' \in [Sessions -> [pc : Places, row : DomainRow, usable : BOOLEAN, sender : Senders \cup {"none"}]]
              /\ \A j \in Sessions : session'[j] = IF j = k THEN next ELSE session[j]
            BY <1>1, <2>5 DEF SenderInv, SenderTypeOK, Goes
        <3>3. \A j \in Sessions : session'[j].row.id <= rowsAdded'
            <4> TAKE j \in Sessions
            <4>1. session[j].row.id <= rowsAdded /\ session[j].row.id \in Nat
                BY DEF SenderInv, SenderTypeOK, DomainRow
            <4> QED
                BY <2>2, <2>5, <3>1, <3>2, <4>1
        <3> QED
            BY <1>1, <2>1, <2>3, <3>1, <3>2, <3>3 DEF SenderInv, SenderTypeOK, RequiredChecks
    <2>7. ASSUME NEW j \in Sessions
          PROVE  CheckedBefore(session'[j].row) /\ (Here(session[j].row)' => Backed(session[j].row)')
        <3>1. CASE j = k
            BY <1>1, <2>3, <2>4, <2>5, <3>1 DEF Goes, SenderInv, SenderTypeOK, Backed
        <3>2. CASE j # k
            <4>1. session'[j] = session[j] /\ session[j].row.id <= rowsAdded /\ session[j].row \in DomainRow
                BY <1>1, <3>2 DEF Goes, SenderInv, SenderTypeOK
            <4>2. ~Here(session[j].row)'
                BY <2>2, <2>3, <4>1 DEF Here, DomainRow
            <4> QED
                BY <4>1, <4>2 DEF SenderInv, RowsAreBacked
        <3> QED
            BY <3>1, <3>2
    <2>8. Backed(domain)'
        BY <2>4 DEF Backed
    <2>9. RowsAreBacked'
        BY <2>3, <2>7, <2>8 DEF RowsAreBacked, CheckedBefore
    <2> QED
        BY <2>6, <2>9 DEF SenderInv
<1>3. CASE domain # NoDomain
    <2>1. UNCHANGED <<domain, rowsAdded, proved>>
        BY <1>3 DEF InsertDomain
    <2>2. /\ next \in [pc : Places, row : DomainRow, usable : BOOLEAN, sender : Senders \cup {"none"}]
          /\ next.row = domain
        BY <2>1, IdleTyped DEF Places, SenderInv, SenderTypeOK
    <2> QED
        BY <1>1, <1>3, <2>1, <2>2, SessionStep DEF SenderInv, SenderTypeOK, RowsAreBacked
<1> QED
    BY <1>2, <1>3

\* A request that takes up the row as it stands knows what is confirmed.
LEMMA RereadStep ==
    ASSUME SenderInv, UNCHANGED <<domain, rowsAdded, proved, stamped>>, domain # NoDomain,
           NEW k \in Sessions, NEW from, NEW place \in Places, NEW i \in Senders \cup {"none"},
           from = Idle \/ from = session[k],
           \/ Goes(k, [from EXCEPT !.pc = place, !.row = domain])
           \/ Goes(k, [from EXCEPT !.pc = place, !.row = domain, !.sender = i])
    PROVE  SenderInv'
<1>1. from \in [pc : Places, row : DomainRow, usable : BOOLEAN, sender : Senders \cup {"none"}]
    BY IdleTyped DEF SenderInv, SenderTypeOK
<1>2. stamped' \in [Senders -> {"none", "yes", "no"}] /\ domain \in DomainRow
    BY DEF SenderInv, SenderTypeOK
<1>3. ASSUME NEW next, Goes(k, next), next.row = domain,
             next \in [pc : Places, row : DomainRow, usable : BOOLEAN, sender : Senders \cup {"none"}]
      PROVE  SenderInv'
    BY <1>2, <1>3, SessionStep DEF SenderInv, SenderTypeOK, RowsAreBacked
<1>4. CASE Goes(k, [from EXCEPT !.pc = place, !.row = domain])
    BY <1>1, <1>2, <1>3, <1>4
<1>5. CASE Goes(k, [from EXCEPT !.pc = place, !.row = domain, !.sender = i])
    BY <1>1, <1>2, <1>3, <1>5
<1> QED
    BY <1>4, <1>5

\* A check writes what it computed from the row it read, or nothing when that
\* row is gone; either way what is verified was confirmed for this row.
LEMMA RunDomainCheckStep ==
    ASSUME SenderInv, NEW k \in Sessions, RunDomainCheck(k)
    PROVE  SenderInv'
<1> DEFINE before == session[k].row
<1>1. PICK says \in ProviderSays, spf \in SpfAnswers, dmarc \in DmarcAnswers :
        LET after == ComputeVerification(before, says, spf, dmarc) IN
        /\ domain' = IF Here(before) THEN after ELSE domain
        /\ proved' = IF Here(before) THEN proved \cup Confirmed(says, spf) ELSE proved
        /\ Goes(k, IF IsDomainUsable(after) # IsDomainUsable(before)
                   THEN [session[k] EXCEPT !.pc = "stamp", !.usable = IsDomainUsable(after)] ELSE Idle)
        /\ UNCHANGED <<stamped, named, rowsAdded, tasks>>
    BY DEF RunDomainCheck
<1> DEFINE after == ComputeVerification(before, says, spf, dmarc)
<1> DEFINE next == IF IsDomainUsable(after) # IsDomainUsable(before)
                   THEN [session[k] EXCEPT !.pc = "stamp", !.usable = IsDomainUsable(after)] ELSE Idle
<1>2. before \in DomainRow /\ before.id <= rowsAdded /\ CheckedBefore(before) /\ rowsAdded \in Nat
    BY DEF SenderInv, SenderTypeOK, RowsAreBacked
<1>3. after \in DomainRow /\ after.id = before.id /\ after.checked
    BY <1>2, CheckedRowTyped
<1>4. IsDomainUsable(after) \in BOOLEAN
    BY DEF IsDomainUsable
<1>5. next \in [pc : Places, row : DomainRow, usable : BOOLEAN, sender : Senders \cup {"none"}]
    BY <1>4, IdleTyped DEF SenderInv, SenderTypeOK, Places
<1>6. next.row = before \/ next.row = NoDomain
    BY IdleTyped DEF SenderInv, SenderTypeOK
<1> HIDE DEF after, next
<1>7. Goes(k, next) /\ UNCHANGED <<stamped, rowsAdded>>
    BY <1>1 DEF after, next
<1>8. CASE ~Here(before)
    <2>1. UNCHANGED <<domain, rowsAdded, proved>>
        BY <1>1, <1>8 DEF after
    <2>2. ~Here(next.row) /\ next.row.id <= rowsAdded /\ CheckedBefore(next.row)
        BY <1>2, <1>6, <1>8, IdleTyped DEF Here, SenderInv, SenderTypeOK
    <2>3. stamped' \in [Senders -> {"none", "yes", "no"}]
        BY <1>7 DEF SenderInv, SenderTypeOK
    <2> QED
        BY <1>5, <1>7, <2>1, <2>2, <2>3, SessionStep
<1>9. CASE Here(before)
    <2>1. domain' = after /\ proved' = proved \cup Confirmed(says, spf)
        BY <1>1, <1>9 DEF after
    <2>2. domain # NoDomain /\ domain.id = before.id /\ domain.id > 0 /\ domain.id <= rowsAdded
        BY <1>9 DEF Here, SenderInv, SenderTypeOK
    <2>3. Backed(before)
        BY <1>9 DEF SenderInv, RowsAreBacked
    <2>4. Backed(domain)'
        BY <1>2, <2>1, <2>3, CheckedRowIsBacked DEF Backed, after
    <2>5. ASSUME NEW row, Backed(row)
          PROVE  Backed(row)'
        BY <2>1, <2>5 DEF Backed
    <2>6. SenderTypeOK'
        <3>1. proved' \subseteq RequiredChecks
            BY <2>1, ConfirmedTyped DEF SenderInv, SenderTypeOK
        <3>2. next.row.id <= rowsAdded
            BY <1>2, <1>6, IdleTyped
        <3> QED
            BY <1>2, <1>3, <1>5, <1>7, <2>1, <2>2, <3>1, <3>2 DEF SenderInv, SenderTypeOK, Goes
    <2>7. ASSUME NEW j \in Sessions
          PROVE  CheckedBefore(session'[j].row) /\ (Here(session[j].row)' => Backed(session[j].row)')
        <3>1. session'[j].row = session[j].row \/ session'[j].row = NoDomain
            BY <1>6, <1>7 DEF Goes, SenderInv, SenderTypeOK
        <3>2. CASE session'[j].row = NoDomain
            BY <1>3, <2>1, <2>2, <3>2, IdleTyped DEF Here
        <3>3. CASE session'[j].row = session[j].row
            <4>1. Here(session[j].row)' => Here(session[j].row)
                BY <1>3, <2>1, <2>2, <3>3 DEF Here
            <4>2. Here(session[j].row) => Backed(session[j].row)'
                BY <2>1, <3>3 DEF SenderInv, RowsAreBacked, Backed
            <4> QED
                BY <3>3, <4>1, <4>2 DEF SenderInv, RowsAreBacked
        <3> QED
            BY <3>1, <3>2, <3>3
    <2>8. RowsAreBacked'
        BY <1>3, <2>1, <2>4, <2>7 DEF RowsAreBacked, CheckedBefore
    <2> QED
        BY <2>6, <2>8 DEF SenderInv
<1> QED
    BY <1>8, <1>9

\* Every other step leaves the rows and what was confirmed alone, or removes
\* the domain.
LEMMA SenderStepInv == SenderInv /\ [SenderNext]_senderVars => SenderInv'
<1> SUFFICES ASSUME SenderInv, [SenderNext]_senderVars PROVE SenderInv'
    OBVIOUS
<1>1. ASSUME NEW k \in Sessions, Provision(k) PROVE SenderInv'
    <2>1. stamped' \in [Senders -> {"none", "yes", "no"}]
        BY <1>1 DEF Provision, SenderInv, SenderTypeOK
    <2>2. CASE Goes(k, Idle)
        BY <1>1, <2>1, <2>2, SessionEnds DEF Provision
    <2>3. CASE Here(session[k].row) /\ Goes(k, [session[k] EXCEPT !.pc = "check", !.row = domain])
        BY <1>1, <2>3, RereadStep DEF Provision, Here, Places
    <2> QED
        BY <1>1, <2>2, <2>3 DEF Provision
<1>2. ASSUME NEW k \in Sessions, VerifySenderDomain(k) PROVE SenderInv'
    BY <1>2, RereadStep DEF VerifySenderDomain, Places
<1>3. ASSUME NEW k \in Sessions, SetIdentityVerification(k) PROVE SenderInv'
    <2>1. stamped' \in [Senders -> {"none", "yes", "no"}]
        BY <1>3 DEF SetIdentityVerification, SenderInv, SenderTypeOK
    <2> QED
        BY <1>3, <2>1, SessionEnds DEF SetIdentityVerification
<1>4. ASSUME NEW k \in Sessions, InsertIdentity(k) PROVE SenderInv'
    <2>1. stamped' \in [Senders -> {"none", "yes", "no"}]
        BY <1>4 DEF InsertIdentity, SenderInv, SenderTypeOK
    <2> QED
        BY <1>4, <2>1, SessionEnds DEF InsertIdentity
<1>5. ASSUME NEW k \in Sessions, CutOff(k) PROVE SenderInv'
    <2>1. stamped' \in [Senders -> {"none", "yes", "no"}]
        BY <1>5 DEF CutOff, SenderInv, SenderTypeOK
    <2> QED
        BY <1>5, <2>1, SessionEnds DEF CutOff
<1>6. ASSUME NEW k \in Sessions, NEW i \in Senders, CreateSenderIdentity(k, i) PROVE SenderInv'
    BY <1>6, RereadStep DEF CreateSenderIdentity, Places
<1>7. ASSUME UNCHANGED <<domain, session, rowsAdded, proved>>,
             stamped' \in [Senders -> {"none", "yes", "no"}]
      PROVE  SenderInv'
    BY <1>7 DEF SenderInv, SenderTypeOK, RowsAreBacked, Backed, CheckedBefore, Here
<1>8. ASSUME NEW i \in Senders, NameSender(i) \/ DeleteSenderIdentity(i) PROVE SenderInv'
    <2>1. stamped' \in [Senders -> {"none", "yes", "no"}]
        BY <1>8 DEF NameSender, DeleteSenderIdentity, SenderInv, SenderTypeOK
    <2> QED
        BY <1>7, <1>8, <2>1 DEF NameSender, DeleteSenderIdentity
<1>9. ASSUME RemoveSenderDomain PROVE SenderInv'
    <2>1. SenderTypeOK'
        BY <1>9, IdleTyped DEF RemoveSenderDomain, SenderInv, SenderTypeOK, RequiredChecks
    <2>2. RowsAreBacked'
        BY <1>9, IdleTyped DEF RemoveSenderDomain, SenderInv, RowsAreBacked, Here, CheckedBefore
    <2> QED
        BY <2>1, <2>2 DEF SenderInv
<1>10. ASSUME UNCHANGED senderVars PROVE SenderInv'
    <2>1. stamped' \in [Senders -> {"none", "yes", "no"}]
        BY <1>10 DEF senderVars, SenderInv, SenderTypeOK
    <2> QED
        BY <1>7, <1>10, <2>1 DEF senderVars
<1> QED
    BY <1>1, <1>2, <1>3, <1>4, <1>5, <1>6, <1>8, <1>9, <1>10, InsertDomainStep, RunDomainCheckStep DEF SenderNext

-----------------------------------------------------------------------------
\* readiness.ts: each column the verdict reads is verified in the row.
LEMMA ReadyRow ==
    ASSUME SenderInv, NEW i \in Senders, stamped[i] # "none", domain # NoDomain
    PROVE  /\ EvaluateSenderReadiness(i) \subseteq {"identity_not_marked_verified"} <=> IsDomainUsable(domain)
           /\ EvaluateSenderReadiness(i) = {} <=> IsDomainUsable(domain) /\ stamped[i] = "yes"
<1>1. stamped[i] \in {"yes", "no"}
    BY DEF SenderInv, SenderTypeOK
<1>2. IsDomainUsable(domain) <=> domain.dkim = "verified" /\ domain.spf = "verified" /\ domain.mailFrom = "verified"
    BY DEF IsDomainUsable, Required
<1>3. IsDomainUsable(domain) => domain.checked
    BY <1>2 DEF SenderInv, RowsAreBacked, CheckedBefore
<1> QED
    BY <1>1, <1>2, <1>3 DEF EvaluateSenderReadiness

\* The badge shows a domain as working exactly while it may be sent from.
LEMMA BadgeIsUsable ==
    ASSUME NEW row
    PROVE  DomainReadiness(row) \in {"VERIFIED", "ATTENTION"} <=> IsDomainUsable(row)
BY DEF DomainReadiness, IsDomainUsable

\* The invariant says what an address that is ready rests on.
LEMMA BackedIsProved == SenderInv => ReadyIsProved
<1> SUFFICES ASSUME SenderInv, NEW i \in Senders
             PROVE  /\ EvaluateSenderReadiness(i) = {} =>
                         /\ stamped[i] = "yes" /\ domain # NoDomain
                         /\ proved = {"dkim", "spf", "mailFrom"}
                    /\ stamped[i] # "none" =>
                         (EvaluateSenderReadiness(i) \subseteq {"identity_not_marked_verified"}
                            <=> DomainReadiness(domain) \in {"VERIFIED", "ATTENTION"})
    BY DEF ReadyIsProved
<1>1. CASE stamped[i] = "none"
    BY <1>1 DEF EvaluateSenderReadiness
<1>2. CASE stamped[i] # "none" /\ domain = NoDomain
    <2>1. ~IsDomainUsable(domain)
        BY <1>2 DEF NoDomain, NewDomain, IsDomainUsable, Required
    <2> QED
        BY <1>2, <2>1, BadgeIsUsable DEF EvaluateSenderReadiness
<1>3. CASE stamped[i] # "none" /\ domain # NoDomain
    <2>1. IsDomainUsable(domain) => proved = {"dkim", "spf", "mailFrom"}
        BY <1>3 DEF IsDomainUsable, Required, SenderInv, SenderTypeOK, RowsAreBacked, Backed, RequiredChecks
    <2> QED
        BY <1>3, <2>1, ReadyRow, BadgeIsUsable
<1> QED
    BY <1>1, <1>2, <1>3

\* An address is ready only while it exists, is stamped, and the provider and
\* the DNS have each confirmed their part for this very row of its domain,
\* however many requests check, remove and add the domain at the same time,
\* and whatever fails meanwhile.
THEOREM ReadyAddressesAreProved == SenderSpec => []ReadyIsProved
<1>1. SenderSpec => []SenderInv
    BY SenderInitInv, SenderStepInv, PTL DEF SenderSpec
<1> QED
    BY <1>1, BackedIsProved, PTL

(***************************************************************************)
(* The templates.                                                          *)
(***************************************************************************)

TemplateRow == [id : Nat, version : Nat, content : Contents \cup {"none"}]

\* Rows stand under their own id, and the ids given out are the first ones.
TemplatesTyped ==
    /\ templatesMade \in Nat
    /\ templates \in [1..MaxTemplates -> TemplateRow]
    /\ \A i \in 1..MaxTemplates :
          templates[i] # NoTemplate => templates[i].id = i /\ i <= templatesMade
    /\ frozen \in [Campaigns -> TemplateRow] /\ reading \in [Campaigns -> TemplateRow]
    /\ uses \in [Campaigns -> 0..MaxTemplates]

\* A copy is of a template that was made, if of any, and no newer than its row,
\* while there is one: an id is not given out again, and a version only grows.
CopyIsNoNewer(s) ==
    /\ s = NoTemplate \/ s.id \in 1..templatesMade
    /\ \A i \in 1..MaxTemplates :
          templates[i] # NoTemplate /\ s.id = i => s.version <= templates[i].version

Copies == {templates[i] : i \in 1..MaxTemplates} \cup {frozen[c] : c \in Campaigns}
            \cup {reading[c] : c \in Campaigns}

SameContent(s, t) == s.id = t.id /\ s.version = t.version => s.content = t.content

TemplateInv ==
    /\ TemplatesTyped
    /\ \A s \in Copies : CopyIsNoNewer(s)
    /\ \A s, t \in Copies : SameContent(s, t)

LEMMA AbsentTemplate == NoTemplate \in TemplateRow /\ NoTemplate.id = 0 /\ NoTemplate.version = 0
BY DEF NoTemplate, TemplateRow

LEMMA TemplateInitInv == TemplateInit => TemplateInv
<1> SUFFICES ASSUME TemplateInit PROVE TemplateInv
    OBVIOUS
<1>1. TemplatesTyped
    BY AbsentTemplate, TemplateNumbers DEF TemplateInit, TemplatesTyped
<1>2. \A s \in Copies : s = NoTemplate
    BY DEF TemplateInit, Copies
<1>3. \A i \in 1..MaxTemplates : templates[i] = NoTemplate
    BY DEF TemplateInit
<1>4. QED BY <1>1, <1>2, <1>3 DEF TemplateInv, CopyIsNoNewer, SameContent

\* A step that writes no row, and copies only what is a copy already or nothing,
\* keeps the invariant.
LEMMA CopyingKeepsInv ==
    ASSUME TemplateInv, TemplatesTyped', UNCHANGED <<templates, templatesMade>>,
           Copies' \subseteq Copies \cup {NoTemplate}
    PROVE  TemplateInv'
<1>1. \A i \in 1..MaxTemplates : templates[i] # NoTemplate => templates[i].id # 0
    BY DEF TemplateInv, TemplatesTyped
<1>2. \A s \in Copies' : CopyIsNoNewer(s)'
    BY <1>1, AbsentTemplate, TemplateNumbers DEF TemplateInv, CopyIsNoNewer
<1>3. \A s \in Copies : s.id = 0 => s = NoTemplate
    BY DEF TemplateInv, CopyIsNoNewer, TemplatesTyped
<1>4. \A s, t \in Copies' : SameContent(s, t)'
    BY <1>3, AbsentTemplate DEF TemplateInv, SameContent
<1>5. QED BY <1>2, <1>4 DEF TemplateInv

\* A new row has an id that no copy has.
LEMMA CreateTemplateInv ==
    ASSUME TemplateInv, NEW x \in Contents, CreateTemplate(x)
    PROVE  TemplateInv'
<1> DEFINE id  == templatesMade + 1
           row == [id |-> id, version |-> 1, content |-> x]
<1>1. /\ id \in 1..MaxTemplates /\ row \in TemplateRow /\ row # NoTemplate
      /\ templates' = [templates EXCEPT ![id] = row] /\ templatesMade' = id
      /\ UNCHANGED <<uses, frozen, reading>>
    BY TemplateNumbers DEF CreateTemplate, TemplateInv, TemplatesTyped, TemplateRow, NoTemplate
<1>2. TemplatesTyped'
    BY <1>1, TemplateNumbers DEF TemplateInv, TemplatesTyped
<1>3. \A s \in Copies' : s = row \/ s \in Copies
    BY <1>1 DEF Copies, TemplateInv, TemplatesTyped
<1>4. \A s \in Copies : s.id # id
    BY AbsentTemplate DEF TemplateInv, TemplatesTyped, CopyIsNoNewer
<1>5. row.id = id /\ row.version = 1
    OBVIOUS
<1>6. \A s \in Copies' : CopyIsNoNewer(s)'
    <2> TAKE s \in Copies'
    <2>1. s = NoTemplate \/ s.id \in 1..templatesMade'
        BY <1>1, <1>3, <1>5 DEF TemplateInv, TemplatesTyped, CopyIsNoNewer
    <2>2. ASSUME NEW i \in 1..MaxTemplates, templates'[i] # NoTemplate, s.id = i
          PROVE  s.version <= templates'[i].version
        <3>1. CASE i = id
            BY <1>1, <1>3, <1>4, <1>5, <2>2, <3>1 DEF TemplateInv, TemplatesTyped
        <3>2. CASE i # id
            BY <1>1, <1>3, <1>5, <2>2, <3>2 DEF TemplateInv, TemplatesTyped, CopyIsNoNewer
        <3>3. QED BY <3>1, <3>2
    <2>3. QED BY <2>1, <2>2 DEF CopyIsNoNewer
<1>7. \A s, t \in Copies' : SameContent(s, t)'
    BY <1>3, <1>4, <1>5 DEF TemplateInv, SameContent
<1>8. QED BY <1>2, <1>6, <1>7 DEF TemplateInv

\* A save takes a version above that of every copy, unless it changes nothing.
LEMMA UpdateTemplateInv ==
    ASSUME TemplateInv, NEW i \in 1..MaxTemplates, NEW x \in Contents, UpdateTemplate(i, x)
    PROVE  TemplateInv'
<1> DEFINE old == templates[i]
           row == [id |-> i, version |-> old.version + 1, content |-> x]
<1>1. /\ old # NoTemplate /\ old \in TemplateRow /\ old.id = i
      /\ UNCHANGED <<uses, frozen, reading, templatesMade>>
    BY DEF UpdateTemplate, TemplateInv, TemplatesTyped
<1>2. CASE old.content = x
    <2>1. templates' = templates
        BY <1>2 DEF UpdateTemplate, TemplateInv, TemplatesTyped
    <2>2. TemplatesTyped' /\ Copies' = Copies
        BY <1>1, <2>1 DEF TemplateInv, TemplatesTyped, Copies
    <2>3. QED BY <1>1, <2>1, <2>2, CopyingKeepsInv
<1>3. CASE old.content # x
    <2>1. templates' = [templates EXCEPT ![i] = row]
        BY <1>3 DEF UpdateTemplate
    <2>2. /\ row \in TemplateRow /\ row.id = i /\ row.version = old.version + 1
          /\ row # NoTemplate
        BY <1>1, AbsentTemplate DEF TemplateRow
    <2> HIDE DEF row, old
    <2>3. TemplatesTyped'
        BY <1>1, <2>1, <2>2 DEF TemplateInv, TemplatesTyped, old
    <2>4. \A s \in Copies' : s = row \/ s \in Copies
        BY <1>1, <2>1 DEF Copies, TemplateInv, TemplatesTyped
    <2>5. \A s \in Copies : s \in TemplateRow /\ (s.id = i => s.version <= old.version)
        <3>1. Copies \subseteq TemplateRow
            BY DEF Copies, TemplateInv, TemplatesTyped
        <3>2. QED BY <1>1, <3>1 DEF TemplateInv, CopyIsNoNewer, old
    <2>6. \A s \in Copies' : CopyIsNoNewer(s)'
        <3> TAKE s \in Copies'
        <3>1. s = NoTemplate \/ s.id \in 1..templatesMade'
            BY <1>1, <2>2, <2>4 DEF TemplateInv, TemplatesTyped, CopyIsNoNewer, old
        <3>2. ASSUME NEW k \in 1..MaxTemplates, templates'[k] # NoTemplate, s.id = k
              PROVE  s.version <= templates'[k].version
            <4>1. CASE k = i
                BY <1>1, <2>1, <2>2, <2>4, <2>5, <3>2, <4>1
                   DEF TemplateInv, TemplatesTyped, TemplateRow
            <4>2. CASE k # i
                BY <2>1, <2>2, <2>4, <3>2, <4>2 DEF TemplateInv, TemplatesTyped, CopyIsNoNewer
            <4>3. QED BY <4>1, <4>2
        <3>3. QED BY <3>1, <3>2 DEF CopyIsNoNewer
    <2>7. \A s, t \in Copies' : SameContent(s, t)'
        <3>1. \A s \in Copies : ~(s.id = row.id /\ s.version = row.version)
            BY <1>1, <2>2, <2>5 DEF TemplateRow
        <3>2. QED BY <2>4, <3>1 DEF TemplateInv, SameContent
    <2>8. QED BY <2>3, <2>6, <2>7 DEF TemplateInv
<1>4. QED BY <1>2, <1>3

\* A template is deleted; its copies stay, and its id is spent.
LEMMA DeleteTemplateInv ==
    ASSUME TemplateInv, NEW i \in 1..MaxTemplates, DeleteTemplate(i)
    PROVE  TemplateInv'
<1>1. /\ templates' = [templates EXCEPT ![i] = NoTemplate]
      /\ UNCHANGED <<uses, frozen, reading, templatesMade>>
    BY DEF DeleteTemplate
<1>2. TemplatesTyped'
    BY <1>1, AbsentTemplate DEF TemplateInv, TemplatesTyped
<1>3. \A s \in Copies' : s = NoTemplate \/ s \in Copies
    BY <1>1 DEF Copies, TemplateInv, TemplatesTyped
<1>4. \A k \in 1..MaxTemplates : templates'[k] # NoTemplate => templates'[k] = templates[k]
    BY <1>1 DEF TemplateInv, TemplatesTyped
<1>5. \A s \in Copies' : CopyIsNoNewer(s)'
    BY <1>1, <1>3, <1>4, AbsentTemplate DEF TemplateInv, CopyIsNoNewer
<1>6. \A s \in Copies : s.id = 0 => s = NoTemplate
    BY DEF TemplateInv, CopyIsNoNewer, TemplatesTyped
<1>7. \A s, t \in Copies' : SameContent(s, t)'
    BY <1>3, <1>6, AbsentTemplate DEF TemplateInv, SameContent
<1>8. QED BY <1>2, <1>5, <1>7 DEF TemplateInv

LEMMA TemplateStepInv == TemplateInv /\ [TemplateNext]_templateVars => TemplateInv'
<1> SUFFICES ASSUME TemplateInv, [TemplateNext]_templateVars PROVE TemplateInv'
    OBVIOUS
<1>1. CASE \E x \in Contents : CreateTemplate(x)
    BY <1>1, CreateTemplateInv
<1>2. CASE \E x \in Contents, i \in 1..MaxTemplates : UpdateTemplate(i, x)
    BY <1>2, UpdateTemplateInv
<1>3. CASE \E i \in 1..MaxTemplates : DeleteTemplate(i)
    BY <1>3, DeleteTemplateInv
<1>4. ASSUME NEW c \in Campaigns, NEW i \in 0..MaxTemplates, ChooseTemplate(c, i)
      PROVE  TemplateInv'
    <2>1. TemplatesTyped' /\ Copies' = Copies /\ UNCHANGED <<templates, templatesMade>>
        BY <1>4 DEF ChooseTemplate, TemplateInv, TemplatesTyped, Copies
    <2>2. QED BY <2>1, CopyingKeepsInv
<1>5. ASSUME NEW c \in Campaigns, ReadTemplate(c)
      PROVE  TemplateInv'
    <2>1. uses[c] \in 1..MaxTemplates
        BY <1>5, TemplateNumbers DEF ReadTemplate, TemplateInv, TemplatesTyped
    <2>2. TemplatesTyped' /\ UNCHANGED <<templates, templatesMade>>
        BY <1>5, <2>1 DEF ReadTemplate, TemplateInv, TemplatesTyped
    <2>3. Copies' \subseteq Copies
        BY <1>5, <2>1 DEF ReadTemplate, TemplateInv, TemplatesTyped, Copies
    <2>4. QED BY <2>2, <2>3, CopyingKeepsInv
<1>6. ASSUME NEW c \in Campaigns, FreezeTemplate(c)
      PROVE  TemplateInv'
    <2>1. TemplatesTyped' /\ UNCHANGED <<templates, templatesMade>>
        BY <1>6, AbsentTemplate DEF FreezeTemplate, TemplateInv, TemplatesTyped
    <2>2. Copies' \subseteq Copies \cup {NoTemplate}
        BY <1>6 DEF FreezeTemplate, TemplateInv, TemplatesTyped, Copies
    <2>3. QED BY <2>1, <2>2, CopyingKeepsInv
<1>7. ASSUME NEW c \in Campaigns, UnfreezeTemplate(c)
      PROVE  TemplateInv'
    <2>1. TemplatesTyped' /\ UNCHANGED <<templates, templatesMade>>
        BY <1>7, AbsentTemplate DEF UnfreezeTemplate, TemplateInv, TemplatesTyped
    <2>2. Copies' \subseteq Copies \cup {NoTemplate}
        BY <1>7 DEF UnfreezeTemplate, TemplateInv, TemplatesTyped, Copies
    <2>3. QED BY <2>1, <2>2, CopyingKeepsInv
<1>8. CASE UNCHANGED templateVars
    <2>1. TemplatesTyped' /\ Copies' = Copies /\ UNCHANGED <<templates, templatesMade>>
        BY <1>8 DEF templateVars, TemplateInv, TemplatesTyped, Copies
    <2>2. QED BY <2>1, CopyingKeepsInv
<1>9. QED BY <1>1, <1>2, <1>3, <1>4, <1>5, <1>6, <1>7, <1>8 DEF TemplateNext

\* 0009, snapshot.ts: two copies of a template with one version number say the
\* same, whoever saves, deletes, schedules and unschedules meanwhile.
THEOREM VersionsNameContents == TemplateSpec => []VersionNamesContent
<1>1. TemplateInv => VersionNamesContent
    BY DEF TemplateInv, VersionNamesContent, SnapshotIsStale, SameContent, Copies
<1>2. QED BY <1>1, TemplateInitInv, TemplateStepInv, PTL DEF TemplateSpec
-----------------------------------------------------------------------------
\* A name that is accepted has two labels at least, each of them plain, and its
\* last one may end a name.
LEMMA AcceptedName ==
    ASSUME NEW Labels, NEW name \in Seq(Labels)
    PROVE  NormalizeDomainName(name) = "ok" <=>
             /\ Len(name) >= 2 /\ \E k \in DOMAIN name : name[k] # "1"
             /\ \A k \in DOMAIN name : name[k] \in PlainLabels
             /\ name[Len(name)] \in (LetterLabels \cup {"xn--tld"}) \ {"test"}
<1>1. ToSet(name) \subseteq PlainLabels <=> \A k \in DOMAIN name : name[k] \in PlainLabels
    BY DEF ToSet
<1>2. name = <<>> => Len(name) = 0
    OBVIOUS
<1>3. Len(name) >= 2 => name # <<>>
    OBVIOUS
<1> QED
    BY <1>1, <1>2, <1>3 DEF NormalizeDomainName

\* A label put before a name.
LEMMA LabelBefore ==
    ASSUME NEW Labels, NEW name \in Seq(Labels), NEW label \in Labels, Len(name) >= 2, NEW longer, longer = <<label>> \o name
    PROVE  /\ longer \in Seq(Labels) /\ Len(longer) \in Nat /\ Len(longer) = Len(name) + 1 /\ longer[1] = label
           /\ \A k \in 1 .. Len(longer) : k # 1 => longer[k] = name[k - 1] /\ k - 1 \in 1 .. Len(name)
           /\ longer[Len(longer)] = name[Len(name)]
<1>1. <<label>> \in Seq(Labels) /\ Len(<<label>>) = 1 /\ <<label>>[1] = label /\ Len(name) \in Nat
    OBVIOUS
<1>2. longer \in Seq(Labels) /\ Len(longer) = Len(name) + 1
    BY <1>1
<1>3. \A k \in 1 .. Len(longer) : longer[k] = IF k <= 1 THEN <<label>>[k] ELSE name[k - 1]
    BY <1>1, <1>2
<1> QED
    BY <1>1, <1>2, <1>3

\* domain-name.ts, resolver.ts: whatever domain was accepted, every name a check
\* asks for can be looked up, so that its verification can end; its MAIL FROM
\* name lies under it and asks for no second one.
THEOREM EveryAcceptedNameResolves ==
    ASSUME NEW Labels, {"bounce", "_dmarc"} \subseteq Labels, NEW name \in Seq(Labels)
    PROVE  AcceptedNamesResolve(name)
<1> SUFFICES ASSUME NormalizeDomainName(name) = "ok", name[Len(name)] # "xn--tld"
             PROVE  LET mailFrom == MailFromDomainFor(name) IN
                    /\ IsQueryableName(name) /\ IsQueryableName(DmarcRecordName(name))
                    /\ mailFrom = <<>> <=> name[1] = "bounce"
                    /\ mailFrom # <<>> => IsQueryableName(mailFrom) /\ MailFromDomainFor(mailFrom) = <<>>
    BY DEF AcceptedNamesResolve
<1>1. /\ Len(name) >= 2 /\ Len(name) \in Nat /\ \A k \in 1 .. Len(name) : name[k] \in PlainLabels
      /\ name[Len(name)] \in LetterLabels \ {"test"}
    BY AcceptedName
<1>2. IsQueryableName(name)
    BY <1>1 DEF IsQueryableName
<1> DEFINE under == <<"bounce">> \o name
           dmarc == <<"_dmarc">> \o name
<1>3. /\ under \in Seq(Labels) /\ Len(under) \in Nat /\ Len(under) = Len(name) + 1 /\ under[1] = "bounce"
      /\ \A k \in 1 .. Len(under) : k # 1 => under[k] = name[k - 1] /\ k - 1 \in 1 .. Len(name)
      /\ under[Len(under)] = name[Len(name)]
    BY <1>1, LabelBefore
<1>4. /\ dmarc \in Seq(Labels) /\ Len(dmarc) \in Nat /\ Len(dmarc) = Len(name) + 1 /\ dmarc[1] = "_dmarc"
      /\ \A k \in 1 .. Len(dmarc) : k # 1 => dmarc[k] = name[k - 1] /\ k - 1 \in 1 .. Len(name)
      /\ dmarc[Len(dmarc)] = name[Len(name)]
    BY <1>1, LabelBefore
<1> HIDE DEF under, dmarc
<1>5. IsQueryableName(dmarc)
    <2>1. \A k \in 1 .. (Len(dmarc) - 1) : dmarc[k] \in PlainLabels \cup {"_dmarc"}
        BY <1>1, <1>4, SMTT(60)
    <2> QED
        BY <1>1, <1>4, <2>1 DEF IsQueryableName
<1>6. \A k \in 1 .. Len(under) : under[k] \in PlainLabels
    <2>1. "bounce" \in PlainLabels
        BY DEF PlainLabels, LetterLabels
    <2> QED
        BY <1>1, <1>3, <2>1
<1>7. NormalizeDomainName(under) = "ok" /\ IsQueryableName(under)
    <2>1. 1 \in DOMAIN under /\ under[1] # "1" /\ DOMAIN under = 1 .. Len(under)
        BY <1>1, <1>3
    <2>2. NormalizeDomainName(under) = "ok"
        <3>1. \E k \in DOMAIN under : under[k] # "1"
            BY <2>1
        <3>2. \A k \in DOMAIN under : under[k] \in PlainLabels
            BY <1>6, <2>1
        <3>3. under[Len(under)] \in (LetterLabels \cup {"xn--tld"}) \ {"test"} /\ Len(under) >= 2
            BY <1>1, <1>3
        <3>4. under \in Seq(Labels)
            BY <1>3
        <3> QED
            BY <3>1, <3>2, <3>3, <3>4, AcceptedName
    <2>3. \A k \in 1 .. (Len(under) - 1) : under[k] \in PlainLabels \cup {"_dmarc"}
        BY <1>3, <1>6
    <2> QED
        BY <1>1, <1>3, <2>2, <2>3 DEF IsQueryableName
<1>8. MailFromDomainFor(name) = IF name[1] = "bounce" THEN <<>> ELSE under
    BY <1>7 DEF MailFromDomainFor, under
<1>9. under # <<>> /\ MailFromDomainFor(under) = <<>>
    BY <1>1, <1>3 DEF MailFromDomainFor
<1> QED
    BY <1>2, <1>5, <1>7, <1>8, <1>9 DEF DmarcRecordName, dmarc
=============================================================================
