------------------------------- MODULE Audience -------------------------------
(***************************************************************************)
(* One workspace's contacts, lists and suppressions as people edit them:   *)
(* the services behind the contact, list and suppression pages, the        *)
(* triggers and constraints of migration 0005 they rely on, the paged      *)
(* contact table someone is walking through meanwhile, and the rule that   *)
(* says who may be mailed.                                                 *)
(*                                                                         *)
(* A service call is one step where it is one statement, and one step per  *)
(* statement where it is several.  A contact's fields other than its       *)
(* address and status are left out.                                        *)
(***************************************************************************)
EXTENDS Naturals, Sequences, FiniteSets, SequencesExt

CONSTANTS ContactIds, \* contact rows that may come to exist, in uuid order
          Emails,     \* normalised addresses
          Lists,      \* contact lists, each with a name of its own
          Stamps,     \* values of created_at; two rows may share one
          StartBook,  \* the contacts there are at first, on every list
          PageSize,   \* the clamped page limit
          MaxCalls    \* bound: writes by people

Statuses == {"active", "suppressed", "invalid"}
ContactRow == [email : Emails, status : Statuses, at : Stamps]

\* The contacts there are at first are rows of the table: finitely many, and
\* no two with one address.
ASSUME StartBookIsATable ==
  /\ IsFiniteSet(DOMAIN StartBook) /\ DOMAIN StartBook \subseteq ContactIds
  /\ \A c \in DOMAIN StartBook : StartBook[c] \in ContactRow
  /\ \A c, d \in DOMAIN StartBook : StartBook[c].email = StartBook[d].email => c = d

\* clampLimit; ids and moments are compared as numbers.
ASSUME PageNumbers == PageSize \in Nat \ {0} /\ ContactIds \subseteq Nat /\ Stamps \subseteq Nat

VARIABLES book,    \* contact -> [email, status, at], or NoContact
          lists,   \* list -> [live, count, used], count being contact_count
          members, \* list_members: pairs <<list, contact>>
          blocks,  \* email -> the reason of its suppression, or "none"
          block,   \* an addSuppression in progress: [pc, email, reason]
          pager,   \* the contact table someone is paging through
          gone,    \* contact ids used before
          calls

audienceVars == <<book, lists, members, blocks, block, pager, gone, calls>>

NoContact == [email |-> "none", status |-> "none", at |-> 0]
Reasons == {"manually_blocked", "complaint"}
IdleBlock == [pc |-> "idle", email |-> "none", reason |-> "none"]
NoCursor == <<>>
ClosedPager == [pc |-> "closed", scope |-> "all", dir |-> "forward", cursor |-> NoCursor, ids |-> {},
                next |-> NoCursor, prev |-> NoCursor, shown |-> <<>>, steady |-> {}]

Live == {c \in ContactIds : book[c] # NoContact}
EmailOf(c) == book[c].email
On(l) == {c \in Live : <<l, c>> \in members}

AudienceInit ==
  /\ book = [c \in ContactIds |-> IF c \in DOMAIN StartBook THEN StartBook[c] ELSE NoContact]
  /\ lists = [l \in Lists |-> [live |-> TRUE, count |-> Cardinality(DOMAIN StartBook), used |-> FALSE]]
  /\ members = Lists \X DOMAIN StartBook
  /\ gone = DOMAIN StartBook
  /\ blocks = [e \in Emails |-> "none"]
  /\ block = IdleBlock /\ pager = ClosedPager /\ calls = 0

Call == calls < MaxCalls /\ calls' = calls + 1

-----------------------------------------------------------------------------
(* Contacts.  uq_contacts_ws_email refuses a second row of one address; a  *)
(* row is inserted as active whatever the suppressions say.                *)
Taken(e, others) == \E c \in others : EmailOf(c) = e

CreateContact(c, e, at) ==
  /\ Call /\ c \notin gone
  /\ ~Taken(e, Live)
  /\ book' = [book EXCEPT ![c] = [email |-> e, status |-> "active", at |-> at]]
  /\ gone' = gone \cup {c}
  /\ UNCHANGED <<lists, members, blocks, block, pager>>

(* An edit writes the address and leaves the status.                       *)
UpdateContact(c, e) ==
  /\ Call /\ c \in Live /\ ~Taken(e, Live \ {c})
  /\ book' = [book EXCEPT ![c].email = e]
  /\ UNCHANGED <<lists, members, blocks, block, pager, gone>>

(* The memberships of a deleted contact cascade, and the trigger of each   *)
(* takes one off its list's counter.                                       *)
Less(n, k) == IF n > k THEN n - k ELSE 0

Uncounted(removed) ==
  [l \in Lists |-> [lists[l] EXCEPT !.count = Less(@, Cardinality({m \in removed : m[1] = l}))]]

KeepsCount_Bug(c) ==
  /\ Call /\ c \in Live
  /\ book' = [book EXCEPT ![c] = NoContact]
  /\ members' = {m \in members : m[2] # c}
  /\ pager' = [pager EXCEPT !.steady = @ \ {c}]
  /\ UNCHANGED <<lists, blocks, block, gone>>

DeleteContact(c) ==
  LET removed == {m \in members : m[2] = c} IN
  /\ Call /\ c \in Live
  /\ book' = [book EXCEPT ![c] = NoContact]
  /\ members' = members \ removed
  /\ lists' = Uncounted(removed)
  /\ pager' = [pager EXCEPT !.steady = @ \ {c}]
  /\ UNCHANGED <<blocks, block, gone>>

-----------------------------------------------------------------------------
(* Lists.                                                                  *)
CreateContactList(l) ==
  /\ Call /\ ~lists[l].live
  /\ lists' = [lists EXCEPT ![l] = [live |-> TRUE, count |-> 0, used |-> FALSE]]
  /\ UNCHANGED <<book, members, blocks, block, pager, gone>>

(* A draft campaign names the list.                                        *)
NameList(l) ==
  /\ lists[l].live
  /\ lists' = [lists EXCEPT ![l].used = TRUE]
  /\ UNCHANGED <<book, members, blocks, block, pager, gone, calls>>

(* fk_campaigns_list refuses to delete a list a campaign names.            *)
DeleteContactList(l) ==
  /\ Call /\ lists[l].live /\ ~lists[l].used
  /\ lists' = [lists EXCEPT ![l] = [live |-> FALSE, count |-> 0, used |-> FALSE]]
  /\ members' = {m \in members : m[1] # l}
  /\ pager' = [pager EXCEPT !.steady = IF pager.scope = l THEN {} ELSE @]
  /\ UNCHANGED <<book, blocks, block, gone>>

(* Adding twice inserts nothing, so the trigger counts nothing.            *)
AddListMember(l, c) ==
  /\ Call /\ lists[l].live /\ c \in Live
  /\ members' = members \cup {<<l, c>>}
  /\ lists' = [lists EXCEPT ![l].count = IF <<l, c>> \in members THEN @ ELSE @ + 1]
  /\ UNCHANGED <<book, blocks, block, pager, gone>>

RemoveListMember(l, c) ==
  /\ Call /\ <<l, c>> \in members
  /\ members' = members \ {<<l, c>>}
  /\ lists' = Uncounted({<<l, c>>})
  /\ pager' = [pager EXCEPT !.steady = IF pager.scope = l THEN @ \ {c} ELSE @]
  /\ UNCHANGED <<book, blocks, block, gone>>

-----------------------------------------------------------------------------
(* Suppressions.  The trigger mirrors a new row into the contact's status  *)
(* and takes back, on removal, only what it set.                           *)
Mirrored(e, from, to) ==
  [c \in ContactIds |-> IF EmailOf(c) = e /\ book[c].status = from
                        THEN [book[c] EXCEPT !.status = to] ELSE book[c]]

(* addSuppression looks for a row first, then inserts: the unique          *)
(* constraint decides a race, and the first reason stays.                  *)
AddSuppression(e, r) ==
  /\ Call /\ block = IdleBlock
  /\ block' = IF blocks[e] = "none" THEN [pc |-> "insert", email |-> e, reason |-> r] ELSE IdleBlock
  /\ UNCHANGED <<book, lists, members, blocks, pager, gone>>

InsertBlock ==
  LET e == block.email IN
  /\ block.pc = "insert"
  /\ IF blocks[e] = "none"
     THEN /\ blocks' = [blocks EXCEPT ![e] = block.reason]
          /\ book' = Mirrored(e, "active", "suppressed")
     ELSE UNCHANGED <<blocks, book>>
  /\ block' = IdleBlock
  /\ UNCHANGED <<lists, members, pager, gone, calls>>

(* A provider event or an unsubscribe suppresses an address meanwhile.     *)
SuppressedElsewhere(e) ==
  /\ Call /\ blocks[e] = "none"
  /\ blocks' = [blocks EXCEPT ![e] = "complaint"]
  /\ book' = Mirrored(e, "active", "suppressed")
  /\ UNCHANGED <<lists, members, block, pager, gone>>

IsReversible(r) == r = "manually_blocked"

RemoveSuppression(e) ==
  /\ Call /\ IsReversible(blocks[e])
  /\ blocks' = [blocks EXCEPT ![e] = "none"]
  /\ book' = Mirrored(e, "suppressed", "active")
  /\ UNCHANGED <<lists, members, block, pager, gone>>

-----------------------------------------------------------------------------
(* Paging: newest first, the id breaking ties; PageSize + 1 rows are read  *)
(* so that the extra one tells whether there are more.                     *)
Key(c) == <<book[c].at, c>>
Newer(x, y) == x[1] > y[1] \/ (x[1] = y[1] /\ x[2] > y[2])

TimestampOnly_Bug(x, cursor, dir) ==
  cursor = NoCursor \/ (IF dir = "forward" THEN cursor[1] > x[1] ELSE x[1] > cursor[1])

Before(x, y, dir) == IF dir = "forward" THEN Newer(x, y) ELSE Newer(y, x)

(* The keyset predicate of the query.                                      *)
Beyond(x, cursor, dir) == cursor = NoCursor \/ Before(cursor, x, dir)

(* The first PageSize + 1 keys in the order the direction asks for.        *)
Ordered(keys, dir) ==
  CHOOSE s \in [1..Cardinality(keys) -> keys] : \A j, k \in DOMAIN s : j < k => Before(s[j], s[k], dir)

Fetched(keys, dir) ==
  LET order == Ordered(keys, dir) IN
  SubSeq(order, 1, IF Len(order) > PageSize + 1 THEN PageSize + 1 ELSE Len(order))

BuildPage(rows, dir, hasCursor) ==
  LET more == Len(rows) > PageSize
      trimmed == IF more THEN SubSeq(rows, 1, PageSize) ELSE rows
      items == IF dir = "backward" THEN Reverse(trimmed) ELSE trimmed
      first == IF items = <<>> THEN NoCursor ELSE Head(items)
      last == IF items = <<>> THEN NoCursor ELSE items[Len(items)] IN
  IF dir = "backward"
  THEN [items |-> items, prev |-> IF more THEN first ELSE NoCursor, next |-> last]
  ELSE [items |-> items, next |-> IF more THEN last ELSE NoCursor,
        prev |-> IF hasCursor THEN first ELSE NoCursor]

InScope(scope) == IF scope = "all" THEN Live ELSE On(scope)

(* The first page of all contacts or of one list.                          *)
OpenContacts(scope) ==
  /\ pager.pc = "closed"
  /\ scope # "all" => lists[scope].live
  /\ pager' = [ClosedPager EXCEPT !.pc = "members", !.scope = scope, !.steady = InScope(scope)]
  /\ UNCHANGED <<book, lists, members, blocks, block, gone, calls>>

(* listContacts first reads the members of the list it filters by.         *)
ReadMembers ==
  /\ pager.pc = "members"
  /\ pager' = [pager EXCEPT !.pc = "rows",
                 !.ids = IF pager.scope = "all" THEN ContactIds
                         ELSE {c \in ContactIds : <<pager.scope, c>> \in members}]
  /\ UNCHANGED <<book, lists, members, blocks, block, gone, calls>>

ListContacts ==
  LET matching == {Key(c) : c \in {d \in Live \cap pager.ids : Beyond(Key(d), pager.cursor, pager.dir)}}
      page == BuildPage(Fetched(matching, pager.dir), pager.dir, pager.cursor # NoCursor) IN
  /\ pager.pc = "rows"
  /\ pager' = [pager EXCEPT !.pc = "page", !.next = page.next, !.prev = page.prev,
                 !.shown = @ \o [k \in DOMAIN page.items |-> page.items[k][2]]]
  /\ UNCHANGED <<book, lists, members, blocks, block, gone, calls>>

Onward(p) == IF p.dir = "forward" THEN p.next ELSE p.prev

TurnPage ==
  /\ pager.pc = "page" /\ Onward(pager) # NoCursor
  /\ pager' = [pager EXCEPT !.pc = "members", !.cursor = Onward(pager)]
  /\ UNCHANGED <<book, lists, members, blocks, block, gone, calls>>

(* From the last page back towards the first.                              *)
TurnBack ==
  /\ pager.pc = "page" /\ pager.dir = "forward" /\ pager.next = NoCursor /\ pager.prev # NoCursor
  /\ pager' = [pager EXCEPT !.pc = "members", !.dir = "backward", !.cursor = pager.prev, !.shown = <<>>,
                 !.steady = {c \in InScope(pager.scope) : Newer(Key(c), pager.prev)}]
  /\ UNCHANGED <<book, lists, members, blocks, block, gone, calls>>

-----------------------------------------------------------------------------
AudienceWrites ==
  \/ \E c \in ContactIds, e \in Emails : UpdateContact(c, e) \/ \E at \in Stamps : CreateContact(c, e, at)
  \/ \E c \in ContactIds : DeleteContact(c)
  \/ \E l \in Lists : CreateContactList(l) \/ NameList(l) \/ DeleteContactList(l)
  \/ \E l \in Lists, c \in ContactIds : AddListMember(l, c) \/ RemoveListMember(l, c)
  \/ \E e \in Emails : SuppressedElsewhere(e) \/ RemoveSuppression(e) \/ \E r \in Reasons : AddSuppression(e, r)
  \/ InsertBlock

AudienceReads ==
  \/ \E scope \in Lists \cup {"all"} : OpenContacts(scope)
  \/ ReadMembers \/ ListContacts \/ TurnPage \/ TurnBack

AudienceNext == AudienceWrites \/ AudienceReads

AudienceSpec == AudienceInit /\ [][AudienceNext]_audienceVars

-----------------------------------------------------------------------------
(* eligibility/index.ts: the decision for one address, the form counting   *)
(* uses, and campaign_audience_counts, which counts in the database.       *)
Decide(e, requireContact) ==
  LET found == {c \in Live : EmailOf(c) = e}
      inactive == \E c \in found : book[c].status # "active" IN
  IF blocks[e] # "none" THEN "suppressed"
  ELSE IF found = {} THEN (IF requireContact THEN "contact_missing" ELSE "eligible")
  ELSE IF inactive THEN "contact_inactive" ELSE "eligible"

ClassifyAudienceMember(suppressed, status) ==
  IF suppressed THEN "suppressed" ELSE IF status = "active" THEN "eligible" ELSE "inactive"

CampaignAudienceCounts(l) ==
  [eligible |-> Cardinality({c \in On(l) : blocks[EmailOf(c)] = "none" /\ book[c].status = "active"}),
   suppressed |-> Cardinality({c \in On(l) : blocks[EmailOf(c)] # "none"}),
   inactive |-> Cardinality({c \in On(l) : blocks[EmailOf(c)] = "none" /\ book[c].status # "active"})]

SummarizeAudience(l) ==
  LET bucket(c) == ClassifyAudienceMember(blocks[EmailOf(c)] # "none", book[c].status)
      of(b) == Cardinality({c \in On(l) : bucket(c) = b}) IN
  [eligible |-> of("eligible"), suppressed |-> of("suppressed"), inactive |-> of("inactive")]

(* The list's stored counter, the three statements of the sending rule and *)
(* the list's rows agree, whatever was added, moved, deleted or suppressed *)
(* in between: "the number shown before a send and the rows selected       *)
(* during one" are the same people.                                        *)
AudienceAddsUp ==
  \A l \in Lists :
    LET counts == CampaignAudienceCounts(l) IN
    /\ lists[l].count = Cardinality(On(l))
    /\ counts = SummarizeAudience(l)
    /\ counts.eligible + counts.suppressed + counts.inactive = lists[l].count
    /\ counts.eligible = Cardinality({c \in On(l) : Decide(EmailOf(c), TRUE) = "eligible"})

(* pagination.ts: "rows sharing a timestamp could be returned twice or     *)
(* skipped entirely".  Whoever pages to the end, or back to the start,     *)
(* while others add and delete, sees no row twice and every row that was   *)
(* there throughout.                                                       *)
PagesShowEveryRow ==
  /\ \A j, k \in DOMAIN pager.shown : pager.shown[j] = pager.shown[k] => j = k
  /\ (pager.pc = "page" /\ Onward(pager) = NoCursor) => pager.steady \subseteq ToSet(pager.shown)
=============================================================================
