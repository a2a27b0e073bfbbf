----------------------------- MODULE ContactBook -----------------------------
(***************************************************************************)
(* A tenant's contacts and labels and the HTTP calls that change them      *)
(* (httpapi/endpoints.go, contacts/service.go, contactsync/service.go,     *)
(* store/postgres/contacts.go and metadata.go).                            *)
(*                                                                         *)
(* Every store call is one transaction, and a handler makes several: a     *)
(* sync upserts the provider's list one contact at a time, createLabel     *)
(* lists, inserts and lists again.  Calls in flight interleave between     *)
(* those transactions.  Row ids come from newID: the id of a label is the  *)
(* call that inserted it, that of a contact is any unused number, since    *)
(* lists are paged in the order of the contacts' ids.                      *)
(***************************************************************************)
EXTENDS Naturals, Sequences, FiniteSets

CONSTANTS ApiCalls,   \* HTTP requests, each served once
          PhoneNumbers, \* canonical E.164 numbers
          ContactIdentities, \* (connection, provider contact id) keys
          Slugs,      \* normalized label names
          Aliases,    \* server aliases other than the empty one
          Listings,   \* answers of the provider's contact list
          ContactIds, \* ids newID may give a contact
          PageLimit,  \* contacts of one page
          Nothing     \* SQL NULL, an empty alias, a blank id, a bad number

\* A row of contacts, and what the provider lists.
ContactRow == [id : ContactIds, alias : Aliases \cup {Nothing}, name : ContactIdentities \cup {Nothing}]
ListedContact == [identity : ContactIdentities \cup {Nothing}, phone : PhoneNumbers \cup {Nothing}]

ASSUME BookAssumption ==
    /\ Nothing \notin PhoneNumbers \cup ContactIdentities \cup Slugs \cup Aliases \cup ApiCalls
    /\ Nothing \notin ContactRow
    /\ ContactIds \subseteq Nat \ {0} /\ PageLimit \in Nat \ {0}
    /\ Listings \subseteq Seq(ListedContact)

VARIABLES contacts,   \* normalized_phone -> its contacts row
          sources,    \* provider_contact_sources: identity -> phone
          labels,     \* normalized_slug -> label_id
          tagged,     \* contact_labels, as <<phone, slug>>
          api         \* the calls

bookVars == <<contacts, sources, labels, tagged, api>>

Arrived == [pc |-> "new", slug |-> Nothing, todo |-> <<>>,
            seen |-> <<>>, refused |-> {}, answer |-> Nothing,
            after |-> 0, listed |-> {}, owed |-> {}, wears |-> {}, more |-> FALSE]

BookInit ==
    /\ contacts = [p \in PhoneNumbers |-> Nothing]
    /\ sources = [s \in ContactIdentities |-> Nothing]
    /\ labels = [g \in Slugs |-> Nothing]
    /\ tagged = {}
    /\ api = [r \in ApiCalls |-> Arrived]

KnownPeople(phone) == contacts[phone] # Nothing

KnownIds == {contacts[p].id : p \in {q \in PhoneNumbers : KnownPeople(q)}}

FreshIds == ContactIds \ KnownIds

Replied(r) == [api EXCEPT ![r].pc = "done"]

-----------------------------------------------------------------------------
(* ServeHTTP: a verified token, no tenant input and the route's scope, which
   is messaging:write for everything that changes the book. *)
Serves(r, scopes, scope) ==
    /\ api[r].pc = "new"
    /\ scope \in scopes

(* A missing or bad token, or a scope too few: nothing is called. *)
RefuseCall(r) ==
    /\ api[r].pc = "new"
    /\ api' = [api EXCEPT ![r].pc = "refused"]
    /\ UNCHANGED <<contacts, sources, labels, tagged>>

(* UpsertServerContact: an absent alias keeps the stored one, the empty one
   clears it; the provider's name and the labels stay. *)
UpsertServerContact(id, phone, alias, given) ==
    IF KnownPeople(phone)
    THEN IF given THEN [contacts EXCEPT ![phone].alias = alias] ELSE contacts
    ELSE [contacts EXCEPT ![phone] =
            [id |-> id, alias |-> IF given THEN alias ELSE Nothing, name |-> Nothing]]

(* contacts.Service.Upsert refuses a number that is not canonical E.164, an
   alias that is too long and an id newID did not give: the store is not called. *)
InvalidContact(r, phone) ==
    /\ phone = Nothing
    /\ api' = Replied(r)
    /\ UNCHANGED <<contacts, sources, labels, tagged>>

Worn(phones) == {g \in Slugs : \E p \in phones : <<p, g>> \in tagged}

(* The answer carries the contact's labels, which are read afterwards. *)
PutContact(r, id, phone, alias, given) ==
    /\ contacts' = UpsertServerContact(id, phone, alias, given)
    /\ api' = [api EXCEPT ![r].pc = "page", ![r].wears = Worn({phone})]
    /\ UNCHANGED <<sources, labels, tagged>>

(* SetContactAlias or ClearContactAlias; a missing contact is an error. *)
PatchContact(r, phone, alias) ==
    /\ contacts' = IF KnownPeople(phone) THEN [contacts EXCEPT ![phone].alias = alias] ELSE contacts
    /\ api' = Replied(r)
    /\ UNCHANGED <<sources, labels, tagged>>

AttachLabel(r, phone, slug) ==
    /\ tagged' = IF KnownPeople(phone) /\ labels[slug] # Nothing
                 THEN tagged \cup {<<phone, slug>>} ELSE tagged
    /\ api' = Replied(r)
    /\ UNCHANGED <<contacts, sources, labels>>

DetachLabel(r, phone, slug) ==
    /\ tagged' = tagged \ {<<phone, slug>>}
    /\ api' = Replied(r)
    /\ UNCHANGED <<contacts, sources, labels>>

-----------------------------------------------------------------------------
(* listContacts: a page of contacts, then the labels it names. *)

Later(r) == {i \in KnownIds : i > api[r].after}

(* The contacts after the cursor, in the order of their ids. *)
Page(r) == {i \in Later(r) : Cardinality({j \in Later(r) : j <= i}) <= PageLimit}

(* One contact more than the page is read to see if it is the last; if not, the
   last of the page is the next cursor.  The first page of a listing owes its
   caller what is stored then. *)
ListContacts(r) ==
    LET page == Page(r)
        more == page # Later(r)
    IN
    /\ api' = [api EXCEPT
         ![r].pc = "page",
         ![r].owed = IF api[r].pc = "new" THEN KnownIds ELSE @,
         ![r].listed = @ \cup page,
         ![r].after = IF more THEN CHOOSE i \in page : \A j \in page : j <= i ELSE @,
         ![r].more = more,
         ![r].wears = Worn({p \in PhoneNumbers : KnownPeople(p) /\ contacts[p].id \in page})]
    /\ UNCHANGED <<contacts, sources, labels, tagged>>

(* A contact with a label that is not in the list is an internal error. *)
MakeContactResponse(r) ==
    /\ api[r].pc = "page"
    /\ api' = [api EXCEPT ![r].pc =
         IF \E g \in api[r].wears : labels[g] = Nothing THEN "broken"
         ELSE IF api[r].more THEN "next" ELSE "done"]
    /\ UNCHANGED <<contacts, sources, labels, tagged>>

NextPage(r) == api[r].pc = "next" /\ ListContacts(r)

-----------------------------------------------------------------------------
(* createLabel. *)

(* ownedLabels: a label of the slug is returned as it is. *)
ListLabels(r, slug) ==
    /\ api' = [api EXCEPT ![r].pc = IF labels[slug] = Nothing THEN "create" ELSE "done",
                          ![r].slug = slug, ![r].answer = labels[slug]]
    /\ UNCHANGED <<contacts, sources, labels, tagged>>

(* CreateLabel: the insert wins, or fails on UNIQUE (tenant_id, slug). *)
CreateLabel(r) ==
    LET slug == api[r].slug IN
    /\ api[r].pc = "create"
    /\ IF labels[slug] = Nothing
       THEN /\ labels' = [labels EXCEPT ![slug] = r]
            /\ api' = [api EXCEPT ![r].pc = "done", ![r].answer = r]
       ELSE /\ api' = [api EXCEPT ![r].pc = "relist"]
            /\ UNCHANGED labels
    /\ UNCHANGED <<contacts, sources, tagged>>

(* "A concurrent request may have won": the handler lists again. *)
RelistLabels(r) ==
    /\ api[r].pc = "relist"
    /\ api' = [api EXCEPT ![r].pc = "done", ![r].answer = labels[api[r].slug]]
    /\ UNCHANGED <<contacts, sources, labels, tagged>>

-----------------------------------------------------------------------------
(* contactsync.Service.Sync. *)

(* The connection is the tenant's and the provider answers its list. *)
SyncContacts(r, list) ==
    /\ api' = [api EXCEPT ![r].pc = "sync", ![r].todo = list]
    /\ UNCHANGED <<contacts, sources, labels, tagged>>

(* Mutant: a source that already belongs to another phone is repointed. *)
SourceAcceptsAny(item) == TRUE

(* The condition of upsert_provider_contact: a source keeps its phone. *)
SourceAccepts(item) == sources[item.identity] \in {Nothing, item.phone}

(* The loop passes over an item: a blank id or a bad number is rejected, and
   so is an identity listed before with another phone; the same one again is
   skipped. *)
SkipItem(r) ==
    LET item == Head(api[r].todo) seen == api[r].seen IN
    /\ api[r].pc = "sync" /\ api[r].todo # <<>>
    /\ \/ item.identity = Nothing
       \/ item.phone = Nothing
       \/ item.identity \in DOMAIN seen
    /\ api' = [api EXCEPT ![r].todo = Tail(@)]
    /\ UNCHANGED <<contacts, sources, labels, tagged>>

Remembered(r, item) ==
    [s \in DOMAIN api[r].seen \cup {item.identity} |->
        IF s = item.identity THEN item.phone ELSE api[r].seen[s]]

(* UpsertProviderContact: contact and source in one transaction, which is
   rolled back, contact included, when the source is another phone's. *)
UpsertProviderContact(r, id) ==
    LET item == Head(api[r].todo) IN
    /\ api[r].pc = "sync" /\ api[r].todo # <<>>
    /\ item.identity # Nothing /\ item.phone # Nothing
    /\ item.identity \notin DOMAIN api[r].seen
    /\ IF SourceAccepts(item)
       THEN /\ contacts' = [contacts EXCEPT ![item.phone] =
                              IF KnownPeople(item.phone) THEN [@ EXCEPT !.name = item.identity]
                              ELSE [id |-> id, alias |-> Nothing, name |-> item.identity]]
            /\ sources' = [sources EXCEPT ![item.identity] = item.phone]
            /\ api' = [api EXCEPT ![r].todo = Tail(@), ![r].seen = Remembered(r, item)]
       ELSE /\ api' = [api EXCEPT ![r].todo = Tail(@), ![r].seen = Remembered(r, item),
                                  ![r].refused = @ \cup {item.identity}]
            /\ UNCHANGED <<contacts, sources>>
    /\ UNCHANGED <<labels, tagged>>

(* The list is done, or a store call fails and the sync is abandoned half
   way: what it stored stays. *)
SyncEnds(r) ==
    /\ api[r].pc = "sync"
    /\ api' = Replied(r)
    /\ UNCHANGED <<contacts, sources, labels, tagged>>

Call(r) ==
    \/ \E phone \in PhoneNumbers, alias \in Aliases \cup {Nothing} :
          \/ PatchContact(r, phone, alias)
          \/ \E id \in FreshIds, given \in BOOLEAN : PutContact(r, id, phone, alias, given)
    \/ \E phone \in PhoneNumbers, slug \in Slugs :
          AttachLabel(r, phone, slug) \/ DetachLabel(r, phone, slug)
    \/ \E phone \in PhoneNumbers \cup {Nothing} : InvalidContact(r, phone)
    \/ \E slug \in Slugs : ListLabels(r, slug)
    \/ \E list \in Listings : SyncContacts(r, list)

BookNext ==
    \E r \in ApiCalls :
        \/ \E scopes \in SUBSET {"messaging:read", "messaging:write"} :
              \/ Serves(r, scopes, "messaging:write") /\ Call(r)
              \/ Serves(r, scopes, "messaging:read") /\ ListContacts(r)
        \/ RefuseCall(r)
        \/ MakeContactResponse(r) \/ NextPage(r)
        \/ CreateLabel(r) \/ RelistLabels(r)
        \/ SkipItem(r) \/ SyncEnds(r)
        \/ \E id \in FreshIds : UpsertProviderContact(r, id)

BookSpec == BookInit /\ [][BookNext]_bookVars

-----------------------------------------------------------------------------
(* What a caller was told stays true while other calls run: everyone who
   created a label got the id that is stored for its slug, every identity a
   sync accepted still leads to the phone it was accepted with and to a
   contact, every identity it refused belongs to another phone, a listing
   that is done has answered every contact there was when it began, and no
   contact is ever answered with a label that cannot be found. *)
AnswersHold ==
    \A r \in ApiCalls :
        /\ api[r].pc = "done" /\ api[r].slug # Nothing
             => api[r].answer # Nothing /\ api[r].answer = labels[api[r].slug]
        /\ \A s \in DOMAIN api[r].seen :
             IF s \in api[r].refused
             THEN sources[s] # api[r].seen[s]
             ELSE sources[s] = api[r].seen[s] /\ KnownPeople(api[r].seen[s])
        /\ api[r].pc = "done" => api[r].owed \subseteq api[r].listed
        /\ api[r].pc # "broken"
=============================================================================
