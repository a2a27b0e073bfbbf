------------------------------ MODULE LoginFlow ------------------------------
(***************************************************************************)
(* Pairing with a phone: the UKEY2 exchange of pkg/libgm (pair_google.go,  *)
(* pair.go), driven by the bridge's logins (pkg/connector/login.go) and by *)
(* the gateway's pairing provider (provider/gmessages/pairing.go).         *)
(*                                                                         *)
(* Every login has a client, an auxiliary long poll and its own waiters.   *)
(* The relay and the phones are external: requests arrive in any order or  *)
(* not at all although their POST succeeded, an answer may be presented    *)
(* late, repeatedly, and to the poll of another login of the account.  A   *)
(* Disconnect waits for the long poll's reader, which the callback of a QR *)
(* login may hold up.                                                      *)
(***************************************************************************)
EXTENDS Naturals, FiniteSets

CONSTANTS
    Logins,
    Flows,        \* the flows a login may take
    Phones,
    ServerInits,  \* what a phone may answer to a client init
    QRAttempts    \* MaxAttempts: QR codes shown before the login fails

SupportedVersions == 0..1

ASSUME LoginFlowAssumption ==
    /\ Flows \subseteq {"google", "gateway", "qr"}
    /\ \A s \in ServerInits :
          /\ s.codes \in Nat    \* ConfirmedVerificationCodeVersion
          /\ s.keys \in Nat     \* ConfirmedKeyDerivationVersion
          /\ s.sound \in BOOLEAN  \* type, version, cipher, random and curve point are right
    /\ QRAttempts \in Nat \ {0}

VARIABLES
    flow,       \* which flow a login takes
    at,         \* where it is
    found,      \* devices of its discovery
    dest,       \* the device it pairs with
    loginPoll,       \* its auxiliary long poll: "none", "opening", "up", "held", "ended"
    pairWaiters,    \* actions whose response channel is registered
    offer,      \* ServerInit of its pairing session
    shown,      \* the code shown to the user
    keys,       \* request keys of its AuthData
    left,       \* QR codes it may still show
    posts,      \* requests on their way to the phone
    replies,    \* answers of the phone
    exchange,   \* the phone's side
    saved       \* user logins (or completed sessions), by phone

loginVars == <<flow, at, found, dest, loginPoll, pairWaiters, offer, shown, keys, left, posts,
               replies, exchange, saved>>

Unset == [of |-> {}]

LoginInit ==
    /\ flow \in [Logins -> Flows]
    /\ at = [l \in Logins |-> "new"]
    /\ found = [l \in Logins |-> {}] /\ dest = [l \in Logins |-> {}]
    /\ loginPoll = [l \in Logins |-> "none"] /\ pairWaiters = [l \in Logins |-> {}]
    /\ offer = [l \in Logins |-> Unset] /\ shown = [l \in Logins |-> Unset]
    /\ keys = [l \in Logins |-> Unset] /\ left = [l \in Logins |-> QRAttempts]
    /\ posts = {} /\ replies = {}
    /\ exchange = [l \in Logins |-> [state |-> "none"]]
    /\ saved = [p \in Phones |-> Unset]

Moves(l, from, to) == at[l] = from /\ at' = [at EXCEPT ![l] = to]

Google(l) == flow[l] \in {"google", "gateway"}

Post(l, action) == posts' = posts \cup {[of |-> l, action |-> action]}

PostCancel(l) == Post(l, "cancel")

\* The bridge disconnects its client; the gateway disposes of the attempt, which
\* cancels the exchange of a session it has.  Both wait for the long poll.
Fails(l) == at' = [at EXCEPT ![l] = "failing"]

-----------------------------------------------------------------------------
(* Google accounts: discovery, client init and the code. *)

\* FetchConfig.  The bridge gives up without a Disconnect: there is no poll yet.
FetchConfig(l, ok) ==
    /\ at[l] = "new"
    /\ at' = [at EXCEPT ![l] = IF ok THEN "configured"
                               ELSE IF flow[l] = "gateway" THEN "failing" ELSE "ended"]
    /\ UNCHANGED <<flow, found, dest, loginPoll, pairWaiters, offer, shown, keys, left, posts,
                   replies, exchange, saved>>

\* signInGaiaGetToken
SignIn(l, ok) ==
    /\ Google(l)
    /\ Moves(l, "configured", IF ok THEN "signed" ELSE "failing")
    /\ UNCHANGED <<flow, found, dest, loginPoll, pairWaiters, offer, shown, keys, left, posts,
                   replies, exchange, saved>>

\* The primary devices of the account; an account without one cannot pair.
Discover(l, devices) ==
    /\ Moves(l, "signed", IF devices = {} THEN "failing" ELSE "found")
    /\ found' = [found EXCEPT ![l] = devices]
    /\ UNCHANGED <<flow, dest, loginPoll, pairWaiters, offer, shown, keys, left, posts, replies,
                   exchange, saved>>

\* StartGaiaPairing: one of them, by the time it was last seen.
LegacyChoice(l, p) == flow[l] = "google" /\ p \in found[l]

\* selectDevice: the only device, or the one the caller names.
SelectedDevice(l, p) == flow[l] = "gateway" /\ p \in found[l]

StartAttempt(l, p) ==
    /\ Moves(l, "found", "opening")
    /\ LegacyChoice(l, p) \/ SelectedDevice(l, p)
    /\ dest' = [dest EXCEPT ![l] = {p}]
    /\ loginPoll' = [loginPoll EXCEPT ![l] = "opening"]
    /\ UNCHANGED <<flow, found, pairWaiters, offer, shown, keys, left, posts, replies,
                   exchange, saved>>

\* The long poll connects, or ends by itself.
PollMoves(l, to) ==
    /\ \/ loginPoll[l] = "opening" /\ to = "up"
       \/ loginPoll[l] \in {"opening", "up"} /\ to = "ended"
    /\ loginPoll' = [loginPoll EXCEPT ![l] = to]
    /\ UNCHANGED <<flow, at, found, dest, pairWaiters, offer, shown, keys, left, posts,
                   replies, exchange, saved>>

\* PreparePayloads and sendGaiaPairingMessage: a key of its own, whose
\* commitment goes out with the client init.
SendClientInit(l) ==
    /\ Moves(l, "opening", "init")
    /\ loginPoll[l] = "up"
    /\ pairWaiters' = [pairWaiters EXCEPT ![l] = @ \cup {"init"}]
    /\ Post(l, "init")
    /\ UNCHANGED <<flow, found, dest, loginPoll, offer, shown, keys, left, replies, exchange, saved>>

PollStopsFirst(l) ==
    /\ Moves(l, "opening", "failing")
    /\ UNCHANGED <<flow, found, dest, loginPoll, pairWaiters, offer, shown, keys, left, posts,
                   replies, exchange, saved>>

\* The POST fails (its waiter is removed) or no answer comes in time (it is
\* not): the phone is told.
ClientInitFails(l, posted) ==
    /\ Moves(l, "init", "failing")
    /\ pairWaiters' = [pairWaiters EXCEPT ![l] = IF posted THEN @ ELSE @ \ {"init"}]
    /\ PostCancel(l)
    /\ UNCHANGED <<flow, found, dest, loginPoll, offer, shown, keys, left, replies, exchange, saved>>

\* Mutant: the response is taken for any request of its action.
MatchesAction(l, r) == r.action \in pairWaiters[l]

\* receiveResponse: the channel registered under the request's id.
Matches(l, r) == r.of = l /\ r.action \in pairWaiters[l]

\* The shared secret of our key and the key the phone answered with.
Secret(l, r) == {l, r.of}

\* The code is an entry of the table of the confirmed version.
Emoji(l, r) == [of |-> Secret(l, r), table |-> r.offer.codes]

\* The checks of ProcessServerInit on what the phone answered.
Acceptable(s) == s.sound /\ s.codes \in SupportedVersions

\* ProcessServerInit: the offer is kept, then checked.
ServerInitArrives(l, r) ==
    /\ at[l] = "init" /\ loginPoll[l] = "up"
    /\ r \in replies /\ r.action = "init" /\ Matches(l, r)
    /\ pairWaiters' = [pairWaiters EXCEPT ![l] = @ \ {"init"}]
    /\ offer' = [offer EXCEPT ![l] = [of |-> Secret(l, r), keys |-> r.offer.keys]]
    /\ IF Acceptable(r.offer)
       THEN /\ at' = [at EXCEPT ![l] = "approval"]
            /\ shown' = [shown EXCEPT ![l] = Emoji(l, r)]
            /\ UNCHANGED posts
       ELSE Fails(l) /\ PostCancel(l) /\ UNCHANGED shown
    /\ UNCHANGED <<flow, found, dest, loginPoll, keys, left, replies, exchange, saved>>

-----------------------------------------------------------------------------
(* Client finished, the keys, and the login. *)

SendClientFinished(l) ==
    /\ Moves(l, "approval", "finish")
    /\ pairWaiters' = [pairWaiters EXCEPT ![l] = @ \cup {"finish"}]
    /\ Post(l, "finish")
    /\ UNCHANGED <<flow, found, dest, loginPoll, offer, shown, keys, left, replies, exchange, saved>>

\* The POST fails, the deadline passes, or the context is cancelled; in the last
\* case the cancel request is made with the same context and goes nowhere.
ClientFinishedFails(l) ==
    /\ Moves(l, "finish", "failing")
    /\ UNCHANGED <<flow, found, dest, loginPoll, pairWaiters, offer, shown, keys, left, posts,
                   replies, exchange, saved>>

\* Two keys as they are, or two derived from both in an order of their hashes.
Derived(secret, version) == [of |-> secret, version |-> version]

FinishArrives(l, r) ==
    /\ at[l] = "finish" /\ loginPoll[l] = "up"
    /\ r \in replies /\ r.action = "finish" /\ Matches(l, r)
    /\ pairWaiters' = [pairWaiters EXCEPT ![l] = @ \ {"finish"}]
    /\ IF r.approved /\ offer[l].keys \in SupportedVersions
       THEN /\ keys' = [keys EXCEPT ![l] = Derived(offer[l].of, offer[l].keys)]
            /\ at' = [at EXCEPT ![l] = IF flow[l] = "gateway" THEN "complete" ELSE "leaving"]
       ELSE Fails(l) /\ UNCHANGED keys
    /\ UNCHANGED <<flow, found, dest, loginPoll, offer, shown, left, posts, replies, exchange, saved>>

Stored(l) == [p \in Phones |-> IF p \in dest[l] THEN [of |-> l, keys |-> keys[l]] ELSE saved[p]]

\* finishLogin: the login is stored under its phone, in place of an earlier one;
\* the prefix or the store may fail.
FinishLogin(l, stored) ==
    /\ flow[l] # "gateway" /\ Moves(l, "saving", "ended")
    /\ saved' = IF stored THEN Stored(l) ELSE saved
    /\ UNCHANGED <<flow, found, dest, loginPoll, pairWaiters, offer, shown, keys, left, posts,
                   replies, exchange>>

\* Complete: the session is encoded for the pairing service before the attempt is
\* disposed of; an AuthData that cannot be encoded fails it.
CompleteSession(l, encoded) ==
    /\ Moves(l, "complete", IF encoded THEN "closing" ELSE "failing")
    /\ saved' = IF encoded THEN Stored(l) ELSE saved
    /\ UNCHANGED <<flow, found, dest, loginPoll, pairWaiters, offer, shown, keys, left, posts,
                   replies, exchange>>

\* LogoutRemote: the session is forgotten whether or not the phone hears of it.
Unpair(p, heard) ==
    /\ saved[p] # Unset /\ flow[saved[p].of] # "gateway"
    /\ saved' = [saved EXCEPT ![p] = Unset]
    /\ exchange' = [exchange EXCEPT ![saved[p].of].state = IF heard THEN "revoked" ELSE @]
    /\ UNCHANGED <<flow, at, found, dest, loginPoll, pairWaiters, offer, shown, keys, left, posts,
                   replies>>

\* SubmitCookies of a login that replaces one with a pairing: new cookies of the
\* same account, with which the client connects, keep keys and pairing.
Reauthenticate(l, p) ==
    /\ flow[l] = "google" /\ Moves(l, "new", "ended")
    /\ saved[p] # Unset /\ flow[saved[p].of] = "google"
    /\ UNCHANGED <<flow, found, dest, loginPoll, pairWaiters, offer, shown, keys, left, posts,
                   replies, exchange, saved>>

\* Disconnect ends the poll, joins its reader and closes every channel.  What the
\* gateway leaves without a session it cancels on the phone.
LoginDisconnects(l, cancelled) ==
    /\ at[l] \in {"failing", "leaving", "closing"} /\ loginPoll[l] # "held"
    /\ cancelled => flow[l] = "gateway" /\ at[l] = "failing" /\ offer[l] # Unset
    /\ at' = [at EXCEPT ![l] = IF @ = "leaving" THEN "saving" ELSE "ended"]
    /\ loginPoll' = [loginPoll EXCEPT ![l] = IF @ = "none" THEN @ ELSE "ended"]
    /\ pairWaiters' = [pairWaiters EXCEPT ![l] = {}]
    /\ IF cancelled THEN PostCancel(l) ELSE UNCHANGED posts
    /\ UNCHANGED <<flow, found, dest, offer, shown, keys, left, replies, exchange, saved>>

\* The user leaves the login, or the attempt is cancelled or expires, while
\* nothing of it runs.
CancelLogin(l) ==
    /\ at[l] \in {"found", "approval", "scan"}
    /\ Fails(l)
    /\ UNCHANGED <<flow, found, dest, loginPoll, pairWaiters, offer, shown, keys, left, posts,
                   replies, exchange, saved>>

-----------------------------------------------------------------------------
(* QR codes. *)

\* The code carries the keys of a new AuthData.
QRKeys(l) == Derived({l}, 0)

\* StartLogin; a relay that cannot be registered ends it without a Disconnect.
RegisterPhoneRelay(l, ok) ==
    /\ flow[l] = "qr" /\ Moves(l, "configured", IF ok THEN "scan" ELSE "ended")
    /\ IF ok
       THEN /\ loginPoll' = [loginPoll EXCEPT ![l] = "opening"]
            /\ keys' = [keys EXCEPT ![l] = QRKeys(l)]
            /\ shown' = [shown EXCEPT ![l] = [of |-> {l}, table |-> 0]]
       ELSE UNCHANGED <<loginPoll, keys, shown>>
    /\ UNCHANGED <<flow, found, dest, pairWaiters, offer, left, posts, replies, exchange, saved>>

\* completePairing: the devices are set and the callback waits for a receiver.
PairedArrives(l, r) ==
    /\ flow[l] = "qr" /\ loginPoll[l] = "up"
    /\ r \in replies /\ r.action = "paired" /\ r.of = l
    /\ dest' = [dest EXCEPT ![l] = {r.phone}]
    /\ loginPoll' = [loginPoll EXCEPT ![l] = "held"]
    /\ UNCHANGED <<flow, at, found, pairWaiters, offer, shown, keys, left, posts, replies,
                   exchange, saved>>

WaitReceives(l) ==
    /\ Moves(l, "scan", "leaving")
    /\ loginPoll[l] = "held"
    /\ loginPoll' = [loginPoll EXCEPT ![l] = "up"]
    /\ UNCHANGED <<flow, found, dest, pairWaiters, offer, shown, keys, left, posts, replies,
                   exchange, saved>>

\* The code expires; the last one ends the login.
WaitExpires(l) ==
    /\ Moves(l, "scan", IF left[l] > 1 THEN "refresh" ELSE "failing")
    /\ left' = [left EXCEPT ![l] = @ - 1]
    /\ UNCHANGED <<flow, found, dest, loginPoll, pairWaiters, offer, shown, keys, posts, replies,
                   exchange, saved>>

\* A new code, with the same keys, unless the relay refuses.
RefreshPhoneRelay(l, ok) ==
    /\ Moves(l, "refresh", IF ok THEN "scan" ELSE "failing")
    /\ UNCHANGED <<flow, found, dest, loginPoll, pairWaiters, offer, shown, keys, left, posts,
                   replies, exchange, saved>>

-----------------------------------------------------------------------------
(* The phone. *)

PhoneAnswersInit(l, s) ==
    /\ [of |-> l, action |-> "init"] \in posts
    /\ exchange[l].state = "none"
    /\ exchange' = [exchange EXCEPT ![l] =
                      [state |-> "offered", offer |-> s, phones |-> dest[l]]]
    /\ replies' = replies \cup {[of |-> l, action |-> "init", offer |-> s]}
    /\ UNCHANGED <<flow, at, found, dest, loginPoll, pairWaiters, offer, shown, keys, left, posts, saved>>

\* The code on the phone.
PhoneEmoji(l) == [of |-> {l}, table |-> exchange[l].offer.codes]

\* The user taps the code the login shows, when the phone has it; otherwise, or
\* when the user declines, the answer is an error.
PhoneAnswersFinish(l, approved) ==
    /\ [of |-> l, action |-> "finish"] \in posts
    /\ exchange[l].state = "offered"
    /\ approved => shown[l] = PhoneEmoji(l)
    /\ exchange' = [exchange EXCEPT ![l].state = IF approved THEN "approved" ELSE "refused"]
    /\ replies' = replies \cup {[of |-> l, action |-> "finish", approved |-> approved]}
    /\ UNCHANGED <<flow, at, found, dest, loginPoll, pairWaiters, offer, shown, keys, left, posts, saved>>

PhoneIsTold(l) ==
    /\ [of |-> l, action |-> "cancel"] \in posts
    /\ exchange[l].state = "offered"
    /\ exchange' = [exchange EXCEPT ![l].state = "cancelled"]
    /\ UNCHANGED <<flow, at, found, dest, loginPoll, pairWaiters, offer, shown, keys, left, posts,
                   replies, saved>>

PhoneScans(l, p) ==
    /\ flow[l] = "qr" /\ at[l] \in {"scan", "refresh", "failing"} /\ shown[l] # Unset
    /\ exchange[l].state = "none"
    /\ exchange' = [exchange EXCEPT ![l] =
                      [state |-> "approved", offer |-> [keys |-> 0, codes |-> 0], phones |-> {p}]]
    /\ replies' = replies \cup {[of |-> l, action |-> "paired", phone |-> p]}
    /\ UNCHANGED <<flow, at, found, dest, loginPoll, pairWaiters, offer, shown, keys, left, posts, saved>>

-----------------------------------------------------------------------------
LoginNext ==
    \/ \E l \in Logins :
        \/ \E devices \in SUBSET Phones : Discover(l, devices)
        \/ \E p \in Phones : StartAttempt(l, p) \/ Reauthenticate(l, p) \/ PhoneScans(l, p)
        \/ \E to \in {"up", "ended"} : PollMoves(l, to)
        \/ SendClientInit(l) \/ PollStopsFirst(l)
        \/ \E r \in replies : ServerInitArrives(l, r) \/ FinishArrives(l, r) \/ PairedArrives(l, r)
        \/ SendClientFinished(l) \/ ClientFinishedFails(l)
        \/ \E ok \in BOOLEAN :
              \/ FetchConfig(l, ok) \/ SignIn(l, ok) \/ ClientInitFails(l, ok)
              \/ FinishLogin(l, ok) \/ CompleteSession(l, ok) \/ LoginDisconnects(l, ok)
              \/ RegisterPhoneRelay(l, ok) \/ RefreshPhoneRelay(l, ok)
              \/ PhoneAnswersFinish(l, ok)
        \/ CancelLogin(l)
        \/ WaitReceives(l) \/ WaitExpires(l)
        \/ \E s \in ServerInits : PhoneAnswersInit(l, s)
        \/ PhoneIsTold(l)
    \/ \E p \in Phones, heard \in BOOLEAN : Unpair(p, heard)

LoginSpec == LoginInit /\ [][LoginNext]_loginVars

-----------------------------------------------------------------------------
(* Whatever answers were late, repeated or presented to the poll of another  *)
(* login, a login that is stored is one its phone holds too: the user        *)
(* approved exactly this exchange by the code this login showed, on the      *)
(* phone the login is stored under, and both sides derived the same keys.    *)
SavedLoginIsPaired ==
    \A p \in Phones : saved[p] # Unset =>
        LET l == saved[p].of IN
            /\ exchange[l].state = "approved"
            /\ p \in exchange[l].phones
            /\ shown[l] = PhoneEmoji(l)
            /\ saved[p].keys = Derived({l}, exchange[l].offer.keys)
=============================================================================
