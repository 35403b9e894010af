------------------------------ MODULE UserSync ------------------------------
(***************************************************************************)
(* keycloak_user_sync.py: a CronJob that copies the users of the realm to  *)
(* accounts of OpenMetadata.  It lists the realm page by page, by offset,  *)
(* and then makes or changes one account after the other, while users are  *)
(* added, changed and removed and logins and the request form make         *)
(* accounts too.  A step is one HTTP call.                                 *)
(*                                                                         *)
(* A profile is the pair of display name and e-mail, as a version.         *)
(***************************************************************************)
EXTENDS Naturals, FiniteSets, Sequences, SequencesExt

CONSTANTS
    RealmOrder,   \* the users the realm may have, as Keycloak sorts them
    Page,         \* 100 users in the code
    MaxEdits      \* bound: edits of the realm

RealmUsers == ToSet(RealmOrder)

UsersAssumption ==
    /\ RealmOrder \in Seq(RealmUsers) /\ IsInjective(RealmOrder)
    /\ Page \in Nat \ {0} /\ MaxEdits \in Nat

NoAccount == "none" \* no account
Bare == "bare"      \* the profile ensure_user makes up
Profiles == {"first", "second"}

VARIABLES
    realm,     \* realm[u] = u's profile in Keycloak, or NoAccount
    account,   \* account[u] = u's profile in OpenMetadata, or NoAccount
    edits,     \* how many edits there were
    sync,      \* the job
    settled    \* history: users whose realm entry is as when the job began

vars == <<realm, account, edits, sync, settled>>

-----------------------------------------------------------------------------
NoJob == [at |-> "idle", first |-> 0, users |-> <<>>, failed |-> FALSE]

Init ==
    /\ realm \in [RealmUsers -> {NoAccount, "first"}]
    /\ account = [u \in RealmUsers |-> NoAccount]
    /\ edits = 0 /\ sync = NoJob /\ settled = {}

-----------------------------------------------------------------------------
(* Administrators, logins and the request form. *)

\* A user is added, changed or removed; a removal moves the later pages up.
EditRealm(u, p) ==
    /\ edits < MaxEdits /\ edits' = edits + 1
    /\ p # realm[u]
    /\ realm' = [realm EXCEPT ![u] = p]
    /\ settled' = IF p = NoAccount /\ sync.at = "list" THEN {} ELSE settled \ {u}
    /\ UNCHANGED <<account, sync>>

\* The first login through Keycloak, or a request by that user (AccessRequest).
AccountMade(u, p) ==
    /\ account[u] = NoAccount /\ p \in {realm[u], Bare} \ {NoAccount}
    /\ account' = [account EXCEPT ![u] = p]
    /\ UNCHANGED <<realm, edits, sync, settled>>

-----------------------------------------------------------------------------
(* The job; its CronJob forbids a second one at a time. *)

Present == {u \in RealmUsers : realm[u] # NoAccount}
Place(u) == CHOOSE i \in DOMAIN RealmOrder : RealmOrder[i] = u

\* How many users of the realm Keycloak lists before u.
Before(u) == Cardinality({v \in Present : Place(v) < Place(u)})

\* The users as Keycloak lists them; an offset counts places in it.
InRealm == [n \in 1..Cardinality(Present) |-> CHOOSE u \in Present : Before(u) = n - 1]

StartSync ==
    /\ sync.at = "idle"
    /\ sync' = [NoJob EXCEPT !.at = "list"]
    /\ settled' = Present
    /\ UNCHANGED <<realm, account, edits>>

\* As LastPage, a full page taken for the last.
BugLastPage(batch) == Len(batch) =< Page

\* An empty or short page ends the listing.
LastPage(batch) == Len(batch) < Page

\* list_kc_users: one page, by offset into the realm as it is now.
ListPage ==
    /\ sync.at = "list"
    /\ LET upTo == sync.first + Page
           batch == SubSeq(InRealm, sync.first + 1,
                           IF upTo < Len(InRealm) THEN upTo ELSE Len(InRealm))
       IN  sync' = [sync EXCEPT !.at = IF LastPage(batch) THEN "post" ELSE "list",
                                !.first = upTo,
                                !.users = @ \o [i \in DOMAIN batch |->
                                             [name |-> batch[i], profile |-> realm[batch[i]]]]]
    /\ UNCHANGED <<realm, account, edits, settled>>

Current == Head(sync.users)
NextUser == [sync EXCEPT !.at = "post", !.users = Tail(@)]

\* upsert_om_user: a new account takes the profile, an existing one is read.
PostUser ==
    /\ sync.at = "post" /\ sync.users # <<>>
    /\ IF account[Current.name] = NoAccount
       THEN account' = [account EXCEPT ![Current.name] = Current.profile] /\ sync' = NextUser
       ELSE sync' = [sync EXCEPT !.at = "get"] /\ UNCHANGED account
    /\ UNCHANGED <<realm, edits, settled>>

GetUser ==
    /\ sync.at = "get"
    /\ sync' = IF account[Current.name] = Current.profile THEN NextUser
               ELSE [sync EXCEPT !.at = "patch"]
    /\ UNCHANGED <<realm, account, edits, settled>>

PatchUser ==
    /\ sync.at = "patch"
    /\ account' = [account EXCEPT ![Current.name] = Current.profile]
    /\ sync' = NextUser
    /\ UNCHANGED <<realm, edits, settled>>

\* An answer that is not a success is logged and the loop goes on; an
\* exception ends the job.
UserFails ==
    /\ sync.at \in {"post", "get", "patch"} /\ sync.users # <<>>
    /\ sync' = [NextUser EXCEPT !.failed = TRUE]
    /\ UNCHANGED <<realm, account, edits, settled>>

SyncEnds ==
    /\ sync.at # "idle"
    /\ sync' = NoJob /\ settled' = {}
    /\ UNCHANGED <<realm, account, edits>>

Next ==
    \/ \E u \in RealmUsers, p \in Profiles \cup {NoAccount} : EditRealm(u, p)
    \/ \E u \in RealmUsers, p \in Profiles \cup {Bare} : AccountMade(u, p)
    \/ StartSync \/ ListPage \/ PostUser \/ GetUser \/ PatchUser \/ UserFails \/ SyncEnds

Spec == Init /\ [][Next]_vars

-----------------------------------------------------------------------------
\* Type invariant of the sync: what is listed was in the realm with a profile.
UsersTypeOK ==
    /\ realm \in [RealmUsers -> Profiles \cup {NoAccount}]
    /\ account \in [RealmUsers -> Profiles \cup {NoAccount, Bare}]
    /\ edits \in 0..MaxEdits
    /\ sync \in [at : {"idle", "list", "post", "get", "patch"}, first : Nat,
                 users : Seq([name : RealmUsers, profile : Profiles]), failed : BOOLEAN]
    /\ sync.at \in {"get", "patch"} => sync.users # <<>>
    /\ settled \subseteq Present

\* A sync without failed calls brings every user who is in the realm all the
\* while, unchanged, to OpenMetadata with that profile, whoever makes accounts
\* meanwhile and whoever joins the realm while the pages are read; only a
\* removal may hide a user from it (list_kc_users, upsert_om_user).
SyncCoversRealm ==
    sync.at = "post" /\ sync.users = <<>> /\ ~sync.failed =>
        \A u \in settled : account[u] = realm[u]
=============================================================================
