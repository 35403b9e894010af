----------------------------- MODULE PortalStore -----------------------------
(***************************************************************************)
(* Recently opened items and favourites of the portal                      *)
(* (portal/scripts/portal-backend.py, lines 120-332).  A request runs its  *)
(* SQL in a worker thread (asyncio.to_thread), in autocommit: a step is    *)
(* one statement, and the two statements of _db_upsert_recent have the     *)
(* statements of other requests, or the end of the pod, between them.      *)
(*                                                                         *)
(* A row is its key and opened_at, in whole seconds as datetime('now')     *)
(* gives them; 0 stands for no row.  The other columns are left out.       *)
(***************************************************************************)
EXTENDS Integers, FiniteSets

CONSTANTS
    Users, Items,
    Tiles,         \* the items that may be starred
    Opens,         \* bound: page loads, each of which posts once, 1..n
    MaxRecents,    \* MAX_RECENTS, 20 in the code
    MaxTime        \* bound: seconds

StoreAssumption ==
    /\ IsFiniteSet(Items) /\ Tiles \subseteq Items
    /\ MaxRecents \in Nat \ {0} /\ MaxTime \in Nat \ {0}

VARIABLES
    now,
    recents,     \* table recents: opened_at by user and item
    favorites,   \* table favorites: pairs of user and item
    posts,       \* POST /api/portal/recents, by page load
    opened       \* history: when a user's item was last written to the table

vars == <<now, recents, favorites, posts, opened>>

-----------------------------------------------------------------------------
Unsent == [at |-> "unsent"]
Over == [at |-> "over"]

\* CREATE TABLE IF NOT EXISTS: a restarted pod keeps the file.
Init ==
    /\ now = 1
    /\ recents = [u \in Users |-> [i \in Items |-> 0]]
    /\ favorites = {}
    /\ posts = [p \in Opens |-> Unsent]
    /\ opened = [u \in Users |-> [i \in Items |-> 0]]

Tick ==
    /\ now < MaxTime
    /\ now' = now + 1
    /\ UNCHANGED <<recents, favorites, posts, opened>>

\* An embed page loads and posts its item, keepalive, without waiting.
OpenItem(p, u, i) ==
    /\ posts[p] = Unsent /\ \A q \in Opens : q < p => posts[q] # Unsent
    /\ posts' = [posts EXCEPT ![p] = [at |-> "sent", user |-> u, item |-> i]]
    /\ UNCHANGED <<now, recents, favorites, opened>>

\* The post fails; the page says nothing and does not try again.
PostLost(p) ==
    /\ posts[p].at = "sent"
    /\ posts' = [posts EXCEPT ![p] = Over]
    /\ UNCHANGED <<now, recents, favorites, opened>>

\* Mutant: the conflict clause forgets opened_at.
BugUpsertRecent(p) ==
    /\ posts[p].at = "sent"
    /\ posts' = [posts EXCEPT ![p].at = "upserted"]
    /\ recents' = IF recents[posts[p].user][posts[p].item] # 0 THEN recents
                  ELSE [recents EXCEPT ![posts[p].user][posts[p].item] = now]
    /\ opened' = [opened EXCEPT ![posts[p].user][posts[p].item] = now]
    /\ UNCHANGED <<now, favorites>>

\* INSERT ... ON CONFLICT DO UPDATE
UpsertRecent(p) ==
    /\ posts[p].at = "sent"
    /\ posts' = [posts EXCEPT ![p].at = "upserted"]
    /\ recents' = [recents EXCEPT ![posts[p].user][posts[p].item] = now]
    /\ opened' = [opened EXCEPT ![posts[p].user][posts[p].item] = now]
    /\ UNCHANGED <<now, favorites>>

Rows(u) == {i \in Items : recents[u][i] # 0}

\* ORDER BY opened_at DESC LIMIT: which of the rows of one second come first
\* is SQLite's choice.
Newest(u) ==
    {K \in SUBSET Rows(u) :
        /\ Cardinality(K) <= MaxRecents
        /\ \A i \in Rows(u) \ K :
              Cardinality(K) = MaxRecents /\ \A k \in K : recents[u][k] >= recents[u][i]}

\* DELETE ... WHERE item_key NOT IN (SELECT ...), and the answer.
PruneRecents(p) ==
    /\ posts[p].at = "upserted"
    /\ \E K \in Newest(posts[p].user) :
          recents' = [recents EXCEPT ![posts[p].user] =
                         [i \in Items |-> IF i \in K THEN @[i] ELSE 0]]
    /\ posts' = [posts EXCEPT ![p] = Over]
    /\ UNCHANGED <<now, favorites, opened>>

\* The pod ends between two statements of its threads.
PodStops ==
    /\ \E p \in Opens : posts[p].at \in {"sent", "upserted"}
    /\ posts' = [p \in Opens |-> IF posts[p].at \in {"sent", "upserted"} THEN Over ELSE posts[p]]
    /\ UNCHANGED <<now, recents, favorites, opened>>

\* POST and DELETE /api/portal/favorites
Star(u, i) ==
    /\ favorites' = favorites \cup {<<u, i>>}
    /\ UNCHANGED <<now, recents, posts, opened>>

Unstar(u, i) ==
    /\ favorites' = favorites \ {<<u, i>>}
    /\ UNCHANGED <<now, recents, posts, opened>>

Next ==
    \/ Tick \/ PodStops
    \/ \E p \in Opens : PostLost(p) \/ UpsertRecent(p) \/ PruneRecents(p)
    \/ \E p \in Opens, u \in Users, i \in Items : OpenItem(p, u, i)
    \/ \E u \in Users, i \in Tiles : Star(u, i) \/ Unstar(u, i)

Spec == Init /\ [][Next]_vars

-----------------------------------------------------------------------------
(* Properties *)

InFlight == [at : {"sent", "upserted"}, user : Users, item : Items]

\* Type invariant: a row bears the second of its last write.
StoreTypeOK ==
    /\ now \in 1..MaxTime
    /\ opened \in [Users -> [Items -> 0..now]]
    /\ recents \in [Users -> [Items -> 0..now]]
    /\ \A u \in Users, i \in Items : recents[u][i] \in {0, opened[u][i]}
    /\ favorites \subseteq Users \X Tiles
    /\ posts \in [Opens -> InFlight \cup {Unsent, Over}]

\* A user's item that was opened and is no longer in the table has MaxRecents
\* items beside it that were opened at the same time or later: interleaved
\* posts, pods that stop between the two statements, and rows of one second
\* never cost the user a newer item than those that stay (lines 225-255).
RecentsKeepNewest ==
    \A u \in Users, i \in Items : opened[u][i] # 0 /\ recents[u][i] = 0 =>
        Cardinality({k \in Items : recents[u][k] >= opened[u][i]}) >= MaxRecents
=============================================================================
