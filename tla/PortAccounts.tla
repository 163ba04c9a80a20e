---------------------------- MODULE PortAccounts ----------------------------
(* The API keys of the Python port (webgui/auth/api_keys.py): three keys in *)
(* Redis for each, written and deleted at an await of its own, by requests  *)
(* that overlap and commands that fail.                                     *)
(*                                                                          *)
(* Data abstracted: of an API key, whether each of its three entries is     *)
(* there. Left out: the key that the environment gives, and what a key may  *)
(* do once it is found.                                                     *)
EXTENDS Integers, FiniteSets

CONSTANTS Keys,         \* API keys
          MaxDropped    \* bound: commands to Redis that fail

VARIABLES byHash, byId, index,   \* api_key:{hash}, api_key_id:{id}, api_keys:index
          making, revoking,      \* where a key's creation and its revocation are
          told, revoked,         \* keys whose creation, revocation was answered
          listing,      \* ids list_api_keys has still to look up
          listed,       \* what it has found
          due,          \* history: keys that were told when it began
          dropped

entries == <<byHash, byId, index>>
lists   == <<listing, listed, due>>

Init ==
  /\ byHash = {} /\ byId = {} /\ index = {}
  /\ making = [k \in Keys |-> "none"] /\ revoking = [k \in Keys |-> "none"]
  /\ told = {} /\ revoked = {} /\ listing = {} /\ listed = {} /\ due = {} /\ dropped = 0

Drop == dropped < MaxDropped /\ dropped' = dropped + 1

-----------------------------------------------------------------------------
(* create_api_key, revoke_api_key and list_api_keys *)

Make(k, p) == making' = [making EXCEPT ![k] = p]
CreateHash(k) ==
  /\ making[k] = "none" /\ byHash' = byHash \cup {k} /\ Make(k, "id")
  /\ UNCHANGED <<byId, index, revoking, told, revoked, lists, dropped>>

CreateId(k) ==
  /\ making[k] = "id" /\ byId' = byId \cup {k} /\ Make(k, "index")
  /\ UNCHANGED <<byHash, index, revoking, told, revoked, lists, dropped>>

\* The answer alone has the key itself, which is kept nowhere.
CreateIndex(k) ==
  /\ making[k] = "index" /\ index' = index \cup {k} /\ told' = told \cup {k} /\ Make(k, "made")
  /\ UNCHANGED <<byHash, byId, revoking, revoked, lists, dropped>>

\* (A mutant: a write that fails is logged, and the key handed out all the same.)
CreateDropsSilently(k) ==
  /\ Drop /\ making[k] \in {"none", "id", "index"} /\ Make(k, "failed") /\ told' = told \cup {k}
  /\ UNCHANGED <<entries, revoking, revoked, lists>>

\* A write of a creation fails, with or without effect: there is no other, and
\* what was written stays, of a key that nobody was told.
CreateDrops(k) ==
  /\ Drop /\ Make(k, "failed")
  /\ \/ making[k] = "none" /\ byHash' \in {byHash, byHash \cup {k}} /\ UNCHANGED <<byId, index>>
     \/ making[k] = "id" /\ byId' \in {byId, byId \cup {k}} /\ UNCHANGED <<byHash, index>>
     \/ making[k] = "index" /\ index' \in {index, index \cup {k}} /\ UNCHANGED <<byHash, byId>>
  /\ UNCHANGED <<revoking, told, revoked, lists>>

Undo(k, p) == revoking' = [revoking EXCEPT ![k] = p]
Revoke(k) ==
  /\ revoking[k] = "none" /\ k \in byId     \* otherwise 404
  /\ Undo(k, "hash")
  /\ UNCHANGED <<entries, making, told, revoked, lists, dropped>>

RevokeHash(k) ==
  /\ revoking[k] = "hash" /\ byHash' = byHash \ {k} /\ Undo(k, "id")
  /\ UNCHANGED <<byId, index, making, told, revoked, lists, dropped>>

RevokeId(k) ==
  /\ revoking[k] = "id" /\ byId' = byId \ {k} /\ Undo(k, "index")
  /\ UNCHANGED <<byHash, index, making, told, revoked, lists, dropped>>

RevokeIndex(k) ==
  /\ revoking[k] = "index" /\ index' = index \ {k} /\ revoked' = revoked \cup {k}
  /\ Undo(k, "none")
  /\ UNCHANGED <<byHash, byId, making, told, lists, dropped>>

\* A deletion fails, with or without effect; it may be asked for again.
RevokeDrops(k) ==
  /\ Drop /\ Undo(k, "none")
  /\ \/ revoking[k] = "hash" /\ byHash' \in {byHash, byHash \ {k}} /\ UNCHANGED <<byId, index>>
     \/ revoking[k] = "id" /\ byId' \in {byId, byId \ {k}} /\ UNCHANGED <<byHash, index>>
     \/ revoking[k] = "index" /\ index' \in {index, index \ {k}} /\ UNCHANGED <<byHash, byId>>
  /\ UNCHANGED <<making, told, revoked, lists>>

ListIds ==
  /\ listing = {} /\ index # {} /\ listing' = index /\ listed' = {} /\ due' = told
  /\ UNCHANGED <<entries, making, revoking, told, revoked, dropped>>

\* The two reads are one step: an id goes only after its hash.
ListOne(k) ==
  /\ k \in listing /\ listing' = listing \ {k}
  /\ listed' = IF k \in byId /\ k \in byHash THEN listed \cup {k} ELSE listed
  /\ UNCHANGED <<entries, making, revoking, told, revoked, due, dropped>>

\* A read fails, and with it the list.
ListDrops ==
  /\ Drop /\ listing # {} /\ listing' = {} /\ listed' = {} /\ due' = {}
  /\ UNCHANGED <<entries, making, revoking, told, revoked>>

Key(k) ==
  \/ CreateHash(k) \/ CreateId(k) \/ CreateIndex(k) \/ CreateDrops(k)
  \/ Revoke(k) \/ RevokeHash(k) \/ RevokeId(k) \/ RevokeIndex(k) \/ RevokeDrops(k)
  \/ ListOne(k)

Next == ListIds \/ ListDrops \/ \E k \in Keys : Key(k)

-----------------------------------------------------------------------------
(* Properties *)

\* A key that somebody holds and that still works can be revoked by its id and is
\* named by every list that began since, whatever creations, attempts at revoking
\* it and lists failed or overlapped; a key that a list named can be revoked while
\* it works, also one whose creation failed at its end; and no revoked key works.
\* (A creation that fails before leaves a hash that nobody finds: of a key that
\* nobody holds.)
KeysRevocable ==
  /\ byHash \cap (told \cup listed) \subseteq byId
  /\ listing = {} => due \cap byHash \subseteq listed
  /\ revoked \cap byHash = {}
=============================================================================
