------------------------ MODULE IntegrationLifecycle ------------------------
(***************************************************************************)
(* The integration rows of the tenants and the requests that work on them  *)
(* (integrations.service.ts): connect, the OAuth callback, the connection  *)
(* test and disconnect, each stopped at every await, so that requests for  *)
(* one row, and for rows that exclude each other, interleave.  A browser   *)
(* repeats a callback or comes back late, providers refuse or do not       *)
(* answer, statements throw and the backend restarts.                      *)
(*                                                                         *)
(* A request keeps the row it read; every later write of it is by that     *)
(* row's id and throws when the row is gone.  Rows, OAuth states and       *)
(* webhooks are named by the connect attempt behind them.                  *)
(***************************************************************************)
EXTENDS Naturals, FiniteSets

CONSTANTS
  Stores,       \* Shopify integrations, each of another tenant
  OAuths,       \* OAuth inventory integrations of one tenant (Zoho)
  Keys,         \* its API-key inventory integrations (Odoo)
  Shops,        \* Shopify stores
  None,         \* no shop, no integration
  Requests,     \* requests served at a time
  MaxAttempts   \* connect attempts

Integration == Stores \union OAuths \union Keys
Group       == OAuths \union Keys     \* the mutually exclusive providers
Attempt     == 1 .. MaxAttempts

ASSUME LifecycleAssumption ==
  /\ Stores \intersect Group = {} /\ OAuths \intersect Keys = {}
  /\ None \notin Integration \union Shops
  /\ MaxAttempts \in Nat

VARIABLES
  row,       \* the row of each integration, or NoRow
  hooks,     \* live order webhooks at Shopify: <<row id, attempt>>
  attempts,  \* connect attempts so far
  issued,    \* the integration whose authorize URL carries each state
  spent,     \* authorization codes a provider has exchanged
  closing,   \* ids of the rows somebody asked to disconnect
  req        \* the request each slot serves

vars == <<row, hooks, attempts, issued, spent, closing, req>>

(* DISCONNECTED is how a missing row is shown; no row stores it.           *)
Number == 0 .. MaxAttempts
NoRow == [id |-> 0, status |-> "DISCONNECTED", state |-> 0, late |-> FALSE,
          keyed |-> FALSE, shop |-> None, hook |-> 0]
Row   == [id : Attempt, status : {"CONNECTING", "ACTIVE", "DEGRADED", "ERROR"},
          state : Number,             \* oauthState, 0 when null
          late : BOOLEAN,             \* oauthStateExpiresAt has passed
          keyed : BOOLEAN,            \* a credential is stored
          shop : Shops \union {None}, hook : Number]   \* config
Live  == {"ACTIVE", "DEGRADED"}

(* What a request keeps of the row it read.                                *)
Seen(r) == [id |-> r.id, hook |-> r.hook,
            pending |-> r.status = "CONNECTING" /\ ~r.keyed]

(* The awaits of initConnect, of the callbacks, of test and of disconnect, *)
(* but for a first one that only reads.                                    *)
Connecting == {"group", "upsert", "validate", "store"}
Returning  == {"resolve", "abandon", "collide", "exchange",
               "credential", "register", "activate", "degrade", "fail"}
Testing    == {"probe", "promote", "demote"}
Leaving    == {"unregister", "delete"}

(* of is the attempt connect mints or the state a callback brings, shop    *)
(* what the body or the query names, seen the row that was read.           *)
NoRequest == [at |-> "idle", on |-> None, of |-> 0, shop |-> None, seen |-> Seen(NoRow)]
Request   == [at : Connecting \union Returning \union Testing \union Leaving,
              on : Integration, of : Number, shop : Shops \union {None},
              seen : [id : Number, hook : Number, pending : BOOLEAN]]

TypeOK ==
  /\ row \in [Integration -> Row \union {NoRow}]
  /\ hooks \subseteq Attempt \X Attempt
  /\ attempts \in Number
  /\ issued \in [Attempt -> Integration \union {None}]
  /\ spent \subseteq Attempt /\ closing \subseteq Attempt
  /\ req \in [Requests -> Request \union {NoRequest}]

Init ==
  /\ row = [i \in Integration |-> NoRow]
  /\ hooks = {} /\ attempts = 0
  /\ issued = [a \in Attempt |-> None]
  /\ spent = {} /\ closing = {}
  /\ req = [q \in Requests |-> NoRequest]
-----------------------------------------------------------------------------
(* A request's control.                                                    *)

At(q, label)   == req[q].at = label
Goto(q, label) == req' = [req EXCEPT ![q].at = label]
End(q)         == req' = [req EXCEPT ![q] = NoRequest]
Sees(q, r, label) == req' = [req EXCEPT ![q].seen = Seen(r), ![q].at = label]

Mine(q) == row[req[q].on]

(* What a write by id finds, and the write.                                *)
Found(q)     == req[q].seen.id # 0 /\ Mine(q).id = req[q].seen.id
SetRow(q, r) == row' = [row EXCEPT ![req[q].on] = r]
DeleteRow(q) == Found(q) /\ SetRow(q, NoRow) /\ closing' = closing \ {req[q].seen.id}

Begin(q, label, i, a, s, r) ==
  /\ At(q, "idle")
  /\ req' = [req EXCEPT ![q] = [at |-> label, on |-> i, of |-> a, shop |-> s, seen |-> Seen(r)]]
-----------------------------------------------------------------------------
(* initConnect.                                                            *)

Connect(q, i) ==
  /\ attempts < MaxAttempts
  /\ attempts' = attempts + 1
  /\ \E s \in IF i \in Stores THEN Shops ELSE {None} :
       Begin(q, IF i \in Group THEN "group" ELSE "upsert", i, attempts + 1, s, NoRow)
  /\ UNCHANGED <<row, hooks, issued, spent, closing>>

(* One live row of the group is found, any one of them.                    *)
CheckGroup(q) ==
  /\ At(q, "group")
  /\ LET live == {j \in Group : row[j].status \in Live} IN
       \/ live \ {req[q].on} # {} /\ End(q)
       \/ /\ live = {} \/ req[q].on \in live
          /\ Goto(q, IF req[q].on \in Keys THEN "validate" ELSE "upsert")
  /\ UNCHANGED <<row, hooks, attempts, issued, spent, closing>>

(* The row an upsert by tenant and provider writes.                        *)
Upserted(q) == [Mine(q) EXCEPT !.id = IF @ = 0 THEN req[q].of ELSE @]

(* OAuth: mint a state; the config keeps nothing of an earlier connection. *)
Mint(q) ==
  /\ At(q, "upsert")
  /\ SetRow(q, [Upserted(q) EXCEPT !.status = "CONNECTING", !.state = req[q].of,
                                   !.late = FALSE, !.shop = req[q].shop, !.hook = 0])
  /\ issued' = [issued EXCEPT ![req[q].of] = req[q].on]
  /\ End(q)
  /\ UNCHANGED <<hooks, attempts, spent, closing>>

(* API key: ask the provider, then store row and credential in one         *)
(* transaction.                                                            *)
ValidateKey(q) ==
  /\ At(q, "validate")
  /\ Goto(q, "store")
  /\ UNCHANGED <<row, hooks, attempts, issued, spent, closing>>

StoreKey(q) ==
  /\ At(q, "store")
  /\ SetRow(q, [Upserted(q) EXCEPT !.status = "ACTIVE", !.keyed = TRUE])
  /\ End(q)
  /\ UNCHANGED <<hooks, attempts, issued, spent, closing>>
-----------------------------------------------------------------------------
(* handleShopifyCallback and handleZohoCallback.                           *)

(* The provider sends the browser back with a state it was given, with a   *)
(* code or without one (consent declined), once or several times.  The     *)
(* tolerant lookup of the state is for the redirect and for abandoning.    *)
Callback(q, a) ==
  /\ issued[a] # None
  /\ LET i       == issued[a]
         pending == IF row[i].state = a THEN row[i] ELSE NoRow
     IN  \/ \E s \in IF i \in Stores THEN Shops ELSE {None} :
              Begin(q, "resolve", i, a, s, pending)
         \/ Begin(q, "abandon", i, a, None, pending)
  /\ UNCHANGED <<row, hooks, attempts, issued, spent, closing>>

(* resolveIntegrationByState, then the shop mismatch check on its row.     *)
Resolve(q) ==
  /\ At(q, "resolve")
  /\ IF Mine(q).state = req[q].of /\ ~Mine(q).late
       THEN Sees(q, Mine(q), IF req[q].on \notin Stores THEN "exchange"
                             ELSE IF Mine(q).shop # req[q].shop THEN "fail" ELSE "collide")
       ELSE Goto(q, "abandon")
  /\ UNCHANGED <<row, hooks, attempts, issued, spent, closing>>

(* Mutant: nothing is abandoned.                                           *)
AbandonNothing(q) ==
  /\ At(q, "abandon") /\ End(q)
  /\ UNCHANGED <<row, hooks, attempts, issued, spent, closing>>

(* abandonPendingConnect judges the row as it was read, and deletes it.    *)
Abandon(q) ==
  /\ At(q, "abandon")
  /\ IF req[q].seen.pending
       THEN DeleteRow(q)
       ELSE UNCHANGED <<row, closing>>
  /\ End(q)
  /\ UNCHANGED <<hooks, attempts, issued, spent>>

(* Another tenant's ACTIVE row for the shop.                               *)
Collide(q) ==
  /\ At(q, "collide")
  /\ Goto(q, IF \E j \in Stores \ {req[q].on} : row[j].status = "ACTIVE" /\ row[j].shop = req[q].shop
               THEN "fail" ELSE "exchange")
  /\ UNCHANGED <<row, hooks, attempts, issued, spent, closing>>

(* A code is exchanged once; a lost answer, or a Zoho account without an   *)
(* organization, spends it for nothing.                                    *)
Exchange(q) ==
  /\ At(q, "exchange")
  /\ IF req[q].of \in spent
       THEN Goto(q, "fail") /\ UNCHANGED spent
       ELSE /\ spent' \in {spent, spent \union {req[q].of}}
            /\ \/ spent' # spent /\ Goto(q, "credential")
               \/ Goto(q, "fail")
  /\ UNCHANGED <<row, hooks, attempts, issued, closing>>

(* The credential's foreign key needs the row.                             *)
StoreCredential(q) ==
  /\ At(q, "credential") /\ Found(q)
  /\ SetRow(q, [Mine(q) EXCEPT !.keyed = TRUE])
  /\ Goto(q, IF req[q].on \in Stores THEN "register" ELSE "activate")
  /\ UNCHANGED <<hooks, attempts, issued, spent, closing>>

(* Mutant: a store is ACTIVE whether or not its webhook was registered.    *)
RegisterUnchecked(q) ==
  /\ At(q, "register")
  /\ hooks' \in {hooks, hooks \union {<<req[q].seen.id, req[q].of>>}}
  /\ Goto(q, "activate")
  /\ UNCHANGED <<row, attempts, issued, spent, closing>>

(* registerWebhook, whose answer may be lost.                              *)
Register(q) ==
  /\ At(q, "register")
  /\ hooks' \in {hooks, hooks \union {<<req[q].seen.id, req[q].of>>}}
  /\ \/ hooks' # hooks /\ Goto(q, "activate")
     \/ Goto(q, "degrade")
  /\ UNCHANGED <<row, attempts, issued, spent, closing>>

Activate(q) ==
  /\ At(q, "activate") /\ Found(q)
  /\ SetRow(q, [Mine(q) EXCEPT !.status = "ACTIVE", !.state = 0, !.late = FALSE, !.shop = req[q].shop,
                               !.hook = IF req[q].on \in Stores THEN req[q].of ELSE 0])
  /\ End(q)
  /\ UNCHANGED <<hooks, attempts, issued, spent, closing>>

(* Shopify without its webhook: "connected, but ...".                      *)
Degrade(q) ==
  /\ At(q, "degrade") /\ Found(q)
  /\ SetRow(q, [Mine(q) EXCEPT !.status = "DEGRADED", !.state = 0, !.late = FALSE, !.shop = req[q].shop, !.hook = 0])
  /\ End(q)
  /\ UNCHANGED <<hooks, attempts, issued, spent, closing>>

(* Mutant: the notification's type instead of the status.                  *)
FailAsType(q) ==
  /\ At(q, "fail") /\ Found(q)
  /\ SetRow(q, [Mine(q) EXCEPT !.status = "integration_error", !.state = 0, !.late = FALSE])
  /\ End(q)
  /\ UNCHANGED <<hooks, attempts, issued, spent, closing>>

(* failIntegration.                                                        *)
Fail(q) ==
  /\ At(q, "fail") /\ Found(q)
  /\ SetRow(q, [Mine(q) EXCEPT !.status = "ERROR", !.state = 0, !.late = FALSE])
  /\ End(q)
  /\ UNCHANGED <<hooks, attempts, issued, spent, closing>>
-----------------------------------------------------------------------------
(* test.                                                                   *)

Test(q, i) ==
  /\ row[i].keyed
  /\ Begin(q, "probe", i, 0, None, row[i])
  /\ UNCHANGED <<row, hooks, attempts, issued, spent, closing>>

(* testConnection: for Shopify the webhook in the config must be live.  An *)
(* open circuit answers 503 and leaves the status alone.                   *)
Probe(q) ==
  /\ At(q, "probe")
  /\ \/ /\ req[q].on \in Stores => <<req[q].seen.id, req[q].seen.hook>> \in hooks
        /\ Goto(q, "promote")
     \/ Goto(q, "demote")
     \/ End(q)
  /\ UNCHANGED <<row, hooks, attempts, issued, spent, closing>>

(* Mutant: the update is by tenant and provider.                           *)
PromoteByProvider(q) ==
  /\ At(q, "promote") /\ Mine(q) # NoRow
  /\ SetRow(q, [Mine(q) EXCEPT !.status = "ACTIVE"])
  /\ End(q)
  /\ UNCHANGED <<hooks, attempts, issued, spent, closing>>

Promote(q) ==
  /\ At(q, "promote") /\ Found(q)
  /\ SetRow(q, [Mine(q) EXCEPT !.status = "ACTIVE"])
  /\ End(q)
  /\ UNCHANGED <<hooks, attempts, issued, spent, closing>>

Demote(q) ==
  /\ At(q, "demote") /\ Found(q)
  /\ SetRow(q, [Mine(q) EXCEPT !.status = "DEGRADED"])
  /\ End(q)
  /\ UNCHANGED <<hooks, attempts, issued, spent, closing>>
-----------------------------------------------------------------------------
(* disconnect.                                                             *)

Disconnect(q, i) ==
  /\ row[i] # NoRow
  /\ Begin(q, IF i \in Stores /\ row[i].keyed /\ row[i].hook # 0 THEN "unregister" ELSE "delete",
           i, 0, None, row[i])
  /\ closing' = closing \union {row[i].id}
  /\ UNCHANGED <<row, hooks, attempts, issued, spent>>

(* Best effort: Shopify may refuse.                                        *)
Unregister(q) ==
  /\ At(q, "unregister")
  /\ hooks' \in {hooks, hooks \ {<<req[q].seen.id, req[q].seen.hook>>}}
  /\ Goto(q, "delete")
  /\ UNCHANGED <<row, attempts, issued, spent, closing>>

Delete(q) ==
  /\ At(q, "delete")
  /\ DeleteRow(q)
  /\ End(q)
  /\ UNCHANGED <<hooks, attempts, issued, spent>>
-----------------------------------------------------------------------------
(* The awaited call throws and has no effect: the statement fails, or its  *)
(* row is gone.  Shopify's webhook block catches it as DEGRADED, test as a *)
(* failed test, the exchange and the cleanup at Shopify have their own     *)
(* outcomes above; anything else ends the request.                         *)
Throw(q) ==
  /\ req[q].at \notin {"idle", "exchange", "unregister"}
  /\ IF At(q, "promote") THEN Goto(q, "demote")
     ELSE IF At(q, "activate") /\ req[q].on \in Stores THEN Goto(q, "degrade")
     ELSE End(q)
  /\ UNCHANGED <<row, hooks, attempts, issued, spent, closing>>

Serve(q) ==
  \/ CheckGroup(q) \/ Mint(q) \/ ValidateKey(q) \/ StoreKey(q)
  \/ Resolve(q) \/ Abandon(q) \/ Collide(q) \/ Exchange(q)
  \/ StoreCredential(q) \/ Register(q) \/ Activate(q) \/ Degrade(q) \/ Fail(q)
  \/ Probe(q) \/ Promote(q) \/ Demote(q)
  \/ Unregister(q) \/ Delete(q)
  \/ Throw(q)

Expire ==
  /\ \E i \in Integration : row[i].state # 0 /\ ~row[i].late /\ row' = [row EXCEPT ![i].late = TRUE]
  /\ UNCHANGED <<hooks, attempts, issued, spent, closing, req>>

Restart ==
  /\ req # [q \in Requests |-> NoRequest]
  /\ req' = [q \in Requests |-> NoRequest]
  /\ UNCHANGED <<row, hooks, attempts, issued, spent, closing>>

Next ==
  \/ \E q \in Requests :
       \/ Serve(q)
       \/ \E i \in Integration : Connect(q, i) \/ Test(q, i) \/ Disconnect(q, i)
       \/ \E a \in Attempt : Callback(q, a)
  \/ Expire
  \/ Restart

Spec == Init /\ [][Next]_vars
-----------------------------------------------------------------------------
(* Properties.                                                             *)

(* What reads as usable can be used: a row that is ACTIVE or DEGRADED has  *)
(* a credential, whatever stale request wrote its status last.             *)
LiveHasCredential ==
  \A i \in Integration : row[i].status \in Live => row[i].keyed

(* An integration never "reads ACTIVE while silently never receiving any   *)
(* order": an ACTIVE store has a live order webhook addressed to its row,  *)
(* unless somebody asked to disconnect it.                                 *)
ActiveIsHooked ==
  \A i \in Stores : row[i].status = "ACTIVE" /\ row[i].id \notin closing =>
    \E a \in Attempt : <<row[i].id, a>> \in hooks

(* No row is "stranded at CONNECTING forever": when a callback has been    *)
(* answered with a redirect, no row without a credential waits for its     *)
(* state, although abandoning judges a row by an earlier read.             *)
AnsweredIsNotPending ==
  [][\A q \in Requests : (Abandon(q) \/ Activate(q) \/ Degrade(q) \/ Fail(q)) =>
        \A i \in Integration :
          row'[i].status = "CONNECTING" /\ ~row'[i].keyed => row'[i].state # req[q].of]_vars

(* Not kept (run shop_collision): "No other tenant may already hold an     *)
(* ACTIVE integration for this shop".                                      *)
OneTenantPerShop ==
  \A i, j \in Stores :
    row[i].status = "ACTIVE" /\ row[j].status = "ACTIVE" /\ row[i].shop = row[j].shop => i = j
=============================================================================
