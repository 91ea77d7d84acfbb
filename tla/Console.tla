------------------------------- MODULE Console -------------------------------
(***************************************************************************)
(* One browser tab of the console (src/apps/frontend) and what the backend *)
(* answers it.  The tab shows a screen of the workspace its URL names,     *)
(* once Clerk's active organization is that workspace (workspace-shell);   *)
(* its queries fill react-query's cache, its mutations write and           *)
(* invalidate (features/*/hooks), all of them through useApiClient and its *)
(* session token; the dashboard listens to the activity stream.  Requests  *)
(* under way outlive the screen and the workspace they were started in.    *)
(*                                                                         *)
(* A resource of a workspace is the time of its last write and a set: the  *)
(* orders overridden, the runs retried, the live providers, the            *)
(* notifications read.  Queries of different resources share nothing but   *)
(* the tab, so a behaviour follows one resource.  A resource has a query   *)
(* for its list, whatever the page and the filter, and one for what is     *)
(* shown of the item looked at, an order's timeline apart; what the role   *)
(* lets a member do is in Permissions.                                     *)
(***************************************************************************)
EXTENDS Naturals, Sequences, FiniteSets, Functions

CONSTANTS
  Workspaces,  \* Clerk organizations the user is a member of
  Home,        \* the workspace the tab is opened at
  None,        \* no workspace
  Screens,     \* screens the user visits, by the resource followed
  Resource,    \* the resources a behaviour may follow
  Items,       \* the orders, runs, providers and notifications there are
  Jobs,        \* mutations under way at a time
  BatchSize,   \* BATCH_SIZE of the bulk mutations: 5 in the code
  MaxItems,    \* MAX_ITEMS of the activity feed: 20 in the code
  MaxWrites,   \* writes to the backend, by the resource followed
  MaxOthers,   \* writes to the backend by when others write, likewise
  MaxMoves     \* changes of workspace, likewise

(* The screens, what they are about, and the queries they mount; the top   *)
(* bar of each counts the unread notifications.                            *)
GroupPage == {"shipping", "inventory", "mailer", "alerts", "shopify"}
Detail    == {"order", "workflow-run"}
View      == {"list", "detail", "timeline"}

Subject(s) == CASE s = "order"        -> "orders"
                [] s = "workflow-run" -> "workflow-runs"
                [] s \in GroupPage    -> "integrations"
                [] OTHER              -> s
MainView(s) == IF s \in Detail THEN "detail" ELSE "list"
Used(s) ==
  {<<"notifications", "list">>} \union
  CASE s = "dashboard" -> {"orders", "workflow-runs", "integrations"} \X {"list"}
    [] s = "order"     -> {"orders"} \X {"detail", "timeline"}
    [] OTHER           -> {<<Subject(s), MainView(s)>>}

(* Providers of which a workspace has one live at most.                    *)
MUTUALLY_EXCLUSIVE_GROUPS ==
  {{"EASYPOST", "SHIPPO"}, {"ZOHO_INVENTORY", "ODOO"},
   {"RESEND", "SENDGRID", "MAILGUN"}, {"SLACK", "DISCORD"}}

AllResources == {"orders", "workflow-runs", "integrations", "notifications"}
Item == UNION {Items[r] : r \in Resource}

ASSUME ConsoleAssumption ==
  /\ Resource \subseteq AllResources
  /\ DOMAIN Items = Resource /\ \A r \in Resource : IsFiniteSet(Items[r])
  /\ \A r \in Resource :
       /\ Screens[r] \subseteq AllResources \union GroupPage \union Detail \union {"dashboard"}
       /\ "dashboard" \in Screens[r] 
       /\ MaxWrites[r] \in Nat /\ MaxOthers[r] \in Nat /\ MaxMoves[r] \in Nat
  /\ Home \in Workspaces /\ None \notin Workspaces
  /\ BatchSize \in Nat \ {0} /\ MaxItems \in Nat \ {0}

VARIABLES
  slug,     \* the workspace in the URL
  org,      \* Clerk's active organization
  going,    \* where the organization switcher is about to navigate
  moves,    \* changes of workspace so far
  screen,   \* the screen
  followed, \* the resource followed
  clock,    \* the writes so far
  server,   \* its data in the backend, by workspace
  cache,    \* what each query of it has last fetched
  stale,    \* queries invalidated, failed or to be older than staleTime
  fetch,    \* the request each query has under way
  job,      \* the mutations under way
  acked,    \* the time of the last write reported to a screen that showed it
  stream,   \* whether the activity stream is open
  feed      \* the events the dashboard lists, newest first

place    == <<slug, org, going, moves>>
queries  == <<cache, stale, fetch>>
backend  == <<followed, clock, server>>
activity == <<stream, feed>>
vars     == <<place, screen, backend, queries, job, acked, activity>>

(* The query keys of orders and runs name the workspace.                   *)
Listed    == {"orders", "workflow-runs"}
Prefix(w) == IF followed \in Listed THEN w ELSE None
Key(w, v) == <<Prefix(w), v>>
Keys      == (Workspaces \union {None}) \X View

(* The backend's data, and what a query has of it: the screens' operations *)
(* depend on the live providers alone.                                     *)
Stored  == [at : Nat, val : SUBSET Item]
Data    == [ws : Workspaces, at : Nat, live : SUBSET Item]
Nothing == [ws |-> None, at |-> 0, live |-> {}]
Bearer  == Workspaces \union {None}
Request == [header : Workspaces, answer : Data \union {Nothing}]
NoRequest == [header |-> None]

Op     == {"override", "retry", "bulk", "connect", "disconnect", "test", "markRead"}
Job    == [op : Op, ws : Workspaces,
           all : SUBSET Item, todo : SUBSET Item,
           flight : SUBSET Item, failed : BOOLEAN, at : Nat, here : BOOLEAN]
NoJob  == [op |-> "none"]

TypeOK ==
  /\ slug \in Workspaces /\ org \in Workspaces
  /\ followed \in Resource /\ screen \in Screens[followed]
  /\ going \in Workspaces \union {None} /\ moves \in 0..MaxMoves[followed]
  /\ clock \in 0..MaxWrites[followed] /\ server \in [Workspaces -> Stored]
  /\ cache \in [Keys -> Data \union {Nothing}]
  /\ stale \subseteq Keys
  /\ fetch \in [Keys -> Request \union {NoRequest}]
  /\ job \in [Jobs -> Job \union {NoJob}]
  /\ acked \in [Workspaces \X View -> Nat]
  /\ stream \in BOOLEAN
  /\ feed \in Seq([ws : Workspaces, at : Nat])

Shown == org = slug
-----------------------------------------------------------------------------
(* Requests: useApiClient and ClerkTenantGuard.                            *)

(* Mutant: the guard takes the workspace from the token alone.             *)
AdmittedByToken(header, bearer) == bearer # None

(* The header names the workspace of the component that asked, the token   *)
(* the one that was active when Clerk minted it; it may have lapsed.  The  *)
(* one retry with a token minted anew, upon a 401 or the 403 of a token    *)
(* without a workspace, is another choice of token.                        *)
Admitted(header, bearer) == bearer # None /\ header = bearer
-----------------------------------------------------------------------------
(* Queries (react-query).                                                  *)

Ask(ks, w) ==
  [k \in Keys |-> IF k \in ks
                  THEN [header |-> w, answer |-> Nothing]
                  ELSE fetch[k]]

Shows(s, v)   == <<followed, v>> \in Used(s)
Mounted(s, w) == {Key(w, v) : v \in {u \in View : Shows(s, u)}}

(* A mounting query asks unless its data is fresh or on its way.           *)
Mount(s, w) ==
  fetch' = Ask({k \in Mounted(s, w) :
                  fetch[k] = NoRequest /\ (k \in stale \/ cache[k] = Nothing)}, w)

(* invalidateQueries, of all queries of a resource: a mounted one asks     *)
(* anew, and drops the request under way if it has data to show meanwhile. *)
(* One on its first fetch, or left on its way, keeps that; its answer will *)
(* count as fresh.                                                         *)
Invalid(w) == {k \in Keys : k[1] = Prefix(w)}
InvalidateBut(w, kept) ==
  /\ stale' = stale \union Invalid(w)
  /\ fetch' = IF Shown
              THEN Ask((Invalid(w) \intersect Mounted(screen, slug)) \ kept, slug)
              ELSE fetch

(* Mutant: a request under way is left to answer the refetch.              *)
InvalidateSoftly(w) == InvalidateBut(w, {k \in Keys : fetch[k] # NoRequest})

Invalidate(w) == InvalidateBut(w, {k \in Keys : fetch[k] # NoRequest /\ cache[k] = Nothing})

Ended(k) == [fetch EXCEPT ![k] = NoRequest]

Seen(w) == [ws |-> w, at |-> server[w].at,
            live |-> IF followed = "integrations" THEN server[w].val ELSE {}]

Serve(k) ==
  /\ fetch[k] # NoRequest /\ fetch[k].answer = Nothing
  /\ \E bearer \in Bearer :
       /\ Admitted(fetch[k].header, bearer)
       /\ fetch' = [fetch EXCEPT ![k].answer = Seen(bearer)]
  /\ UNCHANGED <<place, screen, backend, cache, stale, job, acked, activity>>

(* Refused, or no answer: react-query asks again, and gives up in the end. *)
FailFetch(k) ==
  /\ fetch[k] # NoRequest
  /\ \/ fetch' = Ask({k}, fetch[k].header) /\ UNCHANGED stale
     \/ fetch' = Ended(k) /\ stale' = stale \union {k}
  /\ UNCHANGED <<place, screen, backend, cache, job, acked, activity>>

(* What is kept is fresh, or stale already when it is next looked at:      *)
(* staleTime will have passed.                                             *)
Fetched(k) ==
  /\ fetch[k] # NoRequest /\ fetch[k].answer # Nothing
  /\ cache' = [cache EXCEPT ![k] = fetch[k].answer]
  /\ stale' \in {stale \ {k}, stale \union {k}}
  /\ fetch' = Ended(k)
  /\ UNCHANGED <<place, screen, backend, job, acked, activity>>
-----------------------------------------------------------------------------
(* Mutations.                                                              *)

(* A screen offers what it is about once its own view is there, though an  *)
(* order's timeline may still be on its way.                               *)
Loaded == Shown /\ followed = Subject(screen) /\ cache[Key(slug, MainView(screen))] # Nothing

(* The outcomes upon which the mutation's hook invalidates its resource.   *)
Refetches(op) == IF op = "test" THEN {"success", "error"} ELSE {"success"}

(* What the screens offer: in bulk upon the rows ticked, any that the list *)
(* has shown, on the page of one upon that one.                            *)
OrdersList(op)          == op = "bulk"
OrderStatusOverride(op) == op = "override"
WorkflowRunsList(op)    == op = "bulk"
WorkflowRunDetail(op)   == op = "retry"
NotificationsList(op)   == op = "markRead"

(* A page of providers offers the forms of its own while none is live, and *)
(* to test or disconnect the live one.  Shopify and Zoho are connected by  *)
(* a redirect, which is a write of others and a new page load.             *)
Manages(group, forms, op, ids) ==
  LET active == cache[Key(slug, "list")].live \intersect group IN
  \/ op = "connect" /\ active = {} /\ ids \subseteq forms
  \/ op \in {"disconnect", "test"} /\ ids \subseteq active
ShippingPage(op, ids) == Manages({"EASYPOST", "SHIPPO"}, {"EASYPOST", "SHIPPO"}, op, ids)
InventoryPage(op, ids) == Manages({"ZOHO_INVENTORY", "ODOO"}, {"ODOO"}, op, ids)
MailerPage(op, ids) ==
  LET mailers == {"RESEND", "SENDGRID", "MAILGUN"} IN Manages(mailers, mailers, op, ids)
AlertsPage(op, ids) == Manages({"SLACK", "DISCORD"}, {"SLACK", "DISCORD"}, op, ids)
IntegrationDetail(op, ids) == Manages({"SHOPIFY"}, {}, op, ids)

Offered(op, ids) ==
  CASE screen = "orders"        -> OrdersList(op)
    [] screen = "order"         -> OrderStatusOverride(op)
    [] screen = "workflow-runs" -> WorkflowRunsList(op)
    [] screen = "workflow-run"  -> WorkflowRunDetail(op)
    [] screen = "notifications" -> NotificationsList(op)
    [] screen = "shipping"      -> ShippingPage(op, ids)
    [] screen = "inventory"     -> InventoryPage(op, ids)
    [] screen = "mailer"        -> MailerPage(op, ids)
    [] screen = "alerts"        -> AlertsPage(op, ids)
    [] screen = "shopify"       -> IntegrationDetail(op, ids)
    [] OTHER                    -> FALSE

(* A button is disabled while its own mutation is under way.               *)
Begin(j, op, ids) ==
  /\ job[j] = NoJob
  /\ Loaded /\ ids # {} /\ (op = "bulk" \/ Cardinality(ids) = 1) /\ Offered(op, ids)
  /\ \A i \in Jobs : job[i] # NoJob => job[i].op # op \/ ~job[i].here \/ op = "markRead"
  /\ job' = [job EXCEPT ![j] =
       [op |-> op, ws |-> slug, all |-> ids, todo |-> ids,
        flight |-> {}, failed |-> FALSE, at |-> 0, here |-> TRUE]]
  /\ UNCHANGED <<place, screen, backend, queries, acked, activity>>

(* Up to BatchSize of the ids at a time, in some order.                    *)
Batch(ids) == IF Cardinality(ids) <= BatchSize THEN ids
              ELSE CHOOSE b \in SUBSET ids : Cardinality(b) = BatchSize

(* Mutant: the next batch starts one id too far.                           *)
SendBatchSkipping(j) ==
  /\ job[j] # NoJob /\ job[j].flight = {} /\ job[j].todo # {}
  /\ \E x \in job[j].todo :
       job' = [job EXCEPT ![j].todo = @ \ (Batch(@) \union {x}), ![j].flight = Batch(job[j].todo)]
  /\ UNCHANGED <<place, screen, backend, queries, acked, activity>>

(* The next batch waits for all the requests of the one before.            *)
SendBatch(j) ==
  /\ job[j] # NoJob /\ job[j].flight = {} /\ job[j].todo # {}
  /\ job' = [job EXCEPT ![j].todo = @ \ Batch(@), ![j].flight = Batch(job[j].todo)]
  /\ UNCHANGED <<place, screen, backend, queries, acked, activity>>

(* What a write makes of the data, and whether the backend would refuse    *)
(* it: a second live provider of a group, a provider that is not there.    *)
Written(op, d, x) ==
  [d EXCEPT !.at = clock + 1,
            !.val = CASE op = "disconnect"      -> @ \ {x}
                      [] op \in {"test", "other"} -> @
                      [] OTHER                  -> @ \union {x}]
Accepts(op, d, x) ==
  CASE op = "connect" ->
         \A g \in MUTUALLY_EXCLUSIVE_GROUPS : x \in g => d.val \intersect g \subseteq {x}
    [] op \in {"disconnect", "test"} -> x \in d.val
    [] OTHER -> TRUE

(* An event reaches the dashboard of the workspace whose stream is open.   *)
Listening(w) == stream /\ w = slug

(* Mutant: a new event goes to the end of the list.                        *)
FeedWithAppended(e) == SubSeq(feed \o <<e>>, 1, IF Len(feed) < MaxItems THEN Len(feed) + 1 ELSE MaxItems)

FeedWith(e) == SubSeq(<<e>> \o feed, 1, IF Len(feed) < MaxItems THEN Len(feed) + 1 ELSE MaxItems)
Publish(w) ==
  feed' = IF Listening(w) /\ followed \in Listed
          THEN FeedWith([ws |-> w, at |-> clock + 1])
          ELSE feed

Write(op, w, x) ==
  /\ clock < MaxWrites[followed] /\ clock' = clock + 1
  /\ Accepts(op, server[w], x)
  /\ server' = [server EXCEPT ![w] = Written(op, @, x)]
  /\ Publish(w)
  /\ UNCHANGED followed

(* The write and its answer, which may be lost.                            *)
Apply(j, x) ==
  LET m == job[j] IN
  /\ m # NoJob /\ x \in m.flight
  /\ \E bearer \in Bearer : Admitted(m.ws, bearer) /\ Write(m.op, bearer, x)
  /\ \E heard \in BOOLEAN :
       job' = [job EXCEPT ![j].flight = @ \ {x},
                          ![j].failed = @ \/ ~heard,
                          ![j].at = clock + 1]
  /\ UNCHANGED <<place, screen, queries, acked, stream>>

(* Refused, by the guard or the handler, or not delivered.                 *)
Refuse(j, x) ==
  /\ job[j] # NoJob /\ x \in job[j].flight
  /\ job' = [job EXCEPT ![j].flight = @ \ {x}, ![j].failed = TRUE]
  /\ UNCHANGED <<place, screen, backend, queries, acked, activity>>

(* allSettled makes a bulk mutation succeed whatever its requests did.     *)
Outcome(m) == IF m.op = "bulk" \/ ~m.failed THEN "success" ELSE "error"

(* The views that are there when their screen is told of a write.          *)
Told(m) ==
  {a \in Workspaces \X View : /\ m.here /\ (Outcome(m) = "success" \/ m.op = "test")
                             /\ a[1] = m.ws /\ Shows(screen, a[2])
                             /\ cache[Key(m.ws, a[2])] # Nothing}

(* The hook's callback runs wherever the tab is by now, the component's    *)
(* only while it is mounted.                                               *)
Settle(j) ==
  LET m == job[j] IN
  /\ m # NoJob /\ m.flight = {} /\ m.todo = {}
  /\ IF Outcome(m) \in Refetches(m.op)
     THEN Invalidate(m.ws)
     ELSE UNCHANGED <<stale, fetch>>
  /\ acked' = [a \in Workspaces \X View |->
                 IF a \in Told(m) /\ m.at > acked[a] THEN m.at ELSE acked[a]]
  /\ job' = [job EXCEPT ![j] = NoJob]
  /\ UNCHANGED <<place, screen, backend, cache, activity>>
-----------------------------------------------------------------------------
(* Moving about.  What unmounts loses its callbacks and its stream;        *)
(* requests go on.                                                         *)

Orphaned == [j \in Jobs |-> IF job[j] = NoJob THEN NoJob ELSE [job[j] EXCEPT !.here = FALSE]]

Leave == job' = Orphaned /\ stream' = FALSE /\ feed' = <<>>

Navigate(s) ==
  /\ Shown /\ s # screen
  /\ screen' = s
  /\ Leave /\ Mount(s, slug)
  /\ UNCHANGED <<place, backend, cache, stale, acked>>

(* WorkspaceShell shows its children while the two agree.                  *)
Moved ==
  /\ Leave
  /\ IF org' = slug' THEN Mount(screen', slug') ELSE UNCHANGED fetch

(* Mutant: the switcher offers the personal account as well.               *)
SwitchToPersonal(w) ==
  /\ moves < MaxMoves[followed] /\ w # org /\ going = None
  /\ org' \in {w, None} /\ going' = w /\ moves' = moves + 1
  /\ UNCHANGED <<slug, screen>> /\ Moved
  /\ UNCHANGED <<backend, cache, stale, acked>>

(* The organization switcher sets the organization, then navigates.        *)
SwitchTo(w) ==
  /\ moves < MaxMoves[followed] /\ w # org /\ going = None
  /\ org' = w /\ going' = w /\ moves' = moves + 1
  /\ UNCHANGED <<slug, screen>> /\ Moved
  /\ UNCHANGED <<backend, cache, stale, acked>>

Arrive ==
  /\ going # None
  /\ slug' = going /\ going' = None /\ screen' = "dashboard"
  /\ UNCHANGED <<org, moves>> /\ Moved
  /\ UNCHANGED <<backend, cache, stale, acked>>

(* The browser's history leads back to another workspace's screen.         *)
GoBackTo(w) ==
  /\ moves < MaxMoves[followed] /\ w # slug
  /\ slug' = w /\ moves' = moves + 1
  /\ UNCHANGED <<org, going, screen>> /\ Moved
  /\ UNCHANGED <<backend, cache, stale, acked>>

(* Mutant: the shell activates the organization at the first load alone.   *)
SetActiveOnce ==
  /\ ~Shown /\ moves = 0
  /\ org' = slug /\ UNCHANGED <<slug, going, moves, screen>> /\ Moved
  /\ UNCHANGED <<backend, cache, stale, acked>>

(* WorkspaceShell's effect.                                                *)
SetActive ==
  /\ ~Shown
  /\ org' = slug /\ UNCHANGED <<slug, going, moves, screen>> /\ Moved
  /\ UNCHANGED <<backend, cache, stale, acked>>

(* A new page load, as after an OAuth provider's consent screen, keeps     *)
(* nothing but the URL and Clerk's session.                                *)
Reload ==
  /\ cache' = [k \in Keys |-> Nothing] /\ stale' = {}
  /\ fetch' = [k \in Keys |-> IF Shown /\ k \in Mounted(screen, slug)
                               THEN [header |-> slug, answer |-> Nothing]
                               ELSE NoRequest]
  /\ job' = [j \in Jobs |-> NoJob] /\ going' = None
  /\ acked' = [a \in Workspaces \X View |-> 0]
  /\ stream' = FALSE /\ feed' = <<>>
  /\ UNCHANGED <<slug, org, moves, screen, backend>>
-----------------------------------------------------------------------------
(* The pipeline, other members and other tabs write as well.               *)
OthersWrite(w) ==
  /\ clock < MaxOthers[followed]
  /\ \E x \in Items[followed], op \in {"connect", "disconnect", "other"} :
       (followed = "integrations" \/ op = "other") /\ Write(op, w, x)
  /\ UNCHANGED <<place, screen, queries, job, acked, stream>>

(* useEventStream: what is published while the stream is down is lost.  A  *)
(* refusal or the stream's end is for good, an error is waited out: either *)
(* is a stream that does not open, yet or ever.  It is followed where it   *)
(* has something to say.                                                   *)
OpenStream ==
  /\ Shown /\ screen = "dashboard" /\ ~stream /\ followed \in Listed
  /\ stream' = TRUE
  /\ UNCHANGED <<place, screen, backend, queries, job, acked, feed>>

BreakStream ==
  /\ stream /\ stream' = FALSE
  /\ UNCHANGED <<place, screen, backend, queries, job, acked, feed>>
-----------------------------------------------------------------------------
Init ==
  /\ slug = Home /\ org = slug /\ going = None /\ moves = 0
  /\ screen = "dashboard"
  /\ followed \in Resource /\ clock = 0
  /\ server = [w \in Workspaces |-> [at |-> 0, val |-> {}]]
  /\ cache = [k \in Keys |-> Nothing] /\ stale = {}
  /\ fetch = [k \in Keys |-> IF k \in Mounted("dashboard", slug)
                             THEN [header |-> slug, answer |-> Nothing]
                             ELSE NoRequest]
  /\ job = [j \in Jobs |-> NoJob]
  /\ acked = [a \in Workspaces \X View |-> 0]
  /\ stream = FALSE /\ feed = <<>>

Next ==
  \/ \E k \in Keys : Serve(k) \/ FailFetch(k) \/ Fetched(k)
  \/ \E j \in Jobs :
       \/ \E op \in Op, ids \in SUBSET Items[followed] : Begin(j, op, ids)
       \/ SendBatch(j) \/ Settle(j)
       \/ \E x \in Items[followed] : Apply(j, x) \/ Refuse(j, x)
  \/ \E s \in Screens[followed] : Navigate(s)
  \/ \E w \in Workspaces : OthersWrite(w) \/ SwitchTo(w) \/ GoBackTo(w)
  \/ Arrive \/ SetActive \/ Reload
  \/ OpenStream \/ BreakStream

(* The browser navigates and runs effects.                                 *)
Spec == Init /\ [][Next]_vars /\ WF_vars(Arrive) /\ WF_vars(SetActive)
-----------------------------------------------------------------------------
(* Properties.                                                             *)

(* Orders and runs kept for a workspace are that workspace's, although     *)
(* requests and tokens outlive a switch of workspace (use-api-client.ts,   *)
(* clerk-tenant.guard.ts).                                                 *)
OwnWorkspace ==
  \A w \in Workspaces, v \in View : cache[<<w, v>>].ws \in {w, None}

(* Once a screen has been told that its write was done, what it showed     *)
(* then and counts as fresh includes the write, although a read may have   *)
(* been under way meanwhile (features/*/hooks).  A view that was on its    *)
(* first fetch, an order's timeline say, and a screen that was left        *)
(* meanwhile are promised nothing.                                         *)
OwnWritesShown ==
  \A w \in Workspaces, v \in View :
    LET k == Key(w, v) IN
    cache[k].ws = w /\ k \notin stale /\ fetch[k] = NoRequest
      => cache[k].at >= acked[<<w, v>>]

(* A mutation that has heard of no failure when its last batch is back has *)
(* written every row it was given (useBulkUpdateOrderStatus).              *)
AllTickedAreWritten ==
  \A j \in Jobs :
    LET m == job[j] IN
    m # NoJob /\ m.op \in {"override", "retry", "bulk"} /\ m.todo = {} /\ m.flight = {} /\ ~m.failed
      => m.all \subseteq server[m.ws].val

(* The activity feed lists the events of the workspace it is shown for,    *)
(* newest first and each once (activity-feed, RealtimeService).            *)
FeedIsNewestFirst ==
  /\ Len(feed) <= MaxItems
  /\ \A i \in DOMAIN feed :
       /\ feed[i].ws = slug
       /\ \A j \in 1..(i - 1) : feed[j].at > feed[i].at

(* However the switcher's navigation, the history and the shell's effect   *)
(* interleave, the tab ends up showing the workspace in its URL.           *)
ShellSettles == []<>(Shown /\ going = None)
=============================================================================
