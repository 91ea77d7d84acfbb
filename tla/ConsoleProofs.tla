---------------------------- MODULE ConsoleProofs ----------------------------
(***************************************************************************)
(* Proofs about Console, for any workspaces, screens and items, any number *)
(* of mutations under way, any batch and feed size and any number of       *)
(* writes and moves.                                                       *)
(*                                                                         *)
(* Reads and writes outlive the screen that asked for them, so the         *)
(* inductive invariant says of each that is under way what it will find:   *)
(* FetchesFit of reads, JobsFit of mutations.                              *)
(***************************************************************************)
EXTENDS Console, TLAPS, FiniteSetTheorems

Lasting == {"override", "retry", "bulk"}

(* A read is of the workspace its header names, and its answer, if it has  *)
(* one, is as new as any write the screen that shows it was told of.       *)
FetchFits(k, f) ==
  f # NoRequest =>
    /\ k[1] = Prefix(f.header)
    /\ f.answer.ws \in {f.header, None}
    /\ \A w \in Workspaces : f.answer.ws = w => f.answer.at >= acked[<<w, k[2]>>]

FetchesFit == \A k \in Keys : FetchFits(k, fetch[k])

TimesFit ==
  \A w \in Workspaces : /\ server[w].at =< clock
                        /\ \A v \in View : acked[<<w, v>>] =< server[w].at

JobFits(m) ==
  m # NoJob =>
    /\ m.here => Shown /\ m.ws = slug /\ followed = Subject(screen)
    /\ m.at =< server[m.ws].at
    /\ m.op = "disconnect" => followed = "integrations"
    /\ m.op \in Lasting =>
         /\ followed \in Listed
         /\ ~m.failed => m.all \subseteq m.todo \union m.flight \union server[m.ws].val

JobsFit == \A j \in Jobs : JobFits(job[j])

FeedFits == FeedIsNewestFirst /\ \A i \in DOMAIN feed : feed[i].at =< clock

QueriesFit == FetchesFit /\ OwnWorkspace /\ OwnWritesShown

IInv == TypeOK /\ QueriesFit /\ TimesFit /\ JobsFit /\ FeedFits
-----------------------------------------------------------------------------
LEMMA Constants ==
  /\ None \notin Workspaces /\ Home \in Workspaces /\ MaxItems \in Nat \ {0}
  /\ \A r \in Resource : /\ "dashboard" \in Screens[r]
                          /\ MaxWrites[r] \in Nat /\ MaxOthers[r] \in Nat /\ MaxMoves[r] \in Nat
  /\ DOMAIN Items = Resource
BY ConsoleAssumption

LEMMA KeyTyped ==
  ASSUME NEW w \in Workspaces, NEW v \in View
  PROVE  Key(w, v) \in Keys /\ Key(w, v)[1] = Prefix(w) /\ Key(w, v)[2] = v /\ Prefix(w) \in {w, None}
BY DEF Key, Keys, Prefix

LEMMA KeysTyped ==
  ASSUME NEW k \in Keys
  PROVE  k = <<k[1], k[2]>> /\ k[1] \in Workspaces \union {None} /\ k[2] \in View
BY DEF Keys

(* A query asks, or nothing does: what is kept only counts as older.       *)
LEMMA AsksFit ==
  ASSUME TypeOK, QueriesFit, NEW w \in Workspaces, NEW ks, \A k \in ks : k[1] = Prefix(w),
         fetch' = Ask(ks, w), UNCHANGED <<followed, cache, acked>>,
         stale \subseteq stale', stale' \subseteq Keys
  PROVE  fetch' \in [Keys -> Request \union {NoRequest}] /\ QueriesFit'
<1> DEFINE f == [header |-> w, answer |-> Nothing]
<1>1. f \in Request /\ f.header = w /\ f.answer = Nothing /\ f # NoRequest
  BY Constants DEF Request, NoRequest
<1>2. \A k \in Keys : fetch'[k] = IF k \in ks THEN f ELSE fetch[k]
  BY DEF Ask
<1> HIDE DEF f
<1>3. fetch' \in [Keys -> Request \union {NoRequest}]
  <2>1. fetch' = [k \in Keys |-> fetch'[k]]
    BY DEF Ask
  <2>. QED BY <1>1, <1>2, <2>1 DEF TypeOK
<1>4. ASSUME NEW k \in Keys PROVE FetchFits(k, fetch[k])'
  <2>1. CASE k \in ks
    BY <1>1, <1>2, <2>1, Constants DEF FetchFits, Nothing, Prefix
  <2>2. CASE k \notin ks
    BY <1>2, <2>2 DEF QueriesFit, FetchesFit, FetchFits, Prefix
  <2>. QED BY <2>1, <2>2
<1>5. OwnWorkspace'
  BY DEF QueriesFit, OwnWorkspace
<1>6. OwnWritesShown'
  <2> SUFFICES ASSUME NEW v \in Workspaces, NEW q \in View, cache[Key(v, q)].ws = v,
                      Key(v, q) \notin stale', fetch'[Key(v, q)] = NoRequest
               PROVE  cache[Key(v, q)].at >= acked[<<v, q>>]
    BY DEF OwnWritesShown, Key, Prefix
  <2>1. fetch[Key(v, q)] = NoRequest
    BY <1>1, <1>2, KeyTyped
  <2>. QED BY <2>1 DEF QueriesFit, OwnWritesShown
<1>. QED BY <1>3, <1>4, <1>5, <1>6 DEF QueriesFit, FetchesFit

LEMMA AskNothing ==
  ASSUME TypeOK, QueriesFit, UNCHANGED <<followed, cache, acked, fetch>>,
         stale \subseteq stale', stale' \subseteq Keys
  PROVE  fetch' \in [Keys -> Request \union {NoRequest}] /\ QueriesFit'
BY DEF TypeOK, QueriesFit, FetchesFit, FetchFits, OwnWorkspace, OwnWritesShown, Key, Prefix

LEMMA MountFits ==
  ASSUME TypeOK, QueriesFit, NEW w \in Workspaces, NEW s, Mount(s, w),
         UNCHANGED <<followed, cache, acked, stale>>
  PROVE  fetch' \in [Keys -> Request \union {NoRequest}] /\ QueriesFit'
<1> DEFINE ks == {k \in Mounted(s, w) : fetch[k] = NoRequest /\ (k \in stale \/ cache[k] = Nothing)}
<1>1. (\A k \in ks : k[1] = Prefix(w)) /\ fetch' = Ask(ks, w)
  BY DEF Mounted, Mount, Key
<1>2. stale \subseteq stale' /\ stale' \subseteq Keys
  BY DEF TypeOK
<1> HIDE DEF ks
<1>. QED BY <1>1, <1>2, AsksFit

LEMMA InvalidateFits ==
  ASSUME TypeOK, QueriesFit, NEW w \in Workspaces, Invalidate(w), UNCHANGED <<followed, cache, acked>>
  PROVE  /\ stale' \subseteq Keys /\ fetch' \in [Keys -> Request \union {NoRequest}] /\ QueriesFit'
<1>1. stale' = stale \union Invalid(w) /\ stale' \subseteq Keys
  BY DEF Invalidate, InvalidateBut, Invalid, TypeOK
<1>2. CASE Shown
  <2>1. PICK ks : /\ ks \subseteq Mounted(screen, slug)
                  /\ fetch' = Ask(ks, slug)
    BY <1>2 DEF Invalidate, InvalidateBut
  <2>2. \A k \in ks : k[1] = Prefix(slug)
    BY <2>1 DEF Mounted, Key
  <2>3. slug \in Workspaces
    BY DEF TypeOK
  <2>. QED BY <1>1, <2>1, <2>2, <2>3, AsksFit
<1>3. CASE ~Shown
  <2>1. UNCHANGED fetch
    BY <1>3 DEF Invalidate, InvalidateBut
  <2>. QED BY <1>1, <2>1, AskNothing
<1>. QED BY <1>2, <1>3

(* The queries when a step leaves them alone.                              *)
LEMMA QueriesKept ==
  ASSUME IInv, UNCHANGED <<followed, queries, acked>>
  PROVE  QueriesFit'
<1>1. stale \subseteq stale' /\ stale' \subseteq Keys
  BY DEF IInv, TypeOK, queries
<1>. QED BY <1>1, AskNothing DEF IInv, queries

LEMMA JobTyped ==
  ASSUME TypeOK, NEW j \in Jobs, job[j] # NoJob
  PROVE  job[j] \in Job /\ job[j].ws \in Workspaces /\ job[j].at \in Nat
BY Constants DEF TypeOK, Job

LEMMA ServerTyped ==
  ASSUME TypeOK, NEW w \in Workspaces
  PROVE  /\ server[w] \in Stored /\ server[w].at \in Nat /\ clock \in Nat
         /\ \A v \in View : acked[<<w, v>>] \in Nat
BY Constants DEF TypeOK, Stored

(* The backend's data only grows where mutations last.                     *)
Grows ==
  /\ server' \in [Workspaces -> Stored]
  /\ \A w \in Workspaces : /\ server[w].at =< server'[w].at
                           /\ followed \in Listed => server[w].val \subseteq server'[w].val

LEMMA JobStable ==
  ASSUME TypeOK, UNCHANGED <<followed, slug, org, screen>>, Grows, NEW m \in Job \union {NoJob}, JobFits(m)
  PROVE  JobFits(m)'
<1> SUFFICES ASSUME m # NoJob PROVE JobFits(m)'
  BY DEF JobFits
<1>1. m.ws \in Workspaces /\ m.at \in Nat
  BY Constants DEF Job
<1>2. server[m.ws].at \in Nat /\ server'[m.ws].at \in Nat
  BY <1>1, ServerTyped, Constants DEF Grows, Stored
<1>3. m.at =< server'[m.ws].at
  BY <1>1, <1>2 DEF JobFits, Grows
<1>4. m.here => Shown' /\ m.ws = slug' /\ followed' = Subject(screen)'
  BY DEF JobFits, Shown, Subject
<1>5. m.op \in Lasting => followed' \in Listed /\
        (~m.failed => m.all \subseteq m.todo \union m.flight \union server'[m.ws].val)
  BY <1>1 DEF JobFits, Grows
<1>6. m.op = "disconnect" => followed' = "integrations"
  BY DEF JobFits
<1>. QED BY <1>3, <1>4, <1>5, <1>6 DEF JobFits

(* One mutation changes, and what becomes of it fits.                      *)
LEMMA JobsStable ==
  ASSUME TypeOK, JobsFit, UNCHANGED <<followed, slug, org, screen>>, Grows, NEW j \in Jobs,
         NEW m \in Job \union {NoJob}, job' = [job EXCEPT ![j] = m], JobFits(m)'
  PROVE  job' \in [Jobs -> Job \union {NoJob}] /\ JobsFit'
<1>1. job' \in [Jobs -> Job \union {NoJob}]
  BY DEF TypeOK
<1>2. ASSUME NEW i \in Jobs PROVE JobFits(job[i])'
  <2>1. CASE i = j
    <3>1. job'[i] = m
      BY <2>1 DEF TypeOK
    <3>. QED BY <3>1 DEF JobFits
  <2>2. CASE i # j
    <3>1. PICK n \in Job \union {NoJob} : n = job[i]
      BY DEF TypeOK
    <3>2. job'[i] = n /\ JobFits(n)
      BY <2>2, <3>1 DEF TypeOK, JobsFit
    <3>3. JobFits(n)'
      BY <3>2, JobStable
    <3>. QED BY <3>2, <3>3 DEF JobFits
  <2>. QED BY <2>1, <2>2
<1>. QED BY <1>1, <1>2 DEF JobsFit

LEMMA ServerKept ==
  ASSUME TypeOK, UNCHANGED <<followed, server>>
  PROVE  Grows
BY ServerTyped DEF Grows, TypeOK

LEMMA JobsKept ==
  ASSUME TypeOK, JobsFit, UNCHANGED <<followed, slug, org, screen, job>>, Grows
  PROVE  JobsFit'
<1>1. ASSUME NEW i \in Jobs PROVE JobFits(job[i])'
  <2>1. PICK n \in Job \union {NoJob} : n = job[i]
    BY DEF TypeOK
  <2>2. job'[i] = n /\ JobFits(n)
    BY <2>1 DEF JobsFit
  <2>3. JobFits(n)'
    BY <2>2, JobStable
  <2>. QED BY <2>2, <2>3 DEF JobFits
<1>. QED BY <1>1 DEF JobsFit

(* What leaving a screen makes of the mutations and the feed.              *)
LEMMA LeaveFits ==
  ASSUME TypeOK, JobsFit, Leave, UNCHANGED <<followed, server>>
  PROVE  /\ job' \in [Jobs -> Job \union {NoJob}] /\ JobsFit'
         /\ stream' \in BOOLEAN /\ feed' \in Seq([ws : Workspaces, at : Nat]) /\ FeedFits'
<1>1. ASSUME NEW i \in Jobs
      PROVE  job'[i] \in Job \union {NoJob} /\ JobFits(job[i])'
  <2>1. CASE job[i] = NoJob
    <3>1. job'[i] = NoJob
      BY <2>1 DEF Leave, Orphaned
    <3>. QED BY <3>1 DEF JobFits
  <2>2. CASE job[i] # NoJob
    <3>1. job'[i] = [job[i] EXCEPT !.here = FALSE] /\ job[i] \in Job /\ JobFits(job[i])
      BY <2>2, JobTyped DEF Leave, Orphaned, JobsFit
    <3>2. /\ job'[i] \in Job /\ job'[i].here = FALSE /\ job'[i].ws = job[i].ws /\ job'[i].at = job[i].at
          /\ job'[i].op = job[i].op /\ job'[i].failed = job[i].failed /\ job'[i].all = job[i].all
          /\ job'[i].todo = job[i].todo /\ job'[i].flight = job[i].flight
      BY <3>1 DEF Job
    <3>3. job[i] # NoJob => JobFits(job[i])
      BY <3>1
    <3>. QED BY <2>2, <3>1, <3>2 DEF JobFits
  <2>. QED BY <2>1, <2>2
<1>2. job' = [i \in Jobs |-> job'[i]]
  BY DEF Leave, Orphaned
<1>3. job' \in [Jobs -> Job \union {NoJob}]
  BY <1>1, <1>2
<1>4. feed' = <<>> /\ feed' \in Seq([ws : Workspaces, at : Nat]) /\ Len(feed') = 0 /\ DOMAIN feed' = {}
  BY DEF Leave
<1>5. FeedFits'
  BY <1>4, Constants DEF FeedFits, FeedIsNewestFirst
<1>. QED BY <1>1, <1>3, <1>4, <1>5 DEF JobsFit, Leave

LEMMA FeedGrows ==
  ASSUME NEW S, feed \in Seq(S), NEW e \in S, Len(feed) =< MaxItems
  PROVE  /\ FeedWith(e) \in Seq(S) /\ Len(FeedWith(e)) =< MaxItems
         /\ Len(FeedWith(e)) =< Len(feed) + 1
         /\ \A i \in 1 .. Len(FeedWith(e)) : FeedWith(e)[i] = IF i = 1 THEN e ELSE feed[i - 1]
<1> DEFINE t == <<e>> \o feed
           n == IF Len(feed) < MaxItems THEN Len(feed) + 1 ELSE MaxItems
<1>1. /\ t \in Seq(S) /\ Len(t) = Len(feed) + 1
      /\ \A i \in 1 .. Len(feed) + 1 : t[i] = IF i = 1 THEN e ELSE feed[i - 1]
  OBVIOUS
<1>2. n \in Nat /\ n =< Len(feed) + 1 /\ n =< MaxItems
  BY Constants
<1>3. FeedWith(e) = SubSeq(t, 1, n)
  BY DEF FeedWith
<1> HIDE DEF t, n
<1>4. SubSeq(t, 1, n) \in Seq(S) /\ Len(SubSeq(t, 1, n)) = n /\ \A i \in 1 .. n : SubSeq(t, 1, n)[i] = t[i]
  BY <1>1, <1>2
<1>. QED BY <1>1, <1>2, <1>3, <1>4

LEMMA SeqElements ==
  ASSUME NEW S, NEW q \in Seq(S)
  PROVE  DOMAIN q = 1 .. Len(q) /\ \A i \in 1 .. Len(q) : q[i] \in S
OBVIOUS

LEMMA FeedKept ==
  ASSUME TypeOK, FeedFits, UNCHANGED <<feed, slug>>, clock' \in Nat, clock =< clock'
  PROVE  feed' \in Seq([ws : Workspaces, at : Nat]) /\ FeedFits'
<1>1. feed \in Seq([ws : Workspaces, at : Nat])
  BY DEF TypeOK
<1>2. \A i \in DOMAIN feed : feed[i].at \in Nat
  <2>1. \A i \in DOMAIN feed : feed[i] \in [ws : Workspaces, at : Nat]
    BY <1>1, SeqElements
  <2>. QED BY <2>1, Constants
<1>3. clock \in Nat
  BY Constants DEF TypeOK
<1>. QED BY <1>1, <1>2, <1>3, Constants DEF FeedFits, FeedIsNewestFirst

LEMMA PublishFits ==
  ASSUME TypeOK, FeedFits, NEW w \in Workspaces, Publish(w), UNCHANGED slug,
         clock' = clock + 1
  PROVE  feed' \in Seq([ws : Workspaces, at : Nat]) /\ FeedFits'
<1> DEFINE S == [ws : Workspaces, at : Nat]
<1>1. feed \in Seq(S) /\ clock \in Nat /\ clock' \in Nat /\ clock < clock'
  BY Constants DEF TypeOK
<1>2. CASE Listening(w)
  <2>1. PICK e \in S : e = [ws |-> w, at |-> clock + 1]
    BY <1>1
  <2>2. CASE feed' = feed
    BY <1>1, <2>2, FeedKept
  <2>3. CASE feed' = FeedWith(e)
    <3>1. Len(feed) =< MaxItems
      BY DEF FeedFits, FeedIsNewestFirst
    <3>2. /\ feed' \in Seq(S) /\ Len(feed') =< MaxItems /\ Len(feed') =< Len(feed) + 1
          /\ \A i \in 1 .. Len(feed') : feed'[i] = IF i = 1 THEN e ELSE feed[i - 1]
      BY <1>1, <2>3, <3>1, FeedGrows
    <3>3. DOMAIN feed = 1 .. Len(feed) /\ DOMAIN feed' = 1 .. Len(feed') /\ Len(feed) \in Nat /\ Len(feed') \in Nat
      BY <1>1, <3>2
    <3>4. \A i \in 1 .. Len(feed) :
            /\ feed[i].ws = slug /\ feed[i].at =< clock /\ feed[i].at \in Nat
            /\ \A j \in 1 .. (i - 1) : feed[j].at > feed[i].at
      <4>1. \A i \in 1 .. Len(feed) : feed[i] \in S
        BY <1>1, SeqElements
      <4>2. \A i \in 1 .. Len(feed) : feed[i].at \in Nat
        BY <4>1, Constants
      <4>. QED BY <3>3, <4>2 DEF FeedFits, FeedIsNewestFirst
    <3>5. e.ws = slug /\ e.at = clock'
      BY <1>2, <2>1 DEF Listening
    <3>6. ASSUME NEW i \in 1 .. Len(feed')
          PROVE  /\ feed'[i].ws = slug /\ feed'[i].at =< clock'
                 /\ \A j \in 1 .. (i - 1) : feed'[j].at > feed'[i].at
      <4>1. CASE i = 1
        BY <1>1, <3>2, <3>5, <4>1
      <4>2. CASE i # 1
        <5>1. i - 1 \in 1 .. Len(feed) /\ feed'[i] = feed[i - 1]
          BY <3>2, <3>3, <4>2
        <5>2. ASSUME NEW j \in 1 .. (i - 1) PROVE feed'[j].at > feed'[i].at
          <6>1. j \in 1 .. Len(feed')
            BY <3>3
          <6>2. CASE j = 1
            <7>1. feed'[j] = e
              BY <3>2, <6>1, <6>2
            <7>2. feed[i - 1].at =< clock /\ feed[i - 1].at \in Nat
              BY <3>4, <5>1
            <7>. QED BY <1>1, <3>5, <5>1, <7>1, <7>2
          <6>3. CASE j # 1
            <7>1. j - 1 \in 1 .. ((i - 1) - 1)
              BY <3>3, <6>3
            <7>2. feed'[j] = feed[j - 1]
              BY <3>2, <6>1, <6>3
            <7>. QED BY <3>4, <5>1, <7>1, <7>2
          <6>. QED BY <6>2, <6>3
        <5>. QED BY <1>1, <3>4, <5>1, <5>2
      <4>. QED BY <4>1, <4>2
    <3>. QED BY <3>2, <3>3, <3>6 DEF FeedFits, FeedIsNewestFirst
  <2>. QED BY <2>1, <2>2, <2>3 DEF Publish
<1>3. CASE ~Listening(w)
  <2>1. UNCHANGED feed
    BY <1>3 DEF Publish
  <2>. QED BY <1>1, <2>1, FeedKept
<1>. QED BY <1>2, <1>3

(* A write of the user or of others.                                       *)
LEMMA WriteFits ==
  ASSUME TypeOK, TimesFit, FeedFits, NEW w \in Workspaces, NEW op, NEW x \in Item, Write(op, w, x),
         op = "disconnect" => followed \notin Listed, UNCHANGED <<slug, acked>>
  PROVE  /\ clock' \in 0..MaxWrites[followed] /\ Grows /\ TimesFit' /\ server'[w].at = clock + 1
         /\ op \in Lasting => x \in server'[w].val
         /\ feed' \in Seq([ws : Workspaces, at : Nat]) /\ FeedFits'
<1>1. clock \in Nat /\ clock' = clock + 1 /\ clock' \in Nat /\ clock' \in 0..MaxWrites[followed]
  BY Constants DEF Write, TypeOK
<1>2. PICK d \in Stored : d = server[w]
  BY ServerTyped
<1>3. PICK y : y = CASE op = "disconnect" -> d.val \ {x}
                     [] op \in {"test", "other"} -> d.val
                     [] OTHER -> d.val \union {x}
  OBVIOUS
<1>4. y \in SUBSET Item /\ (op # "disconnect" => d.val \subseteq y) /\ (op \in Lasting => x \in y)
  <2>1. d.val \in SUBSET Item
    BY DEF Stored
  <2>. QED BY <1>3, <2>1 DEF Lasting
<1>5. Written(op, server[w], x) = [d EXCEPT !.at = clock + 1, !.val = y]
  BY <1>2, <1>3, Zenon DEF Written
<1> DEFINE e == [d EXCEPT !.at = clock + 1, !.val = y]
<1>6. e \in Stored /\ e.at = clock + 1 /\ e.val = y
  BY <1>1, <1>4 DEF Stored
<1>7. server' = [server EXCEPT ![w] = e]
  BY <1>5 DEF Write
<1> HIDE DEF e
<1>8. server' \in [Workspaces -> Stored] /\ \A u \in Workspaces : server'[u] = IF u = w THEN e ELSE server[u]
  BY <1>6, <1>7 DEF TypeOK
<1>9. ASSUME NEW u \in Workspaces
      PROVE  /\ server[u].at =< server'[u].at /\ server'[u].at =< clock'
             /\ \A v \in View : acked'[<<u, v>>] =< server'[u].at
             /\ followed \in Listed => server[u].val \subseteq server'[u].val
  <2>1. /\ server[u].at \in Nat /\ server[u].at =< clock
        /\ \A v \in View : acked[<<u, v>>] \in Nat /\ acked[<<u, v>>] =< server[u].at
    BY ServerTyped DEF TimesFit
  <2>. QED BY <1>1, <1>2, <1>4, <1>6, <1>8, <2>1
<1>10. Publish(w) /\ UNCHANGED followed
  BY DEF Write
<1>11. feed' \in Seq([ws : Workspaces, at : Nat]) /\ FeedFits'
  BY <1>1, <1>10, PublishFits
<1>. QED BY <1>1, <1>4, <1>6, <1>8, <1>9, <1>11 DEF Grows, TimesFit
-----------------------------------------------------------------------------
(* The steps.                                                              *)

LEMMA InitIInv == Init => IInv
<1> SUFFICES ASSUME Init PROVE IInv
  OBVIOUS
<1>1. /\ followed \in Resource /\ 0 \in 0..MaxWrites[followed] /\ 0 \in 0..MaxMoves[followed] /\ Nothing \in Data \union {Nothing}
      /\ [at |-> 0, val |-> {}] \in Stored
  BY Constants DEF Init, Stored
<1> DEFINE f == [header |-> Home, answer |-> Nothing]
<1>2. f \in Request /\ f # NoRequest
  BY Constants DEF Request, NoRequest
<1>3. \A k \in Keys : fetch[k] \in {f, NoRequest} /\ (fetch[k] = f => k[1] = Prefix(Home))
  <2>1. \A k \in Mounted("dashboard", Home) : k[1] = Prefix(Home)
    BY DEF Mounted, Key
  <2>2. \A k \in Keys : fetch[k] = IF k \in Mounted("dashboard", Home) THEN f ELSE NoRequest
    BY DEF Init
  <2>. QED BY <1>2, <2>1, <2>2
<1>4. TypeOK
  <2>1. fetch \in [Keys -> Request \union {NoRequest}]
    BY <1>2, <1>3 DEF Init
  <2>2. feed \in Seq([ws : Workspaces, at : Nat])
    BY DEF Init
  <2>3. server \in [Workspaces -> Stored] /\ acked \in [Workspaces \X View -> Nat]
    BY <1>1 DEF Init
  <2>. QED BY <1>1, <2>1, <2>2, <2>3, Constants DEF Init, TypeOK
<1>5. ASSUME NEW k \in Keys PROVE FetchFits(k, fetch[k])
  <2>1. CASE fetch[k] = NoRequest
    BY <2>1 DEF FetchFits
  <2>2. CASE fetch[k] = f
    <3>1. fetch[k].header = Home /\ fetch[k].answer.ws = None /\ k[1] = Prefix(Home)
      BY <1>3, <2>2 DEF Nothing
    <3>2. None \notin Workspaces
      BY Constants
    <3>. QED BY <3>1, <3>2 DEF FetchFits
  <2>. QED BY <1>3, <2>1, <2>2
<1>6. OwnWorkspace /\ OwnWritesShown
  BY Constants, KeyTyped DEF Init, OwnWorkspace, OwnWritesShown, Nothing, Keys
<1>7. TimesFit /\ JobsFit
  BY DEF Init, TimesFit, JobsFit, JobFits
<1>8. FeedFits
  BY Constants DEF Init, FeedFits, FeedIsNewestFirst
<1>. QED BY <1>4, <1>5, <1>6, <1>7, <1>8 DEF IInv, QueriesFit, FetchesFit

(* A request under way is answered or sent again.                          *)
LEMMA RefetchFits ==
  ASSUME TypeOK, QueriesFit, NEW k \in Keys, fetch[k] # NoRequest, NEW f \in Request, FetchFits(k, f),
         fetch' = [fetch EXCEPT ![k] = f], UNCHANGED <<followed, cache, stale, acked>>
  PROVE  fetch' \in [Keys -> Request \union {NoRequest}] /\ QueriesFit'
<1>1. f # NoRequest /\ \A l \in Keys : fetch'[l] = IF l = k THEN f ELSE fetch[l]
  BY Constants DEF TypeOK, Request, NoRequest
<1>2. fetch' \in [Keys -> Request \union {NoRequest}]
  BY DEF TypeOK
<1>3. \A l \in Keys : FetchFits(l, fetch[l])'
  BY <1>1 DEF QueriesFit, FetchesFit, FetchFits, Prefix
<1>4. OwnWorkspace'
  BY DEF QueriesFit, OwnWorkspace
<1>5. OwnWritesShown'
  <2> SUFFICES ASSUME NEW v \in Workspaces, NEW q \in View, cache[Key(v, q)].ws = v,
                      Key(v, q) \notin stale, fetch'[Key(v, q)] = NoRequest
               PROVE  cache[Key(v, q)].at >= acked[<<v, q>>]
    BY DEF OwnWritesShown, Key, Prefix
  <2>1. fetch[Key(v, q)] = NoRequest
    BY <1>1, KeyTyped
  <2>. QED BY <2>1 DEF QueriesFit, OwnWritesShown
<1>. QED BY <1>2, <1>3, <1>4, <1>5 DEF QueriesFit, FetchesFit

(* The rest of the invariant when only the queries change.                 *)
LEMMA OnlyQueries ==
  ASSUME IInv, UNCHANGED <<place, screen, backend, job, acked, activity>>,
         cache' \in [Keys -> Data \union {Nothing}], stale' \subseteq Keys,
         fetch' \in [Keys -> Request \union {NoRequest}], QueriesFit'
  PROVE  IInv'
<1> USE DEF place, backend, activity
<1>1. TypeOK'
  BY DEF IInv, TypeOK
<1>2. TimesFit'
  BY DEF IInv, TimesFit
<1>3. JobsFit'
  BY ServerKept, JobsKept DEF IInv
<1>4. FeedFits'
  BY ServerTyped, FeedKept, Constants DEF IInv, TypeOK
<1>. QED BY <1>1, <1>2, <1>3, <1>4 DEF IInv

LEMMA ServeStep ==
  ASSUME IInv, NEW k \in Keys, Serve(k)
  PROVE  IInv'
<1>1. PICK b \in Bearer : Admitted(fetch[k].header, b) /\ fetch' = [fetch EXCEPT ![k].answer = Seen(b)]
  BY DEF Serve
<1>2. fetch[k] \in Request /\ fetch[k] # NoRequest /\ FetchFits(k, fetch[k])
  BY DEF Serve, IInv, TypeOK, QueriesFit, FetchesFit
<1>3. b \in Workspaces /\ fetch[k].header = b
  BY <1>1 DEF Admitted, Bearer
<1>4. PICK a \in Data : a = Seen(b) /\ a.ws = b /\ a.at = server[b].at
  <2>1. server[b] \in Stored
    BY <1>3, ServerTyped DEF IInv
  <2>2. PICK d \in Stored : d = server[b]
    BY <2>1
  <2>3. PICK l \in SUBSET Item : l = IF followed = "integrations" THEN d.val ELSE {}
    BY DEF Stored
  <2>4. Seen(b) = [ws |-> b, at |-> d.at, live |-> l]
    BY <2>2, <2>3 DEF Seen
  <2>5. [ws |-> b, at |-> d.at, live |-> l] \in Data
    BY <1>3 DEF Data, Stored
  <2>. QED BY <2>2, <2>4, <2>5
<1>5. PICK f \in Request : f = [fetch[k] EXCEPT !.answer = a]
  BY <1>2, <1>4 DEF Request
<1>6. f.header = b /\ f.answer = a
  BY <1>2, <1>3, <1>5 DEF Request
<1>7. fetch' = [fetch EXCEPT ![k] = f]
  BY <1>1, <1>4, <1>5 DEF IInv, TypeOK
<1>8. FetchFits(k, f)
  <2>1. /\ server[b].at \in Nat /\ k[2] \in View
        /\ acked[<<b, k[2]>>] =< server[b].at /\ acked[<<b, k[2]>>] \in Nat
    BY <1>3, ServerTyped, KeysTyped DEF IInv, TimesFit
  <2>. QED BY <1>2, <1>3, <1>4, <1>6, <2>1 DEF FetchFits
<1>9. UNCHANGED <<place, screen, backend, cache, stale, job, acked, activity>> /\ UNCHANGED followed
  BY DEF Serve, backend
<1>10. fetch' \in [Keys -> Request \union {NoRequest}] /\ QueriesFit'
  BY <1>2, <1>7, <1>8, <1>9, RefetchFits DEF IInv
<1>. QED BY <1>9, <1>10, OnlyQueries DEF IInv, TypeOK

LEMMA FailFetchStep ==
  ASSUME IInv, NEW k \in Keys, FailFetch(k)
  PROVE  IInv'
<1>1. /\ UNCHANGED <<place, screen, backend, cache, job, acked, activity>> /\ UNCHANGED followed
      /\ fetch[k] # NoRequest /\ fetch[k] \in Request /\ FetchFits(k, fetch[k])
  BY DEF FailFetch, backend, IInv, TypeOK, QueriesFit, FetchesFit
<1>2. CASE fetch' = Ask({k}, fetch[k].header) /\ UNCHANGED stale
  <2>1. PICK f \in Request : f = [header |-> fetch[k].header, answer |-> Nothing]
    BY <1>1 DEF Request
  <2>2. fetch' = [fetch EXCEPT ![k] = f]
    BY <1>2, <2>1 DEF Ask, IInv, TypeOK
  <2>3. FetchFits(k, f)
    BY <1>1, <2>1, Constants DEF FetchFits, Nothing
  <2>4. fetch' \in [Keys -> Request \union {NoRequest}] /\ QueriesFit'
    BY <1>1, <1>2, <2>2, <2>3, RefetchFits DEF IInv
  <2>. QED BY <1>1, <1>2, <2>4, OnlyQueries DEF IInv, TypeOK
<1>3. CASE fetch' = Ended(k) /\ stale' = stale \union {k}
  <2>1. \A l \in Keys : fetch'[l] = IF l = k THEN NoRequest ELSE fetch[l]
    BY <1>3 DEF Ended, IInv, TypeOK
  <2>2. fetch' \in [Keys -> Request \union {NoRequest}] /\ stale' \subseteq Keys
    BY <1>3 DEF Ended, IInv, TypeOK
  <2>3. \A l \in Keys : FetchFits(l, fetch[l])'
    BY <1>1, <2>1 DEF IInv, QueriesFit, FetchesFit, FetchFits, Prefix
  <2>4. OwnWorkspace'
    BY <1>1 DEF IInv, QueriesFit, OwnWorkspace
  <2>5. OwnWritesShown'
    <3> SUFFICES ASSUME NEW v \in Workspaces, NEW q \in View, cache[Key(v, q)].ws = v,
                        Key(v, q) \notin stale', fetch'[Key(v, q)] = NoRequest
                 PROVE  cache[Key(v, q)].at >= acked[<<v, q>>]
      BY <1>1 DEF OwnWritesShown, Key, Prefix
    <3>1. Key(v, q) \notin stale /\ fetch[Key(v, q)] = NoRequest
      BY <1>3, <2>1, KeyTyped
    <3>. QED BY <3>1 DEF IInv, QueriesFit, OwnWritesShown
  <2>. QED BY <1>1, <2>2, <2>3, <2>4, <2>5, OnlyQueries DEF IInv, TypeOK, QueriesFit, FetchesFit
<1>. QED BY <1>2, <1>3 DEF FailFetch

LEMMA FetchedStep ==
  ASSUME IInv, NEW k \in Keys, Fetched(k)
  PROVE  IInv'
<1>1. /\ UNCHANGED <<place, screen, backend, job, acked, activity>> /\ UNCHANGED followed
      /\ fetch[k] # NoRequest /\ fetch[k] \in Request /\ FetchFits(k, fetch[k])
      /\ stale' \in {stale \ {k}, stale \union {k}} /\ fetch' = Ended(k)
      /\ cache' = [cache EXCEPT ![k] = fetch[k].answer]
  BY DEF Fetched, backend, IInv, TypeOK, QueriesFit, FetchesFit
<1>2. PICK a \in Data \union {Nothing} : a = fetch[k].answer
  BY <1>1 DEF Request
<1>3. \A l \in Keys : /\ fetch'[l] = IF l = k THEN NoRequest ELSE fetch[l]
                      /\ cache'[l] = IF l = k THEN a ELSE cache[l]
  BY <1>1, <1>2 DEF Ended, IInv, TypeOK
<1>4. /\ fetch' \in [Keys -> Request \union {NoRequest}] /\ stale' \subseteq Keys
      /\ cache' \in [Keys -> Data \union {Nothing}]
  BY <1>1, <1>2 DEF Ended, IInv, TypeOK
<1>5. \A l \in Keys : FetchFits(l, fetch[l])'
  BY <1>1, <1>3 DEF IInv, QueriesFit, FetchesFit, FetchFits, Prefix
<1>6. OwnWorkspace'
  <2> SUFFICES ASSUME NEW w \in Workspaces, NEW v \in View PROVE cache'[<<w, v>>].ws \in {w, None}
    BY DEF OwnWorkspace
  <2>1. <<w, v>> \in Keys
    BY DEF Keys
  <2>2. CASE <<w, v>> = k
    <3>1. Prefix(fetch[k].header) = w /\ cache'[k] = fetch[k].answer
      BY <1>1, <1>2, <1>3, <2>2 DEF FetchFits
    <3>2. fetch[k].header = w
      BY <3>1, Constants DEF Prefix
    <3>. QED BY <1>1, <2>2, <3>1, <3>2 DEF FetchFits
  <2>3. CASE <<w, v>> # k
    BY <1>3, <2>1, <2>3 DEF IInv, QueriesFit, OwnWorkspace
  <2>. QED BY <2>2, <2>3
<1>7. OwnWritesShown'
  <2> SUFFICES ASSUME NEW v \in Workspaces, NEW q \in View, cache'[Key(v, q)].ws = v,
                      Key(v, q) \notin stale', fetch'[Key(v, q)] = NoRequest
               PROVE  cache'[Key(v, q)].at >= acked[<<v, q>>]
    BY <1>1 DEF OwnWritesShown, Key, Prefix
  <2>1. CASE Key(v, q) = k
    BY <1>1, <1>2, <1>3, <2>1, KeyTyped DEF FetchFits
  <2>2. CASE Key(v, q) # k
    <3>1. Key(v, q) \notin stale /\ fetch[Key(v, q)] = NoRequest /\ cache'[Key(v, q)] = cache[Key(v, q)]
      BY <1>1, <1>3, <2>2, KeyTyped
    <3>. QED BY <3>1 DEF IInv, QueriesFit, OwnWritesShown
  <2>. QED BY <2>1, <2>2
<1>. QED BY <1>1, <1>4, <1>5, <1>6, <1>7, OnlyQueries DEF QueriesFit, FetchesFit

LEMMA ItemsFinite == IsFiniteSet(Item)
<1> DEFINE I(r) == IF r \in Resource THEN Items[r] ELSE {}
<1>1. \A r : IsFiniteSet(I(r))
  BY ConsoleAssumption, FS_EmptySet
<1>2. Item \subseteq (I("orders") \union I("workflow-runs")) \union (I("integrations") \union I("notifications"))
  BY ConsoleAssumption DEF Item, AllResources
<1> HIDE DEF I
<1>3. IsFiniteSet((I("orders") \union I("workflow-runs")) \union (I("integrations") \union I("notifications")))
  BY <1>1, FS_Union
<1>. QED BY <1>2, <1>3, FS_Subset

LEMMA SubsetOfSize ==
  ASSUME NEW S, IsFiniteSet(S), NEW n \in Nat, n =< Cardinality(S)
  PROVE  \E b \in SUBSET S : Cardinality(b) = n
<1>1. Cardinality(S) \in Nat
  BY FS_CardinalityType
<1>2. PICK f : f \in Bijection(1 .. Cardinality(S), S)
  BY FS_CardinalityType DEF ExistsBijection
<1> DEFINE b == {f[i] : i \in 1 .. n}
           g == [i \in 1 .. n |-> f[i]]
<1>3. 1 .. n \subseteq 1 .. Cardinality(S)
  BY <1>1
<1>4. b \in SUBSET S
  BY <1>2, <1>3 DEF Bijection, Injection
<1>5. g \in Bijection(1 .. n, b)
  BY <1>2, <1>3 DEF Bijection, Injection, Surjection, IsInjective
<1>6. IsFiniteSet(1 .. n) /\ Cardinality(1 .. n) = n
  BY FS_Interval
<1>7. Cardinality(b) = n
  <2>1. ExistsBijection(1 .. n, b)
    BY <1>5 DEF ExistsBijection
  <2> HIDE DEF b, g
  <2>. QED BY <1>6, <2>1, FS_Bijection
<1> HIDE DEF b
<1>. QED BY <1>4, <1>7

(* A batch is some of the ids.                                             *)
LEMMA BatchOfIds ==
  ASSUME NEW ids \in SUBSET Item PROVE Batch(ids) \subseteq ids
<1>1. IsFiniteSet(ids) /\ Cardinality(ids) \in Nat
  BY ItemsFinite, FS_Subset, FS_CardinalityType
<1>2. BatchSize \in Nat
  BY ConsoleAssumption
<1>3. CASE Cardinality(ids) <= BatchSize
  BY <1>3 DEF Batch
<1>4. CASE ~(Cardinality(ids) <= BatchSize)
  <2>1. \E b \in SUBSET ids : Cardinality(b) = BatchSize
    BY <1>1, <1>2, <1>4, SubsetOfSize
  <2>. QED BY <1>4, <2>1 DEF Batch
<1>. QED BY <1>3, <1>4

(* One mutation changes, and nothing else.                                 *)
LEMMA OnlyJob ==
  ASSUME IInv, UNCHANGED <<place, screen, backend, queries, acked, activity>>,
         NEW j \in Jobs, NEW m \in Job \union {NoJob}, job' = [job EXCEPT ![j] = m], JobFits(m)
  PROVE  IInv'
<1> USE DEF place, backend, queries, activity
<1>1. JobFits(m)' /\ Grows
  BY ServerKept, JobStable DEF IInv
<1>2. job' \in [Jobs -> Job \union {NoJob}] /\ JobsFit'
  BY <1>1, JobsStable DEF IInv
<1>3. QueriesFit'
  BY QueriesKept
<1>4. TypeOK'
  BY <1>2 DEF IInv, TypeOK
<1>5. TimesFit'
  BY DEF IInv, TimesFit
<1>6. FeedFits'
  BY ServerTyped, FeedKept, Constants DEF IInv, TypeOK
<1>. QED BY <1>2, <1>3, <1>4, <1>5, <1>6 DEF IInv

(* Writes that last are offered on the lists and on the page of one,       *)
(* disconnecting where providers are shown.                                *)
LEMMA OfferedHere ==
  ASSUME NEW op \in Op, NEW ids, Offered(op, ids), followed = Subject(screen)
  PROVE  /\ op \in Lasting => followed \in Listed
         /\ op = "disconnect" => followed = "integrations"
<1>1. CASE screen \in {"orders", "order", "workflow-runs", "workflow-run"}
  <2>1. followed \in Listed
    BY <1>1 DEF Subject, GroupPage, Listed
  <2>2. op # "disconnect"
    BY <1>1 DEF Offered, OrdersList, OrderStatusOverride, WorkflowRunsList, WorkflowRunDetail
  <2>. QED BY <2>1, <2>2
<1>2. CASE screen = "notifications"
  BY <1>2 DEF Offered, NotificationsList, Lasting
<1>3. CASE screen \in GroupPage
  <2>1. followed = "integrations"
    BY <1>3 DEF Subject, GroupPage
  <2>2. op \in {"connect", "disconnect", "test"}
    BY <1>3 DEF Offered, GroupPage, ShippingPage, InventoryPage, MailerPage, AlertsPage,
                IntegrationDetail, Manages
  <2>. QED BY <2>1, <2>2 DEF Lasting
<1>4. CASE screen \notin {"orders", "order", "workflow-runs", "workflow-run", "notifications"} \union GroupPage
  BY <1>4 DEF Offered, GroupPage
<1>. QED BY <1>1, <1>2, <1>3, <1>4

LEMMA BeginStep ==
  ASSUME IInv, NEW j \in Jobs, NEW op \in Op, NEW ids \in SUBSET Item, Begin(j, op, ids)
  PROVE  IInv'
<1>1. Shown /\ followed = Subject(screen) /\ Offered(op, ids)
  BY DEF Begin, Loaded
<1>2. slug \in Workspaces /\ server[slug].at \in Nat
  BY Constants, ServerTyped DEF IInv, TypeOK
<1>3. PICK w \in Workspaces : w = slug
  BY <1>2
<1> DEFINE m == [op |-> op, ws |-> w, all |-> ids, todo |-> ids,
                 flight |-> {}, failed |-> FALSE, at |-> 0, here |-> TRUE]
<1>4. m \in Job
  BY <1>2, <1>3 DEF Job
<1>5. /\ m.op = op /\ m.ws = w /\ m.all = ids /\ m.todo = ids /\ m.at = 0
  OBVIOUS
<1> HIDE DEF m
<1>6. JobFits(m)
  BY <1>1, <1>2, <1>3, <1>5, OfferedHere DEF JobFits
<1>7. job' = [job EXCEPT ![j] = m]
  BY <1>3 DEF Begin, m
<1>. QED BY <1>4, <1>6, <1>7, OnlyJob DEF Begin

LEMMA SendBatchStep ==
  ASSUME IInv, NEW j \in Jobs, SendBatch(j)
  PROVE  IInv'
<1>1. PICK n \in Job : n = job[j] /\ n # NoJob /\ JobFits(n)
  BY JobTyped DEF SendBatch, IInv, JobsFit
<1>2. n.todo \in SUBSET Item /\ n.flight = {}
  BY <1>1 DEF SendBatch, Job
<1>3. PICK b \in SUBSET n.todo : b = Batch(n.todo)
  BY <1>2, BatchOfIds
<1>4. PICK m : m = [n EXCEPT !.todo = n.todo \ b, !.flight = b]
  OBVIOUS
<1>5. /\ m \in Job /\ m.op = n.op /\ m.ws = n.ws /\ m.all = n.all /\ m.failed = n.failed
      /\ m.at = n.at /\ m.here = n.here /\ m.todo = n.todo \ b /\ m.flight = b
  BY <1>2, <1>3, <1>4 DEF Job
<1>6. JobFits(m)
  BY <1>1, <1>2, <1>3, <1>5 DEF JobFits
<1>7. job' = [job EXCEPT ![j] = m]
  BY <1>1, <1>3, <1>4 DEF SendBatch, IInv, TypeOK
<1>. QED BY <1>5, <1>6, <1>7, OnlyJob DEF SendBatch

LEMMA RefuseStep ==
  ASSUME IInv, NEW j \in Jobs, NEW x \in Item, Refuse(j, x)
  PROVE  IInv'
<1>1. PICK n \in Job : n = job[j] /\ n # NoJob /\ JobFits(n)
  BY JobTyped DEF Refuse, IInv, JobsFit
<1>2. PICK m : m = [n EXCEPT !.flight = n.flight \ {x}, !.failed = TRUE]
  OBVIOUS
<1>3. /\ m \in Job /\ m.op = n.op /\ m.ws = n.ws /\ m.failed = TRUE
      /\ m.at = n.at /\ m.here = n.here
  BY <1>2 DEF Job
<1>4. JobFits(m)
  BY <1>1, <1>3 DEF JobFits
<1>5. job' = [job EXCEPT ![j] = m]
  BY <1>1, <1>2 DEF Refuse, IInv, TypeOK
<1>. QED BY <1>3, <1>4, <1>5, OnlyJob DEF Refuse

(* The rest of the invariant upon a write, whoever makes it.               *)
LEMMA AfterWrite ==
  ASSUME IInv, UNCHANGED <<place, screen, queries, acked, stream, followed>>,
         clock' \in 0..MaxWrites[followed], Grows, TimesFit',
         feed' \in Seq([ws : Workspaces, at : Nat]), FeedFits',
         job' \in [Jobs -> Job \union {NoJob}], JobsFit'
  PROVE  IInv'
<1> USE DEF place, queries
<1>1. QueriesFit'
  BY QueriesKept
<1>2. TypeOK'
  BY DEF IInv, TypeOK, Grows
<1>. QED BY <1>1, <1>2 DEF IInv

LEMMA ApplyStep ==
  ASSUME IInv, NEW j \in Jobs, NEW x \in Item, Apply(j, x)
  PROVE  IInv'
<1>1. PICK n \in Job : n = job[j] /\ n # NoJob /\ JobFits(n) /\ x \in n.flight
  BY JobTyped DEF Apply, IInv, JobsFit
<1>2. PICK w \in Workspaces : w = n.ws /\ Write(n.op, w, x)
  BY <1>1 DEF Apply, Admitted, Bearer
<1>3. PICK heard \in BOOLEAN :
        job' = [job EXCEPT ![j].flight = @ \ {x}, ![j].failed = @ \/ ~heard, ![j].at = clock + 1]
  BY DEF Apply
<1>4. UNCHANGED <<place, screen, queries, acked, stream>>
  BY DEF Apply
<1>5. n.op = "disconnect" => followed \notin Listed
  BY <1>1 DEF JobFits, Listed
<1>6. PICK op \in Op : op = n.op
  BY DEF Job
<1>7. /\ clock' \in 0..MaxWrites[followed] /\ Grows /\ TimesFit' /\ server'[w].at = clock + 1
      /\ op \in Lasting => x \in server'[w].val
      /\ feed' \in Seq([ws : Workspaces, at : Nat]) /\ FeedFits'
  BY <1>2, <1>4, <1>5, <1>6, WriteFits DEF place, IInv
<1>8. clock' = clock + 1 /\ followed' = followed
  BY <1>2 DEF Write
<1>9. PICK t \in BOOLEAN : t = (n.failed \/ ~heard)
  OBVIOUS
<1>10. PICK c \in Nat : c = clock + 1
  BY ServerTyped, <1>2 DEF IInv
<1>11. PICK m : m = [n EXCEPT !.flight = n.flight \ {x}, !.failed = t, !.at = c]
  OBVIOUS
<1>12. /\ m \in Job /\ m.op = n.op /\ m.ws = n.ws /\ m.all = n.all /\ m.todo = n.todo
       /\ m.here = n.here /\ m.flight = n.flight \ {x} /\ m.failed = t /\ m.at = c
  BY <1>11 DEF Job
<1>13. job' = [job EXCEPT ![j] = m]
  BY <1>1, <1>3, <1>9, <1>10, <1>11 DEF IInv, TypeOK
<1>14. JobFits(m)'
  <2>1. n.failed \in BOOLEAN /\ (~t => ~n.failed)
    BY <1>9 DEF Job
  <2>2. /\ m.here => Shown' /\ m.ws = slug' /\ followed' = Subject(screen)'
        /\ m.op = "disconnect" => followed' = "integrations"
    BY <1>1, <1>4, <1>8, <1>12 DEF JobFits, place, Shown, Subject
  <2>3. m.at =< server'[m.ws].at
    BY <1>2, <1>7, <1>10, <1>12, Constants
  <2>4. m.op \in Lasting => followed' \in Listed
    BY <1>1, <1>8, <1>12 DEF JobFits
  <2>5. m.op \in Lasting /\ ~m.failed => m.all \subseteq m.todo \union m.flight \union server'[m.ws].val
    <3> SUFFICES ASSUME m.op \in Lasting, ~m.failed
                 PROVE  m.all \subseteq m.todo \union m.flight \union server'[m.ws].val
      OBVIOUS
    <3>1. n.all \subseteq n.todo \union n.flight \union server[w].val /\ followed \in Listed
      BY <1>1, <1>2, <1>12, <2>1 DEF JobFits
    <3>2. server[w].val \subseteq server'[w].val /\ x \in server'[w].val
      BY <1>6, <1>7, <1>12, <3>1 DEF Grows
    <3>. QED BY <1>2, <1>12, <3>1, <3>2
  <2>. QED BY <2>2, <2>3, <2>4, <2>5 DEF JobFits
<1>15. job' \in [Jobs -> Job \union {NoJob}] /\ JobsFit'
  BY <1>4, <1>7, <1>8, <1>12, <1>13, <1>14, JobsStable DEF IInv, place
<1>. QED BY <1>4, <1>7, <1>8, <1>15, AfterWrite

LEMMA OthersWriteStep ==
  ASSUME IInv, NEW w \in Workspaces, OthersWrite(w)
  PROVE  IInv'
<1>1. PICK x \in Items[followed], op \in {"connect", "disconnect", "other"} :
        (followed = "integrations" \/ op = "other") /\ Write(op, w, x)
  BY DEF OthersWrite
<1>2. x \in Item
  BY DEF Item, IInv, TypeOK
<1>3. UNCHANGED <<place, screen, queries, job, acked, stream>> /\ UNCHANGED followed
  BY <1>1 DEF OthersWrite, Write
<1>4. op = "disconnect" => followed \notin Listed
  BY <1>1 DEF Listed
<1>5. /\ clock' \in 0..MaxWrites[followed] /\ Grows /\ TimesFit'
      /\ feed' \in Seq([ws : Workspaces, at : Nat]) /\ FeedFits'
  BY <1>1, <1>2, <1>3, <1>4, WriteFits DEF place, IInv
<1>6. job' \in [Jobs -> Job \union {NoJob}] /\ JobsFit'
  BY <1>3, <1>5, JobsKept DEF place, IInv, TypeOK
<1>. QED BY <1>3, <1>5, <1>6, AfterWrite

LEMMA SettleStep ==
  ASSUME IInv, NEW j \in Jobs, Settle(j)
  PROVE  IInv'
<1>1. PICK n \in Job : n = job[j] /\ n # NoJob /\ JobFits(n)
  BY JobTyped DEF Settle, IInv, JobsFit
<1>2. PICK w \in Workspaces : w = n.ws
  BY DEF Job
<1>3. PICK c \in Nat : c = n.at /\ c =< server[w].at
  BY <1>1, <1>2 DEF Job, JobFits
<1>4. UNCHANGED <<place, screen, backend, cache, activity>> /\ UNCHANGED <<followed, slug, screen>>
  BY DEF Settle, backend, place
<1>5. PICK T \in SUBSET (Workspaces \X View) :
        /\ T = Told(n)
        /\ acked' = [a \in Workspaces \X View |-> IF a \in T /\ c > acked[a] THEN c ELSE acked[a]]
        /\ Invalidate(w) \/ (UNCHANGED <<stale, fetch>> /\ T = {})
  <2>1. Told(n) \in SUBSET (Workspaces \X View)
    BY DEF Told
  <2>2. acked' = [a \in Workspaces \X View |-> IF a \in Told(n) /\ c > acked[a] THEN c ELSE acked[a]]
    BY <1>1, <1>3 DEF Settle
  <2>3. CASE Outcome(n) \in Refetches(n.op)
    BY <1>1, <1>2, <2>1, <2>2, <2>3 DEF Settle
  <2>4. CASE Outcome(n) \notin Refetches(n.op)
    <3>1. Outcome(n) # "success" /\ n.op # "test"
      BY <2>4 DEF Outcome, Refetches
    <3>2. Told(n) = {}
      BY <3>1 DEF Told
    <3>. QED BY <1>1, <2>1, <2>2, <2>4, <3>2 DEF Settle
  <2>. QED BY <2>3, <2>4
<1>6. /\ acked' \in [Workspaces \X View -> Nat] /\ TimesFit'
      /\ \A v \in Workspaces, q \in View : v # w \/ <<v, q>> \notin T => acked'[<<v, q>>] = acked[<<v, q>>]
  <2>1. \A a \in T : a[1] = w
    BY <1>2, <1>5 DEF Told
  <2>2. \A v \in Workspaces, q \in View :
          acked'[<<v, q>>] = IF <<v, q>> \in T /\ c > acked[<<v, q>>] THEN c ELSE acked[<<v, q>>]
    BY <1>5
  <2>3. acked' \in [Workspaces \X View -> Nat]
    BY <1>5 DEF IInv, TypeOK
  <2>4. TimesFit'
    BY <1>3, <1>4, <2>1, <2>2 DEF IInv, TimesFit, backend
  <2>. QED BY <2>1, <2>2, <2>3, <2>4
<1>7. stale' \subseteq Keys /\ fetch' \in [Keys -> Request \union {NoRequest}] /\ QueriesFit'
  <2>1. CASE UNCHANGED <<stale, fetch>> /\ T = {}
    <3>1. UNCHANGED acked
      BY <1>5, <2>1 DEF IInv, TypeOK
    <3>2. QueriesFit'
      BY <1>4, <2>1, <3>1, QueriesKept DEF queries
    <3>. QED BY <2>1, <3>2 DEF IInv, TypeOK
  <2>2. CASE Invalidate(w) /\ T = {}
    <3>1. UNCHANGED acked
      BY <1>5, <2>2 DEF IInv, TypeOK
    <3>. QED BY <1>4, <2>2, <3>1, InvalidateFits DEF IInv
  <2>3. CASE Invalidate(w) /\ T # {}
    <3>1. Shown /\ w = slug /\ n.here
      BY <1>1, <1>2, <1>5, <2>3 DEF JobFits, Told
    <3> DEFINE kept == {k \in Keys : fetch[k] # NoRequest /\ cache[k] = Nothing}
               ks   == (Invalid(w) \intersect Mounted(screen, w)) \ kept
    <3>2. stale' = stale \union Invalid(w) /\ fetch' = Ask(ks, w)
      BY <2>3, <3>1 DEF Invalidate, InvalidateBut
    <3>3. \A k \in ks : k[1] = Prefix(w)
      BY DEF Invalid
    <3>4. \A q \in View : <<w, q>> \in T => Key(w, q) \in ks
      <4> SUFFICES ASSUME NEW q \in View, <<w, q>> \in T PROVE Key(w, q) \in ks
        OBVIOUS
      <4>1. Shows(screen, q) /\ cache[Key(w, q)] # Nothing
        BY <1>2, <1>5 DEF Told
      <4>2. Key(w, q) \in Invalid(w) /\ Key(w, q) \in Mounted(screen, w)
        BY <4>1, KeyTyped DEF Invalid, Mounted
      <4>. QED BY <4>1, <4>2
    <3>5. PICK f \in Request : f = [header |-> w, answer |-> Nothing]
      BY DEF Request
    <3>6. f # NoRequest /\ f.header = w /\ f.answer = Nothing
      BY <3>5, Constants DEF NoRequest
    <3> HIDE DEF ks, kept
    <3>7. \A l \in Keys : fetch'[l] = IF l \in ks THEN f ELSE fetch[l]
      BY <3>2, <3>5 DEF Ask
    <3>8. fetch' \in [Keys -> Request \union {NoRequest}] /\ stale' \subseteq Keys
      <4>1. fetch' = [l \in Keys |-> fetch'[l]]
        BY <3>2 DEF Ask
      <4>2. stale' \subseteq Keys
        BY <3>2 DEF Invalid, IInv, TypeOK
      <4>. QED BY <3>7, <4>1, <4>2 DEF IInv, TypeOK
    <3>9. ASSUME NEW l \in Keys PROVE FetchFits(l, fetch[l])'
      <4>1. CASE l \in ks
        <5>1. fetch'[l] = f /\ l[1] = Prefix(w) /\ Prefix(w)' = Prefix(w)
          BY <1>4, <3>3, <3>7, <4>1 DEF Prefix
        <5>. QED BY <3>6, <5>1, Constants DEF FetchFits, Nothing
      <4>2. CASE l \notin ks
        <5>1. FetchFits(l, fetch[l]) /\ fetch'[l] = fetch[l]
          BY <3>7, <4>2 DEF IInv, QueriesFit, FetchesFit
        <5> SUFFICES ASSUME fetch[l] # NoRequest PROVE FetchFits(l, fetch[l])'
          BY <5>1 DEF FetchFits
        <5>2. l[1] = Prefix(fetch[l].header) /\ fetch[l].answer.ws \in {fetch[l].header, None}
          BY <5>1 DEF FetchFits
        <5>3. ASSUME NEW v \in Workspaces, fetch[l].answer.ws = v
              PROVE  fetch[l].answer.at >= acked'[<<v, l[2]>>]
          <6>1. l[2] \in View /\ fetch[l].answer.at >= acked[<<v, l[2]>>]
            BY <5>1, <5>3, KeysTyped DEF FetchFits
          <6>2. v = fetch[l].header
            BY <5>2, <5>3, Constants
          <6>3. v # w \/ <<v, l[2]>> \notin T
            <7> SUFFICES ASSUME v = w, <<w, l[2]>> \in T PROVE FALSE
              OBVIOUS
            <7>1. l = Key(w, l[2])
              BY <5>2, <6>2, KeysTyped DEF Key
            <7>. QED BY <3>4, <4>2, <6>1, <7>1
          <6>. QED BY <1>6, <6>1, <6>3
        <5>. QED BY <1>4, <5>1, <5>2, <5>3 DEF FetchFits, Prefix
      <4>. QED BY <4>1, <4>2
    <3>10. OwnWorkspace'
      BY <1>4 DEF IInv, QueriesFit, OwnWorkspace
    <3>11. OwnWritesShown'
      <4> SUFFICES ASSUME NEW v \in Workspaces, NEW q \in View, cache[Key(v, q)].ws = v,
                          Key(v, q) \notin stale', fetch'[Key(v, q)] = NoRequest
                   PROVE  cache[Key(v, q)].at >= acked'[<<v, q>>]
        BY <1>4 DEF OwnWritesShown, Key, Prefix
      <4>1. Key(v, q) \notin Invalid(w) /\ Key(v, q) \notin stale
        BY <3>2
      <4>2. v # w
        BY <4>1, KeyTyped DEF Invalid
      <4>3. fetch[Key(v, q)] = NoRequest
        BY <3>6, <3>7, KeyTyped
      <4>. QED BY <1>6, <4>1, <4>2, <4>3 DEF IInv, QueriesFit, OwnWritesShown
    <3>. QED BY <3>8, <3>9, <3>10, <3>11 DEF QueriesFit, FetchesFit
  <2>. QED BY <1>5, <2>1, <2>2, <2>3
<1>8. job' \in [Jobs -> Job \union {NoJob}] /\ JobsFit'
  <2>1. job' = [job EXCEPT ![j] = NoJob] /\ JobFits(NoJob)'
    BY DEF Settle, JobFits
  <2>2. Grows
    BY <1>4, ServerKept DEF backend, IInv
  <2>. QED BY <1>4, <2>1, <2>2, JobsStable DEF IInv, place
<1>9. TypeOK'
  BY <1>4, <1>6, <1>7, <1>8 DEF IInv, TypeOK, place, backend, activity
<1>10. FeedFits'
  BY <1>4, ServerTyped, FeedKept, Constants DEF IInv, TypeOK, place, backend, activity
<1>. QED BY <1>6, <1>7, <1>8, <1>9, <1>10 DEF IInv

(* The tab shows something else: what was under way goes on without it.    *)
LEMMA MoveFits ==
  ASSUME IInv, Leave, UNCHANGED <<backend, cache, stale, acked>>,
         slug' \in Workspaces, org' \in Workspaces, going' \in Workspaces \union {None},
         moves' \in 0..MaxMoves[followed], screen' \in Screens[followed],
         Mount(screen', slug') \/ UNCHANGED fetch
  PROVE  IInv'
<1> USE DEF backend
<1>1. PICK w \in Workspaces, s \in Screens[followed] : w = slug' /\ s = screen'
  OBVIOUS
<1>2. fetch' \in [Keys -> Request \union {NoRequest}] /\ QueriesFit'
  <2>1. CASE Mount(screen', slug')
    <3>1. Mount(s, w)
      BY <1>1, <2>1
    <3>. QED BY <3>1, MountFits DEF IInv
  <2>2. CASE UNCHANGED fetch
    <3>1. UNCHANGED <<followed, queries, acked>>
      BY <2>2 DEF queries
    <3>. QED BY <2>2, <3>1, QueriesKept DEF IInv, TypeOK
  <2>. QED BY <2>1, <2>2
<1>3. /\ job' \in [Jobs -> Job \union {NoJob}] /\ JobsFit'
      /\ stream' \in BOOLEAN /\ feed' \in Seq([ws : Workspaces, at : Nat]) /\ FeedFits'
  BY LeaveFits DEF IInv
<1>4. TypeOK'
  BY <1>2, <1>3 DEF IInv, TypeOK
<1>5. TimesFit'
  BY DEF IInv, TimesFit
<1>. QED BY <1>2, <1>3, <1>4, <1>5 DEF IInv

LEMMA MoveTyped ==
  ASSUME IInv
  PROVE  /\ slug \in Workspaces /\ org \in Workspaces /\ going \in Workspaces \union {None}
         /\ followed \in Resource /\ screen \in Screens[followed] /\ "dashboard" \in Screens[followed]
         /\ moves \in 0..MaxMoves[followed]
         /\ moves < MaxMoves[followed] => moves + 1 \in 0..MaxMoves[followed]
BY Constants DEF IInv, TypeOK

LEMMA NavigateStep ==
  ASSUME IInv, NEW s \in Screens[followed], Navigate(s)
  PROVE  IInv'
BY MoveFits, MoveTyped DEF Navigate, place

LEMMA SwitchToStep ==
  ASSUME IInv, NEW w \in Workspaces, SwitchTo(w)
  PROVE  IInv'
BY MoveFits, MoveTyped DEF SwitchTo, Moved

LEMMA GoBackToStep ==
  ASSUME IInv, NEW w \in Workspaces, GoBackTo(w)
  PROVE  IInv'
BY MoveFits, MoveTyped DEF GoBackTo, Moved

LEMMA ArriveStep == IInv /\ Arrive => IInv'
BY MoveFits, MoveTyped, Constants DEF Arrive, Moved

LEMMA SetActiveStep == IInv /\ SetActive => IInv'
BY MoveFits, MoveTyped DEF SetActive, Moved

LEMMA ReloadStep == IInv /\ Reload => IInv'
<1> SUFFICES ASSUME IInv, Reload PROVE IInv'
  OBVIOUS
<1>1. UNCHANGED <<slug, org, moves, screen, followed, clock, server>>
  BY DEF Reload, backend
<1>2. slug \in Workspaces
  BY Constants DEF IInv, TypeOK
<1> DEFINE f == [header |-> slug, answer |-> Nothing]
<1>3. f \in Request /\ f # NoRequest /\ f.header = slug /\ f.answer = Nothing
  BY <1>2, Constants DEF Request, NoRequest
<1>4. \A k \in Keys : fetch'[k] \in {f, NoRequest} /\ (fetch'[k] = f => k[1] = Prefix(slug))
  <2>1. \A k \in Mounted(screen, slug) : k[1] = Prefix(slug)
    BY DEF Mounted, Key
  <2>2. \A k \in Keys : fetch'[k] = IF Shown /\ k \in Mounted(screen, slug) THEN f ELSE NoRequest
    BY DEF Reload
  <2>. QED BY <1>3, <2>1, <2>2
<1>5. fetch' \in [Keys -> Request \union {NoRequest}]
  BY <1>3, <1>4 DEF Reload
<1>6. FetchesFit'
  <2>1. f.header = slug /\ f.answer = Nothing
    BY <1>3
  <2> SUFFICES ASSUME NEW k \in Keys PROVE FetchFits(k, fetch[k])'
    BY DEF FetchesFit
  <2>2. CASE fetch'[k] = NoRequest
    BY <2>2 DEF FetchFits
  <2>3. CASE fetch'[k] = f
    <3>1. k[1] = Prefix(slug) /\ Prefix(slug)' = Prefix(slug)
      BY <1>1, <1>4, <2>3 DEF Prefix
    <3> HIDE DEF f
    <3>. QED BY <1>1, <2>1, <2>3, <3>1, Constants DEF FetchFits, Nothing, Prefix
  <2>. QED BY <1>4, <2>2, <2>3
<1>7. OwnWorkspace' /\ OwnWritesShown'
  <2>1. \A k \in Keys : cache'[k].ws = None
    BY DEF Reload, Nothing
  <2>2. \A w \in Workspaces, v \in View : w # None /\ <<w, v>> \in Keys /\ Key(w, v)' \in Keys
    BY <1>1, Constants DEF Key, Keys, Prefix
  <2>. QED BY <2>1, <2>2 DEF OwnWorkspace, OwnWritesShown
<1>8. TimesFit' /\ acked' \in [Workspaces \X View -> Nat]
  <2>1. \A w \in Workspaces, v \in View : acked'[<<w, v>>] = 0 /\ server[w].at \in Nat
    BY ServerTyped DEF Reload, IInv
  <2>2. acked' \in [Workspaces \X View -> Nat]
    BY <1>2 DEF Reload
  <2>. QED BY <1>1, <2>1, <2>2 DEF IInv, TimesFit
<1>9. JobsFit' /\ job' \in [Jobs -> Job \union {NoJob}]
  BY DEF Reload, JobsFit, JobFits
<1>10. FeedFits' /\ feed' \in Seq([ws : Workspaces, at : Nat])
  <2>1. feed' = <<>> /\ Len(feed') = 0 /\ DOMAIN feed' = {}
    BY DEF Reload
  <2>. QED BY <2>1, Constants DEF FeedFits, FeedIsNewestFirst
<1>11. TypeOK'
  <2>1. cache' \in [Keys -> Data \union {Nothing}] /\ stale' \subseteq Keys
        /\ going' = None /\ stream' = FALSE
    BY DEF Reload
  <2>. QED BY <1>1, <1>5, <1>8, <1>9, <1>10, <2>1 DEF IInv, TypeOK
<1>. QED BY <1>6, <1>7, <1>8, <1>9, <1>10, <1>11 DEF IInv, QueriesFit

LEMMA StreamStep == IInv /\ (OpenStream \/ BreakStream) => IInv'
<1> SUFFICES ASSUME IInv, OpenStream \/ BreakStream PROVE IInv'
  OBVIOUS
<1>1. UNCHANGED <<place, screen, backend, queries, job, acked, feed>> /\ stream' \in BOOLEAN
  BY DEF OpenStream, BreakStream
<1>2. UNCHANGED <<place, screen, followed, clock, server, queries, job, acked, feed>>
  BY <1>1 DEF backend
<1>3. QueriesFit'
  BY <1>2, QueriesKept
<1>4. TypeOK'
  BY <1>1, <1>2 DEF IInv, TypeOK, place, queries
<1>5. TimesFit'
  BY <1>2 DEF IInv, TimesFit
<1>6. JobsFit'
  BY <1>2, ServerKept, JobsKept DEF IInv, place
<1>7. FeedFits'
  BY <1>2, ServerTyped, FeedKept, Constants DEF IInv, TypeOK, place
<1>. QED BY <1>3, <1>4, <1>5, <1>6, <1>7 DEF IInv

LEMMA StutterStep == IInv /\ UNCHANGED vars => IInv'
<1> SUFFICES ASSUME IInv, UNCHANGED vars PROVE IInv'
  OBVIOUS
<1>1. UNCHANGED <<place, screen, backend, cache, stale, fetch, job, acked, activity>>
  BY DEF vars, queries
<1>2. UNCHANGED <<followed, queries, acked>>
  BY <1>1 DEF backend, queries
<1>. QED BY <1>1, <1>2, QueriesKept, OnlyQueries DEF IInv, TypeOK

(* Every step keeps the invariant.                                         *)
LEMMA StepIInv == IInv /\ [Next]_vars => IInv'
<1> SUFFICES ASSUME IInv, [Next]_vars PROVE IInv'
  OBVIOUS
<1>0. Items[followed] \subseteq Item
  BY DEF Item, IInv, TypeOK
<1>1. ASSUME NEW k \in Keys, Serve(k) \/ FailFetch(k) \/ Fetched(k) PROVE IInv'
  BY <1>1, ServeStep, FailFetchStep, FetchedStep
<1>2. ASSUME NEW j \in Jobs, NEW op \in Op, NEW ids \in SUBSET Items[followed], Begin(j, op, ids) PROVE IInv'
  BY <1>2, <1>0, BeginStep
<1>3. ASSUME NEW j \in Jobs, SendBatch(j) \/ Settle(j) PROVE IInv'
  BY <1>3, SendBatchStep, SettleStep
<1>4. ASSUME NEW j \in Jobs, NEW x \in Items[followed], Apply(j, x) \/ Refuse(j, x) PROVE IInv'
  BY <1>4, <1>0, ApplyStep, RefuseStep
<1>5. ASSUME NEW s \in Screens[followed], Navigate(s) PROVE IInv'
  BY <1>5, NavigateStep
<1>6. ASSUME NEW w \in Workspaces, OthersWrite(w) \/ SwitchTo(w) \/ GoBackTo(w) PROVE IInv'
  BY <1>6, OthersWriteStep, SwitchToStep, GoBackToStep
<1>7. CASE Arrive \/ SetActive \/ Reload
  BY <1>7, ArriveStep, SetActiveStep, ReloadStep
<1>8. CASE OpenStream \/ BreakStream
  BY <1>8, StreamStep
<1>9. CASE UNCHANGED vars
  BY <1>9, StutterStep
<1>. QED BY <1>1, <1>2, <1>3, <1>4, <1>5, <1>6, <1>7, <1>8, <1>9 DEF Next

(* What is under way stays bound to what it was started for, whatever the  *)
(* tab shows meanwhile.                                                    *)
THEOREM Invariance == Spec => []IInv
BY InitIInv, StepIInv, PTL DEF Spec

(* Each variable keeps its type.                                           *)
THEOREM TypeCorrect == Spec => []TypeOK
<1>1. IInv => TypeOK
  BY DEF IInv
<1>. QED BY <1>1, Invariance, PTL

(* What is kept of a workspace's orders and runs is that workspace's,      *)
(* whatever token each request ends up with (use-api-client.ts,            *)
(* clerk-tenant.guard.ts).                                                 *)
THEOREM TenantIsolation == Spec => []OwnWorkspace
<1>1. IInv => OwnWorkspace
  BY DEF IInv, QueriesFit
<1>. QED BY <1>1, Invariance, PTL

(* A view that was there when its screen was told of a write has the write *)
(* once it counts as fresh, whatever was read meanwhile (features hooks).  *)
THEOREM ReadsOwnWrites == Spec => []OwnWritesShown
<1>1. IInv => OwnWritesShown
  BY DEF IInv, QueriesFit
<1>. QED BY <1>1, Invariance, PTL

(* A bulk mutation that has heard of no failure has left out no row        *)
(* (useBulkUpdateOrderStatus, useBulkRetryWorkflowRun).                    *)
THEOREM NoRowLeftOut == Spec => []AllTickedAreWritten
<1>1. IInv => AllTickedAreWritten
  <2> SUFFICES ASSUME IInv, NEW j \in Jobs, job[j] # NoJob, job[j].op \in Lasting,
                      job[j].todo = {}, job[j].flight = {}, ~job[j].failed
               PROVE  job[j].all \subseteq server[job[j].ws].val
    BY DEF AllTickedAreWritten, Lasting
  <2>1. JobFits(job[j])
    BY DEF IInv, JobsFit
  <2>. QED BY <2>1 DEF JobFits
<1>. QED BY <1>1, Invariance, PTL

(* The activity feed is the shown workspace's, newest first, without       *)
(* repetition and within its bound (activity-feed.tsx).                    *)
THEOREM FeedInOrder == Spec => []FeedIsNewestFirst
<1>1. IInv => FeedIsNewestFirst
  BY DEF IInv, FeedFits
<1>. QED BY <1>1, Invariance, PTL
=============================================================================
